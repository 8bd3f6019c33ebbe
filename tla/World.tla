-------------------------------- MODULE World --------------------------------
(***************************************************************************)
(* What the controller works on and does not own: one Swarm service, the   *)
(* Vault KV v2 documents, and the operators who change both.               *)
(*                                                                         *)
(* Swarm gives a service a version index that every change of it bumps,    *)
(* and accepts an update only at the current index.  A KV v2 document is   *)
(* the sequence of its versions; its current_version is the length.        *)
(***************************************************************************)
EXTENDS Resolution, Sequences

CONSTANTS
  Constraints,  \* placement constraints
  Gate,         \* the reserved constraint, whatever white space it is spelled with
  Images,       \* stands for every field of the spec the controller never edits
  Deployments,  \* the service specs the stack files of the operators produce
  Documents,    \* the documents the operators write
  Deleted,      \* a document version whose data was deleted
  Kinds,        \* the kinds of change the operators make
  MaxChanges    \* bound on the changes they make

VARIABLES
  svc,      \* the service object Swarm stores
  vault,    \* the versions of every document
  written,  \* history: every <<document key, version, document>> ever written
  changes,  \* number of changes made by others than the controller
  updates   \* number of service updates Swarm accepted from controllers

worldVars == <<svc, vault, written, changes, updates>>

-----------------------------------------------------------------------------
\* swarm.Service as far as the controller looks at it.  container: the task
\* template has a ContainerSpec (env is empty when it has none).
IsService(s) ==
  /\ s \in [version: Nat, user: {s.user}, image: Images, container: BOOLEAN,
            env: {s.env}, placement: SUBSET Constraints, state: {s.state}]
  /\ IsUserLabels(s.user)
  /\ IsMap(s.env, Names, Values)
  /\ IsStateLabels(s.state)

\* A service just deployed from the stack file d.
Deployed(d, index) ==
  [version |-> index, user |-> d.user, image |-> d.image,
   container |-> d.container, env |-> d.env, placement |-> d.placement,
   state |-> NoState]

ASSUME WorldAssumption ==
  /\ Gate \in Constraints
  /\ \A d \in Deployments : IsService(Deployed(d, 1))
  /\ \A d \in Deployments : ConfigHash(d.user) \notin {NoLabel, Garbage}
  /\ \A doc \in Documents : IsDocument(doc)
  /\ Deleted \notin Documents
  /\ MaxChanges \in Nat

DocKeys == Mounts \X Paths
KeyOf(source) == <<source.kv, source.path>>

\* The document has a version n that holds data.
Holds(k, n, doc) ==
  /\ n \in 1 .. Len(vault[k])
  /\ vault[k][n] = doc
  /\ doc # Deleted

-----------------------------------------------------------------------------
\* A change by somebody else, of kind k.
External(k) ==
  /\ k \in Kinds
  /\ changes < MaxChanges
  /\ changes' = changes + 1
  /\ UNCHANGED updates

ServiceChange(k) == External(k) /\ UNCHANGED <<vault, written>>
VaultChange(k) == External(k) /\ UNCHANGED svc

\* docker stack deploy: the spec of the stack file replaces the whole spec, so
\* the controller's labels and environment are lost.
StackDeploy ==
  /\ ServiceChange("deploy")
  /\ \E d \in Deployments : svc' = Deployed(d, svc.version + 1)

\* docker service update --image (or any other field the controller ignores).
EditSpec ==
  /\ ServiceChange("image")
  /\ \E i \in Images : svc' = [svc EXCEPT !.version = @ + 1, !.image = i]

\* docker service update --label-add: the user labels become those of a
\* stack file; everything else stays.
EditLabels ==
  /\ ServiceChange("labels")
  /\ \E d \in Deployments :
       svc' = [svc EXCEPT !.version = @ + 1, !.user = d.user]

\* docker service update --env-add and --env-rm.
EditEnvironment ==
  /\ ServiceChange("env")
  /\ svc.container
  /\ \E n \in Names \ BadNames :
       \/ \E v \in Values :
            svc' = [svc EXCEPT !.version = @ + 1, !.env = Put(@, n, v)]
       \/ /\ n \in DOMAIN svc.env
          /\ svc' = [svc EXCEPT !.version = @ + 1, !.env = Remove(@, {n})]

\* docker service update --constraint-add with the reserved constraint.
CloseGate ==
  /\ ServiceChange("gate")
  /\ svc' = [svc EXCEPT !.version = @ + 1, !.placement = @ \cup {Gate}]

\* Somebody removes or overwrites one of the controller's labels.
TamperState ==
  /\ ServiceChange("tamper")
  /\ \E l \in {"applied", "managed", "stateHash", "configHash"} :
       \E v \in {NoLabel, Garbage} :
         svc' = [svc EXCEPT !.version = @ + 1, !.state[l] = v]

\* Swarm bumps the version index without a change of the spec.
TouchService ==
  /\ ServiceChange("touch")
  /\ svc' = [svc EXCEPT !.version = @ + 1]

\* vault kv put.
VaultPut ==
  /\ VaultChange("put")
  /\ \E k \in DocKeys, doc \in Documents :
       /\ vault' = [vault EXCEPT ![k] = Append(@, doc)]
       /\ written' = written \cup {<<k, Len(vault[k]) + 1, doc>>}

\* vault kv delete: the data of the latest version goes, its number stays.
VaultDelete ==
  /\ VaultChange("delete")
  /\ \E k \in DocKeys :
       /\ vault[k] # <<>>
       /\ vault' = [vault EXCEPT ![k][Len(vault[k])] = Deleted]
  /\ UNCHANGED written

\* vault kv metadata delete: a later put starts again at version 1.
VaultPurge ==
  /\ VaultChange("purge")
  /\ \E k \in DocKeys :
       /\ vault[k] # <<>>
       /\ vault' = [vault EXCEPT ![k] = <<>>]
  /\ UNCHANGED written

-----------------------------------------------------------------------------
WorldInit ==
  /\ \E d \in Deployments : svc = Deployed(d, 1)
  /\ vault \in [DocKeys -> {<<>>} \cup {<<doc>> : doc \in Documents}]
  /\ written = {<<k, 1, vault[k][1]>> : k \in {x \in DocKeys : vault[x] # <<>>}}
  /\ changes = 0
  /\ updates = 0

WorldNext ==
  \/ StackDeploy \/ EditSpec \/ EditLabels \/ EditEnvironment \/ CloseGate
  \/ TamperState \/ TouchService
  \/ VaultPut \/ VaultDelete \/ VaultPurge

WorldTypeOK ==
  /\ IsService(svc)
  /\ vault \in [DocKeys -> Seq(Documents \cup {Deleted})]
  /\ written \subseteq DocKeys \X Nat \X Documents
  /\ changes \in 0 .. MaxChanges
  /\ updates \in Nat

=============================================================================
