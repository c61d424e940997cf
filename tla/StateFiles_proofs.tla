-------------------------- MODULE StateFiles_proofs --------------------------
(***************************************************************************)
(* Proofs about StateFiles, for any number of processes, legacy projects,  *)
(* calls, crashes and errors.                                              *)
(***************************************************************************)
EXTENDS StateFiles, SequenceTheorems, FiniteSetTheorems, WellFoundedInduction, TLAPS

-----------------------------------------------------------------------------
(* The plan of a repair.                                                   *)

\* What new must be to be the repair of old.
IsRepair(new, old, t) ==
    /\ DOMAIN new = DOMAIN old /\ new = [x \in DOMAIN new |-> new[x]]
    /\ new.root = RepairedRoot(old.root, t) /\ new.project = old.project
    /\ new.artifacts = RepairedArtifacts(old, t) /\ new.nodes = RepairedNodes(old, t)
    /\ new.registry = RepairedRegistry(old, t) /\ new.snapshots = RepairedSnapshots(old, t)

LEMMA RepairIs ==
    ASSUME NEW before, IsRest(before.rest), NEW t \in Nat, NEW now \in Nat
    PROVE  LET new == Repaired(before, t, now).rest
           IN  IsRepair(new, before.rest, t) /\ new.updated \in Nat
  <1> DEFINE old == before.rest
             rest == [old EXCEPT !.root = RepairedRoot(@, t),
                                 !.artifacts = RepairedArtifacts(old, t),
                                 !.nodes = RepairedNodes(old, t),
                                 !.registry = RepairedRegistry(old, t),
                                 !.snapshots = RepairedSnapshots(old, t)]
             stamped == [rest EXCEPT !.updated = now]
  <1>1. /\ DOMAIN rest = DOMAIN old /\ rest = [x \in DOMAIN rest |-> rest[x]]
        /\ rest.root = RepairedRoot(old.root, t) /\ rest.project = old.project /\ rest.updated = old.updated
        /\ rest.artifacts = RepairedArtifacts(old, t) /\ rest.nodes = RepairedNodes(old, t)
        /\ rest.registry = RepairedRegistry(old, t) /\ rest.snapshots = RepairedSnapshots(old, t)
    <2> HIDE DEF old
    <2> QED BY DEF IsRest, old
  <1>2. Repaired(before, t, now).rest \in {rest, stamped}
    BY DEF Repaired
  <1> HIDE DEF rest
  <1>3. /\ DOMAIN stamped = DOMAIN rest /\ stamped = [x \in DOMAIN stamped |-> stamped[x]]
        /\ stamped.updated = now /\ \A x \in DOMAIN rest : x # "updated" => stamped[x] = rest[x]
    BY <1>1 DEF IsRest
  <1>4. IsRepair(rest, old, t) /\ rest.updated \in Nat
    BY <1>1 DEF IsRepair, IsRest
  <1>5. IsRepair(stamped, old, t) /\ stamped.updated \in Nat
    BY <1>1, <1>3 DEF IsRepair, IsRest
  <1> HIDE DEF stamped, old
  <1> QED BY <1>2, <1>4, <1>5 DEF old

-----------------------------------------------------------------------------
LEMMA MapOf ==
    ASSUME NEW f, NEW S, NEW T, IsMap(f, S, T)
    PROVE  DOMAIN f \subseteq S /\ \A x \in DOMAIN f : f[x] \in T
  BY DEF IsMap

LEMMA ArtifactAgain ==
    ASSUME NEW a \in Artifact, NEW old, NEW new, new.project = old.project,
           NEW t \in Nat, NEW later \in Nat, later >= t
    PROVE  /\ RepairedArtifact(a, old, t) \in Artifact
           /\ RepairedArtifact(a, old, t).stage = a.stage
           /\ RepairedArtifact(RepairedArtifact(a, old, t), new, later) = RepairedArtifact(a, old, t)
  <1> DEFINE b == RepairedArtifact(a, old, t)
  <1>1. /\ b \in Artifact /\ b.stage = a.stage
        /\ b.workflow = IF a.workflow = "unset" /\ old.project # "other" /\ Applies(99, t) THEN "this" ELSE a.workflow
        /\ b.path = IF a.path = "case" /\ Applies(97, t) THEN "live" ELSE a.path
    BY DEF RepairedArtifact, Artifact, Labels, Workflows
  <1> HIDE DEF b
  <1>2. b = [b EXCEPT !.workflow = b.workflow, !.path = b.path]
    BY <1>1 DEF Artifact
  <1>3. (IF b.workflow = "unset" /\ new.project # "other" /\ Applies(99, later) THEN "this" ELSE b.workflow) = b.workflow
    BY <1>1 DEF Applies
  <1>4. (IF b.path = "case" /\ Applies(97, later) THEN "live" ELSE b.path) = b.path
    BY <1>1 DEF Applies
  <1>5. RepairedArtifact(b, new, later) = b
    BY <1>2, <1>3, <1>4, Zenon DEF RepairedArtifact
  <1> QED BY <1>1, <1>5 DEF b

LEMMA ArtifactsAgain ==
    ASSUME NEW old, IsRest(old), NEW t \in Nat, NEW later \in Nat, later >= t, NEW new, IsRepair(new, old, t)
    PROVE  /\ IsMap(new.artifacts, Artifacts, Artifact) /\ DOMAIN new.artifacts = DOMAIN old.artifacts
           /\ \A a \in DOMAIN old.artifacts : /\ new.artifacts[a].stage = old.artifacts[a].stage
                                              /\ new.artifacts[a].time = old.artifacts[a].time
           /\ RepairedArtifacts(new, later) = new.artifacts
  <1>1. /\ new.project = old.project /\ DOMAIN old.artifacts \subseteq Artifacts
        /\ \A a \in DOMAIN old.artifacts : old.artifacts[a] \in Artifact
    BY MapOf DEF IsRest, IsRepair
  <1>2. new.artifacts = [a \in DOMAIN old.artifacts |-> RepairedArtifact(old.artifacts[a], old, t)]
    BY DEF IsRepair, RepairedArtifacts
  <1>3. \A a \in DOMAIN old.artifacts :
            /\ new.artifacts[a] \in Artifact
            /\ new.artifacts[a].stage = old.artifacts[a].stage /\ new.artifacts[a].time = old.artifacts[a].time
            /\ RepairedArtifact(new.artifacts[a], new, later) = new.artifacts[a]
    <2> SUFFICES ASSUME NEW a \in DOMAIN old.artifacts, NEW b, b = old.artifacts[a]
                 PROVE  /\ RepairedArtifact(b, old, t) \in Artifact
                        /\ RepairedArtifact(b, old, t).stage = b.stage /\ RepairedArtifact(b, old, t).time = b.time
                        /\ RepairedArtifact(RepairedArtifact(b, old, t), new, later) = RepairedArtifact(b, old, t)
      BY <1>2
    <2>1. b \in Artifact /\ new.project = old.project
      BY <1>1
    <2>2. RepairedArtifact(b, old, t) \in Artifact /\ RepairedArtifact(b, old, t).stage = b.stage
      BY <2>1, ArtifactAgain
    <2>3. RepairedArtifact(b, old, t).time = b.time
      BY <2>1 DEF RepairedArtifact, Artifact
    <2>4. RepairedArtifact(RepairedArtifact(b, old, t), new, later) = RepairedArtifact(b, old, t)
      BY <2>1, ArtifactAgain
    <2> QED BY <2>2, <2>3, <2>4
  <1>4. RepairedArtifacts(new, later) = new.artifacts
    BY <1>2, <1>3 DEF RepairedArtifacts
  <1> QED BY <1>1, <1>2, <1>3, <1>4 DEF IsMap

LEMMA NodeAgain ==
    ASSUME NEW n \in LineageNode, NEW a \in Artifact, NEW old, NEW new, new.project = old.project,
           NEW t \in Nat, NEW later \in Nat, later >= t
    PROVE  LET m == RepairedNode(n, a, old, t)
           IN  m \in LineageNode /\ RepairedNode(m, a, new, later) = m
  <1> DEFINE m == RepairedNode(n, a, old, t)
  <1>1. /\ m \in LineageNode
        /\ m.workflow = IF n.workflow = "unset" /\ old.project # "other" /\ Applies(99, t) THEN "this" ELSE n.workflow
        /\ m.stage = IF Applies(98, t) THEN a.stage ELSE n.stage
        /\ m.path = IF Applies(98, t) THEN a.path ELSE n.path
    BY DEF RepairedNode, LineageNode, Artifact, Labels, Workflows
  <1> HIDE DEF m
  <1>2. m = [workflow |-> m.workflow, stage |-> m.stage, path |-> m.path]
    BY <1>1 DEF LineageNode
  <1>3. (IF m.workflow = "unset" /\ new.project # "other" /\ Applies(99, later) THEN "this" ELSE m.workflow) = m.workflow
    BY <1>1 DEF Applies
  <1>4. /\ (IF Applies(98, later) THEN a.stage ELSE m.stage) = m.stage
        /\ (IF Applies(98, later) THEN a.path ELSE m.path) = m.path
    BY <1>1 DEF Applies
  <1>5. RepairedNode(m, a, new, later) = m
    BY <1>2, <1>3, <1>4, Zenon DEF RepairedNode
  <1> QED BY <1>1, <1>5 DEF m

LEMMA NewNodeAgain ==
    ASSUME NEW a \in Artifact, NEW new, NEW later \in Nat
    PROVE  Node(a) \in LineageNode /\ RepairedNode(Node(a), a, new, later) = Node(a)
  <1>1. Node(a) \in LineageNode /\ Node(a).workflow # "unset" /\ Node(a).stage = a.stage /\ Node(a).path = a.path
    BY DEF Node, LineageNode, Artifact, Workflows
  <1> QED BY <1>1 DEF RepairedNode, LineageNode

LEMMA NodesAgain ==
    ASSUME NEW old, IsRest(old), NEW t \in Nat, NEW later \in Nat, later >= t, NEW new, IsRepair(new, old, t)
    PROVE  /\ IsMap(new.nodes, Artifacts, LineageNode)
           /\ RepairedNodes(new, later) = new.nodes
  <1> DEFINE arts == new.artifacts
             D == DOMAIN old.nodes \cup (IF Applies(99, t) THEN DOMAIN arts ELSE {})
             D2 == DOMAIN new.nodes \cup (IF Applies(99, later) THEN DOMAIN arts ELSE {})
  <1>1. /\ new.project = old.project /\ new.artifacts = RepairedArtifacts(old, t)
        /\ DOMAIN old.nodes \subseteq Artifacts /\ \A a \in DOMAIN old.nodes : old.nodes[a] \in LineageNode
    BY MapOf DEF IsRest, IsRepair
  <1>2. /\ DOMAIN arts \subseteq Artifacts /\ \A a \in DOMAIN arts : arts[a] \in Artifact
        /\ RepairedArtifacts(new, later) = arts
    BY ArtifactsAgain, MapOf
  <1> HIDE DEF arts
  <1>3. new.nodes = [a \in D |-> IF a \notin DOMAIN old.nodes THEN Node(arts[a])
                                 ELSE IF a \in DOMAIN arts THEN RepairedNode(old.nodes[a], arts[a], old, t)
                                 ELSE old.nodes[a]]
    BY <1>1 DEF IsRepair, RepairedNodes, arts
  <1>4. \A a \in D : a \notin DOMAIN old.nodes => a \in DOMAIN arts
    OBVIOUS
  <1>5. D \subseteq Artifacts /\ DOMAIN new.nodes = D /\ D2 = D
    BY <1>1, <1>2, <1>3 DEF Applies
  <1> HIDE DEF D
  <1>6. ASSUME NEW a \in D
        PROVE  /\ new.nodes[a] \in LineageNode
               /\ a \in DOMAIN arts => RepairedNode(new.nodes[a], arts[a], new, later) = new.nodes[a]
    <2>1. CASE a \notin DOMAIN old.nodes
      <3>1. new.nodes[a] = Node(arts[a]) /\ arts[a] \in Artifact
        BY <1>2, <1>3, <1>4, <2>1
      <3> QED BY <3>1, NewNodeAgain
    <2>2. CASE a \in DOMAIN old.nodes /\ a \in DOMAIN arts
      <3>1. /\ new.nodes[a] = RepairedNode(old.nodes[a], arts[a], old, t)
            /\ arts[a] \in Artifact /\ old.nodes[a] \in LineageNode
        BY <1>1, <1>2, <1>3, <2>2
      <3> QED BY <1>1, <3>1, NodeAgain
    <2>3. CASE a \in DOMAIN old.nodes /\ a \notin DOMAIN arts
      BY <1>1, <1>3, <2>3
    <2> QED BY <2>1, <2>2, <2>3
  <1>8. RepairedNodes(new, later) = [a \in D2 |-> IF a \notin DOMAIN new.nodes THEN Node(arts[a])
                                 ELSE IF a \in DOMAIN arts THEN RepairedNode(new.nodes[a], arts[a], new, later)
                                 ELSE new.nodes[a]]
    BY <1>2 DEF RepairedNodes
  <1>9. RepairedNodes(new, later) = [a \in D |-> new.nodes[a]]
    BY <1>5, <1>6, <1>8
  <1>10. new.nodes = [a \in D |-> new.nodes[a]]
    BY <1>3
  <1> QED BY <1>5, <1>6, <1>9, <1>10 DEF IsMap

-----------------------------------------------------------------------------
LEMMA NormalAgain ==
    ASSUME NEW status \in OldStatuses, NEW whole \in BOOLEAN
    PROVE  /\ NormalStatus(status, whole) \in OldStatuses
           /\ status # "odd" => NormalStatus(status, whole) # "odd"
           /\ NormalStatus(NormalStatus(status, whole), whole) = NormalStatus(status, whole)
  BY DEF NormalStatus, OldStatuses, KnownStatuses

\* An entry and its file, before and after.
LEMMA EntryIs ==
    ASSUME NEW old, IsRest(old), NEW t \in Nat, NEW new, IsRepair(new, old, t), NEW c \in DOMAIN old.registry
    PROVE  LET e == old.registry[c]
               f == new.registry[c]
               whole == Whole(old, c)
               kept == Settled(old, c) \/ ~Applies(98, t)
           IN  /\ e \in Entry /\ f \in Entry /\ whole \in BOOLEAN
               /\ f = RepairedEntry(old, c, t)
               /\ f.stage = e.stage /\ f.workflow = e.workflow
               /\ kept => f = e
               /\ ~kept => f.status = NormalStatus(e.status, whole) /\ f.recoverable = IF whole THEN "yes" ELSE "no"
  <1> DEFINE e == old.registry[c]
             f == new.registry[c]
             whole == Whole(old, c)
             kept == Settled(old, c) \/ ~Applies(98, t)
  <1>1. e \in Entry /\ whole \in BOOLEAN
    BY MapOf DEF IsRest, Whole
  <1>2. f = RepairedEntry(old, c, t)
    BY DEF IsRepair, RepairedRegistry
  <1>3. /\ kept => f = e
        /\ ~kept => f = [e EXCEPT !.status = NormalStatus(e.status, whole),
                                 !.recoverable = IF whole THEN "yes" ELSE "no"]
    BY <1>2, Zenon DEF RepairedEntry
  <1> HIDE DEF e, f, whole, kept
  <1>4. NormalStatus(e.status, whole) \in OldStatuses
    BY <1>1, NormalAgain DEF Entry
  <1>5. /\ f \in Entry /\ f.stage = e.stage /\ f.workflow = e.workflow
        /\ ~kept => f.status = NormalStatus(e.status, whole) /\ f.recoverable = IF whole THEN "yes" ELSE "no"
    BY <1>1, <1>3, <1>4 DEF Entry
  <1> QED BY <1>1, <1>2, <1>3, <1>5 DEF e, f, whole, kept

LEMMA EntryTime ==
    ASSUME NEW old, IsRest(old), NEW t \in Nat, NEW new, IsRepair(new, old, t), NEW c \in DOMAIN old.registry
    PROVE  new.registry[c].time = old.registry[c].time /\ old.registry[c].time \in Nat
  <1> DEFINE e == old.registry[c]
  <1>1. e \in Entry
    BY MapOf DEF IsRest
  <1>2. new.registry[c] = RepairedEntry(old, c, t)
    BY DEF IsRepair, RepairedRegistry
  <1>3. \/ new.registry[c] = e
        \/ \E x, y : new.registry[c] = [e EXCEPT !.status = x, !.recoverable = y]
    BY <1>2 DEF RepairedEntry
  <1> HIDE DEF e
  <1>4. new.registry[c].time = e.time
    BY <1>1, <1>3 DEF Entry
  <1> QED BY <1>1, <1>4 DEF Entry, e

LEMMA FileIs ==
    ASSUME NEW old, IsRest(old), NEW t \in Nat, NEW new, IsRepair(new, old, t)
    PROVE  /\ DOMAIN new.registry = DOMAIN old.registry /\ DOMAIN new.snapshots = DOMAIN old.snapshots
           /\ \A c \in DOMAIN old.snapshots :
                /\ new.snapshots[c] \in Snapshot /\ old.snapshots[c] \in Snapshot
                /\ new.snapshots[c].whole = old.snapshots[c].whole
                /\ c \in DOMAIN old.registry /\ new.registry[c] # old.registry[c] =>
                        new.snapshots[c].status = new.registry[c].status
                /\ c \notin DOMAIN old.registry \/ new.registry[c] = old.registry[c] =>
                        new.snapshots[c] = old.snapshots[c]
  <1>1. DOMAIN new.registry = DOMAIN old.registry /\ DOMAIN new.snapshots = DOMAIN old.snapshots
    BY DEF IsRepair, RepairedRegistry, RepairedSnapshots
  <1> SUFFICES ASSUME NEW c \in DOMAIN old.snapshots
               PROVE  /\ new.snapshots[c] \in Snapshot /\ old.snapshots[c] \in Snapshot
                      /\ new.snapshots[c].whole = old.snapshots[c].whole
                      /\ c \in DOMAIN old.registry /\ new.registry[c] # old.registry[c] =>
                            new.snapshots[c].status = new.registry[c].status
                      /\ c \notin DOMAIN old.registry \/ new.registry[c] = old.registry[c] =>
                            new.snapshots[c] = old.snapshots[c]
    BY <1>1
  <1> DEFINE s == old.snapshots[c]
             f == new.registry[c]
  <1>2. s \in Snapshot
    BY MapOf DEF IsRest
  <1>3. c \in DOMAIN old.registry => f = RepairedEntry(old, c, t) /\ f \in Entry
    BY EntryIs
  <1>4. new.snapshots[c] = IF c \in DOMAIN old.registry /\ RepairedEntry(old, c, t) # old.registry[c]
                           THEN [s EXCEPT !.status = RepairedEntry(old, c, t).status]
                           ELSE s
    BY DEF IsRepair, RepairedSnapshots
  <1>5. c \in DOMAIN old.registry => f.status \in OldStatuses
    BY <1>3 DEF Entry
  <1> HIDE DEF s, f
  <1>6. CASE c \in DOMAIN old.registry /\ f # old.registry[c]
    <2>1. new.snapshots[c] = [s EXCEPT !.status = f.status]
      BY <1>3, <1>4, <1>6
    <2>2. new.snapshots[c] \in Snapshot /\ new.snapshots[c].whole = s.whole /\ new.snapshots[c].status = f.status
      BY <1>2, <1>5, <1>6, <2>1 DEF Snapshot
    <2> QED BY <1>2, <1>6, <2>2 DEF s, f
  <1>7. CASE ~(c \in DOMAIN old.registry /\ f # old.registry[c])
    <2>1. new.snapshots[c] = s
      BY <1>3, <1>4, <1>7
    <2> QED BY <1>2, <1>7, <2>1 DEF s, f
  <1> QED BY <1>6, <1>7

LEMMA EntryAgain ==
    ASSUME NEW old, IsRest(old), NEW t \in Nat, NEW later \in Nat, later >= t, NEW new, IsRepair(new, old, t),
           NEW c \in DOMAIN old.registry
    PROVE  /\ Whole(new, c) = Whole(old, c)
           /\ Conflicting(new, c) = Conflicting(old, c)
           /\ StatusOf(new, c) = StatusOf(old, c)
           /\ RepairedEntry(new, c, later) = new.registry[c]
  <1> DEFINE e == old.registry[c]
             f == new.registry[c]
             whole == Whole(old, c)
             kept == Settled(old, c) \/ ~Applies(98, t)
  <1>1. /\ e \in Entry /\ f \in Entry /\ whole \in BOOLEAN
        /\ f.workflow = e.workflow
        /\ kept => f = e
        /\ ~kept => f.status = NormalStatus(e.status, whole) /\ f.recoverable = IF whole THEN "yes" ELSE "no"
    BY EntryIs
  <1>2. HasFile(new, c) = HasFile(old, c)
    BY FileIs DEF HasFile
  <1>3. Whole(new, c) = whole
    BY <1>1, <1>2, FileIs DEF Whole, HasFile
  <1>4. Conflicting(new, c) = Conflicting(old, c)
    <2>1. CASE f = e
      BY <1>2, <2>1, FileIs DEF Conflicting, HasFile
    <2>2. CASE f # e
      <3>1. ~Conflicting(old, c)
        BY <1>1, <2>2 DEF Settled
      <3>2. ~Conflicting(new, c)
        BY <2>2, FileIs DEF Conflicting, HasFile
      <3> QED BY <3>1, <3>2 DEF Conflicting
    <2> QED BY <2>1, <2>2
  <1>5. e.status \in OldStatuses /\ f.status \in OldStatuses
    BY <1>1 DEF Entry
  <1>6. Settled(new, c) = Settled(old, c)
    BY <1>1, <1>4, <1>5, NormalAgain DEF Settled
  <1>7. StatusOf(new, c) = StatusOf(old, c)
    <2>1. CASE Settled(old, c)
      BY <1>1, <1>6, <2>1 DEF StatusOf
    <2>2. CASE ~Settled(old, c)
      BY <1>1, <1>3, <1>5, <1>6, <2>2, NormalAgain DEF StatusOf
    <2> QED BY <2>1, <2>2
  <1>8. RepairedEntry(new, c, later) = f
    <2>1. CASE Settled(new, c) \/ ~Applies(98, later)
      BY <2>1 DEF RepairedEntry
    <2>2. CASE ~Settled(new, c) /\ Applies(98, later)
      <3>1. ~kept
        BY <1>6, <2>2 DEF Applies
      <3>2. f.status = NormalStatus(f.status, whole) /\ f.recoverable = IF whole THEN "yes" ELSE "no"
        BY <1>1, <1>5, <3>1, NormalAgain
      <3>3. RepairedEntry(new, c, later) = [f EXCEPT !.status = NormalStatus(f.status, whole),
                                                     !.recoverable = IF whole THEN "yes" ELSE "no"]
        BY <1>3, <2>2, Zenon DEF RepairedEntry
      <3> HIDE DEF f, whole
      <3>4. [f EXCEPT !.status = NormalStatus(f.status, whole), !.recoverable = IF whole THEN "yes" ELSE "no"] = f
        BY <1>1, <3>2 DEF Entry
      <3> QED BY <3>3, <3>4 DEF f, whole
    <2> QED BY <2>1, <2>2
  <1> QED BY <1>3, <1>4, <1>7, <1>8

LEMMA CheckpointsAgain ==
    ASSUME NEW old, IsRest(old), NEW t \in Nat, NEW later \in Nat, later >= t, NEW new, IsRepair(new, old, t)
    PROVE  /\ IsMap(new.registry, Checkpoints, Entry) /\ IsMap(new.snapshots, Checkpoints, Snapshot)
           /\ RepairedRegistry(new, later) = new.registry
           /\ RepairedSnapshots(new, later) = new.snapshots
  <1>1. /\ DOMAIN new.registry = DOMAIN old.registry /\ DOMAIN new.snapshots = DOMAIN old.snapshots
        /\ DOMAIN old.registry \subseteq Checkpoints /\ DOMAIN old.snapshots \subseteq Checkpoints
    BY FileIs, MapOf DEF IsRest
  <1>2. /\ new.registry = [c \in DOMAIN new.registry |-> new.registry[c]]
        /\ new.snapshots = [c \in DOMAIN new.snapshots |-> new.snapshots[c]]
    BY DEF IsRepair, RepairedRegistry, RepairedSnapshots
  <1>3. \A c \in DOMAIN new.registry : new.registry[c] \in Entry
    BY <1>1, EntryIs
  <1>4. \A c \in DOMAIN new.snapshots : new.snapshots[c] \in Snapshot
    BY <1>1, FileIs
  <1>5. \A c \in DOMAIN new.registry : RepairedEntry(new, c, later) = new.registry[c]
    BY <1>1, EntryAgain
  <1>6. RepairedRegistry(new, later) = new.registry
    BY <1>2, <1>5 DEF RepairedRegistry
  <1>7. RepairedSnapshots(new, later) = new.snapshots
    BY <1>2, <1>5 DEF RepairedSnapshots
  <1>8. IsMap(new.registry, Checkpoints, Entry)
    BY <1>1, <1>2, <1>3 DEF IsMap
  <1>9. IsMap(new.snapshots, Checkpoints, Snapshot)
    BY <1>1, <1>2, <1>4 DEF IsMap
  <1> QED BY <1>6, <1>7, <1>8, <1>9

-----------------------------------------------------------------------------
\* A finite set that is not empty has an element where f is largest.
LEMMA Maximum ==
    ASSUME NEW cs, IsFiniteSet(cs), cs # {}, NEW f, \A c \in cs : f[c] \in Nat
    PROVE  \E c \in cs : \A d \in cs : f[d] <= f[c]
  <1> DEFINE R == StrictSubsetOrdering(cs)
             Bad == {s \in SUBSET cs : s # {} /\ \A c \in s : \E d \in s : ~(f[d] <= f[c])}
  <1>1. SUFFICES Bad = {}
    <2>1. cs \notin Bad
      BY <1>1
    <2> QED BY <2>1
  <1>2. SUFFICES ASSUME Bad # {} PROVE FALSE
    OBVIOUS
  <1>3. IsWellFoundedOn(R, SUBSET cs)
    BY FS_StrictSubsetOrderingWellFounded, FS_FiniteSubsetsOfFinite
  <1>4. Bad \subseteq SUBSET cs
    OBVIOUS
  <1> HIDE DEF R
  <1>5. PICK s \in Bad : \A t \in Bad : <<t, s>> \notin R
    <2> HIDE DEF Bad
    <2> QED BY <1>2, <1>3, <1>4, WFMin
  <1>6. PICK x : x \in s
    OBVIOUS
  <1> DEFINE t == s \ {x}
  <1>7. t \subseteq s /\ t # s /\ s \subseteq cs
    BY <1>6
  <1>8. <<t, s>> \in R
    BY <1>7 DEF StrictSubsetOrdering, R
  <1>9. t \notin Bad /\ t \in SUBSET cs
    BY <1>5, <1>7, <1>8
  <1>10. CASE t = {}
    <2>1. s = {x}
      BY <1>6, <1>10
    <2> QED BY <2>1
  <1>11. CASE t # {}
    <2>1. PICK c \in t : \A d \in t : f[d] <= f[c]
      BY <1>9, <1>11
    <2>2. c \in s /\ f[c] \in Nat /\ f[x] \in Nat /\ s = t \cup {x}
      BY <1>6, <1>7, <2>1
    <2> HIDE DEF t
    <2>3. CASE f[x] <= f[c]
      <3>1. \A d \in s : f[d] <= f[c]
        BY <2>1, <2>2, <2>3
      <3> QED BY <2>2, <3>1
    <2>4. CASE ~(f[x] <= f[c])
      <3>1. \A d \in s : f[d] <= f[x]
        <4>1. \A d \in t : f[d] \in Nat
          BY <1>7, <2>2
        <4> QED BY <2>1, <2>2, <2>4, <4>1
      <3> QED BY <1>6, <3>1
    <2> QED BY <2>3, <2>4
  <1> QED BY <1>10, <1>11

LEMMA LatestIn ==
    ASSUME NEW rest, IsRest(rest), NEW cs \in SUBSET DOMAIN rest.registry, cs # {}, NEW default
    PROVE  LatestOf(rest, cs, default) \in cs
  <1> DEFINE f == [c \in cs |-> rest.registry[c].time]
  <1>1. IsFiniteSet(cs)
    BY FiniteAssumption, FS_Subset, MapOf DEF IsRest
  <1>2. \A c \in cs : f[c] \in Nat /\ f[c] = rest.registry[c].time
    <2>1. \A c \in cs : rest.registry[c] \in Entry
      BY MapOf DEF IsRest
    <2>2. \A e \in Entry : e.time \in Nat
      BY DEF Entry
    <2> QED BY <2>1, <2>2
  <1>3. \E c \in cs : \A d \in cs : f[d] <= f[c]
    <2> HIDE DEF f
    <2> QED BY <1>1, <1>2, Maximum
  <1>4. \E c \in cs : \A d \in cs : rest.registry[d].time <= rest.registry[c].time
    BY <1>2, <1>3
  <1> QED BY <1>4 DEF LatestOf

SameTimes(old, new, cs) == \A c \in cs : new.registry[c].time = old.registry[c].time

LEMMA LatestSame ==
    ASSUME NEW old, NEW new, NEW cs, NEW default, SameTimes(old, new, cs)
    PROVE  LatestOf(new, cs, default) = LatestOf(old, cs, default)
  <1>1. \A c : (c \in cs /\ \A d \in cs : new.registry[d].time <= new.registry[c].time)
               <=> (c \in cs /\ \A d \in cs : old.registry[d].time <= old.registry[c].time)
    BY Z3 DEF SameTimes
  <1> DEFINE a == CHOOSE c \in cs : \A d \in cs : new.registry[d].time <= new.registry[c].time
             b == CHOOSE c \in cs : \A d \in cs : old.registry[d].time <= old.registry[c].time
  <1>2. a = b
    BY <1>1, Zenon
  <1>3. LatestOf(new, cs, default) = (IF cs = {} THEN default ELSE a)
        /\ LatestOf(old, cs, default) = (IF cs = {} THEN default ELSE b)
    BY Zenon DEF LatestOf
  <1> HIDE DEF a, b
  <1> QED BY <1>2, <1>3

\* The rules for stages look at the same things before and after.
LEMMA MatchingSame ==
    ASSUME NEW old, IsRest(old), NEW t \in Nat, NEW later \in Nat, later >= t, NEW new, IsRepair(new, old, t),
           NEW st
    PROVE  /\ Matching(new, st) = Matching(old, st)
           /\ Matching(old, st) \subseteq DOMAIN old.registry
           /\ \A c \in Matching(old, st) : StatusOf(new, c) = StatusOf(old, c)
           /\ \A cs \in SUBSET Matching(old, st) : \A default : LatestOf(new, cs, default) = LatestOf(old, cs, default)
  <1>1. DOMAIN new.registry = DOMAIN old.registry
    BY FileIs
  <1>2. \A c \in DOMAIN old.registry :
            /\ new.registry[c].stage = old.registry[c].stage /\ new.registry[c].workflow = old.registry[c].workflow
            /\ Conflicting(new, c) = Conflicting(old, c) /\ StatusOf(new, c) = StatusOf(old, c)
    BY EntryIs, EntryAgain
  <1>3. Matching(new, st) = Matching(old, st) /\ Matching(old, st) \subseteq DOMAIN old.registry
    BY <1>1, <1>2 DEF Matching
  <1>4. \A c \in DOMAIN old.registry : new.registry[c].time = old.registry[c].time
    BY EntryTime
  <1>5. ASSUME NEW cs \in SUBSET Matching(old, st), NEW default
        PROVE  LatestOf(new, cs, default) = LatestOf(old, cs, default)
    <2>1. SameTimes(old, new, cs)
      BY <1>3, <1>4 DEF SameTimes
    <2> QED BY <2>1, LatestSame
  <1> QED BY <1>2, <1>3, <1>5

Failures(rest, st) == {c \in Matching(rest, st) : StatusOf(rest, c) = "failure"}
Passed(rest, st) == Matching(rest, st) \ Failures(rest, st)
Successes(rest, st, t) ==
    {c \in Matching(rest, st) : StatusOf(rest, c) = "success" /\ RepairedEntry(rest, c, t).recoverable = "yes"}
Outputs(rest, st) == {a \in DOMAIN rest.artifacts : rest.artifacts[a].stage = st}

StageWith(s, o, k, f, l) == [s EXCEPT !.outputs = o, !.checkpoint = k, !.failure = f, !.lastSuccess = l]
NewOutputs(rest, st, s, t) == IF Applies(98, t) THEN s.outputs \cup Outputs(rest, st) ELSE s.outputs
NewCheckpoint(rest, st, s, t) == IF Applies(92, t) THEN LatestOf(rest, Passed(rest, st), s.checkpoint) ELSE s.checkpoint
NewFailure(rest, st, s, t) == IF Applies(98, t) THEN LatestOf(rest, Failures(rest, st), s.failure) ELSE s.failure
NewSuccess(rest, st, s, t) ==
    IF Applies(98, t) THEN LatestOf(rest, Successes(rest, st, t), s.lastSuccess) ELSE s.lastSuccess

LEMMA StageIs ==
    ASSUME NEW rest, NEW t, NEW st, NEW s
    PROVE  RepairedStage(rest, st, s, t) =
               StageWith(s, NewOutputs(rest, st, s, t), NewCheckpoint(rest, st, s, t), NewFailure(rest, st, s, t),
                         NewSuccess(rest, st, s, t))
  BY Zenon DEF RepairedStage, LastSuccess, Successes, Passed, Failures, Outputs, StageWith, NewOutputs,
               NewCheckpoint, NewFailure, NewSuccess

LEMMA StageWithIs ==
    ASSUME NEW s \in StageRecord, NEW o \in SUBSET Artifacts, NEW k \in Checkpoints \cup {NoId},
           NEW f \in Checkpoints \cup {NoId}, NEW l \in Checkpoints \cup {NoId}
    PROVE  LET a == StageWith(s, o, k, f, l)
           IN  /\ a \in StageRecord /\ a.status = s.status
               /\ a.outputs = o /\ a.checkpoint = k /\ a.failure = f /\ a.lastSuccess = l
               /\ StageWith(a, o, k, f, l) = a
  BY DEF StageWith, StageRecord

LEMMA StageType ==
    ASSUME NEW rest, IsRest(rest), NEW t \in Nat, NEW st, NEW s \in StageRecord
    PROVE  /\ NewOutputs(rest, st, s, t) \in SUBSET Artifacts
           /\ NewCheckpoint(rest, st, s, t) \in Checkpoints \cup {NoId}
           /\ NewFailure(rest, st, s, t) \in Checkpoints \cup {NoId}
           /\ NewSuccess(rest, st, s, t) \in Checkpoints \cup {NoId}
           /\ RepairedStage(rest, st, s, t) \in StageRecord
  <1>1. /\ Passed(rest, st) \subseteq DOMAIN rest.registry /\ Failures(rest, st) \subseteq DOMAIN rest.registry
        /\ Successes(rest, st, t) \subseteq DOMAIN rest.registry
        /\ DOMAIN rest.registry \subseteq Checkpoints /\ DOMAIN rest.artifacts \subseteq Artifacts
    BY MapOf DEF Passed, Failures, Successes, Matching, IsRest
  <1>2. \A cs \in SUBSET DOMAIN rest.registry : \A default \in Checkpoints \cup {NoId} :
            LatestOf(rest, cs, default) \in Checkpoints \cup {NoId}
    <2> SUFFICES ASSUME NEW cs \in SUBSET DOMAIN rest.registry, NEW default \in Checkpoints \cup {NoId}
                 PROVE  LatestOf(rest, cs, default) \in Checkpoints \cup {NoId}
      OBVIOUS
    <2>1. CASE cs = {}
      BY <2>1 DEF LatestOf
    <2>2. CASE cs # {}
      BY <1>1, <2>2, LatestIn
    <2> QED BY <2>1, <2>2
  <1>3. /\ s.outputs \in SUBSET Artifacts /\ s.checkpoint \in Checkpoints \cup {NoId}
        /\ s.failure \in Checkpoints \cup {NoId} /\ s.lastSuccess \in Checkpoints \cup {NoId}
    BY DEF StageRecord
  <1>4. NewOutputs(rest, st, s, t) \in SUBSET Artifacts
    BY <1>1, <1>3 DEF Outputs, NewOutputs
  <1>5. /\ NewCheckpoint(rest, st, s, t) \in Checkpoints \cup {NoId}
        /\ NewFailure(rest, st, s, t) \in Checkpoints \cup {NoId}
        /\ NewSuccess(rest, st, s, t) \in Checkpoints \cup {NoId}
    BY <1>1, <1>2, <1>3 DEF NewCheckpoint, NewFailure, NewSuccess
  <1>6. RepairedStage(rest, st, s, t) \in StageRecord
    BY <1>4, <1>5, StageIs, StageWithIs
  <1> QED BY <1>4, <1>5, <1>6

LEMMA StageAgain ==
    ASSUME NEW old, IsRest(old), NEW t \in Nat, NEW later \in Nat, later >= t, NEW new, IsRepair(new, old, t),
           NEW st, NEW s \in StageRecord
    PROVE  RepairedStage(new, st, RepairedStage(old, st, s, t), later) = RepairedStage(old, st, s, t)
  <1> DEFINE a == RepairedStage(old, st, s, t)
             o == NewOutputs(old, st, s, t)
             k == NewCheckpoint(old, st, s, t)
             f == NewFailure(old, st, s, t)
             l == NewSuccess(old, st, s, t)
  <1>1. /\ Outputs(new, st) = Outputs(old, st)
        /\ Failures(new, st) = Failures(old, st) /\ Passed(new, st) = Passed(old, st)
        /\ Failures(old, st) \subseteq Matching(old, st) /\ Passed(old, st) \subseteq Matching(old, st)
    BY ArtifactsAgain, MatchingSame DEF Outputs, Failures, Passed
  <1>2. Applies(98, later) => Successes(new, st, later) = Successes(old, st, t)
    <2>1. \A c \in DOMAIN old.registry : RepairedEntry(new, c, later) = RepairedEntry(old, c, t)
      BY EntryIs, EntryAgain
    <2> QED BY <2>1, MatchingSame DEF Successes
  <1>3. Successes(old, st, t) \subseteq Matching(old, st)
    BY DEF Successes
  <1>4. \A cs \in SUBSET Matching(old, st) : \A default : LatestOf(new, cs, default) = LatestOf(old, cs, default)
    BY MatchingSame
  <1>5. \A cs, default : LatestOf(old, cs, LatestOf(old, cs, default)) = LatestOf(old, cs, default)
    BY DEF LatestOf
  <1>6. (Applies(98, later) => Applies(98, t)) /\ (Applies(92, later) => Applies(92, t))
    BY DEF Applies
  <1>7. a = StageWith(s, o, k, f, l)
    BY StageIs
  <1>8. /\ o \in SUBSET Artifacts /\ k \in Checkpoints \cup {NoId}
        /\ f \in Checkpoints \cup {NoId} /\ l \in Checkpoints \cup {NoId}
    BY StageType
  <1> HIDE DEF a, o, k, f, l
  <1>9. a.outputs = o /\ a.checkpoint = k /\ a.failure = f /\ a.lastSuccess = l /\ StageWith(a, o, k, f, l) = a
    BY <1>7, <1>8, StageWithIs
  <1>10. NewOutputs(new, st, a, later) = o
    BY <1>1, <1>6, <1>9 DEF NewOutputs, o
  <1>11. NewCheckpoint(new, st, a, later) = k
    BY <1>1, <1>4, <1>5, <1>6, <1>9 DEF NewCheckpoint, k
  <1>12. NewFailure(new, st, a, later) = f
    BY <1>1, <1>4, <1>5, <1>6, <1>9 DEF NewFailure, f
  <1>13. NewSuccess(new, st, a, later) = l
    BY <1>2, <1>3, <1>4, <1>5, <1>6, <1>9 DEF NewSuccess, l
  <1>14. RepairedStage(new, st, a, later) = StageWith(a, o, k, f, l)
    BY <1>10, <1>11, <1>12, <1>13, StageIs
  <1> QED BY <1>9, <1>14 DEF a

LEMMA StagesAgain ==
    ASSUME NEW old, IsRest(old), NEW t \in Nat, NEW later \in Nat, later >= t, NEW new, IsRepair(new, old, t),
           NEW stages, IsMap(stages, Stages, StageRecord)
    PROVE  LET after == RepairedStages(old, stages, t)
           IN  IsMap(after, Stages, StageRecord) /\ RepairedStages(new, after, later) = after
  <1> DEFINE after == RepairedStages(old, stages, t)
             declared == IF Applies(96, t) THEN ObservedStages(old) ELSE {}
             again == IF Applies(96, later) THEN ObservedStages(new) ELSE {}
             s(st) == IF st \in DOMAIN stages THEN stages[st] ELSE NewStage
  <1>1. ObservedStages(new) = ObservedStages(old)
    <2>1. /\ DOMAIN new.artifacts = DOMAIN old.artifacts
          /\ \A a \in DOMAIN old.artifacts : new.artifacts[a].stage = old.artifacts[a].stage
      BY ArtifactsAgain
    <2>2. /\ DOMAIN new.registry = DOMAIN old.registry
          /\ \A c \in DOMAIN old.registry : new.registry[c].stage = old.registry[c].stage
      BY FileIs, EntryIs
    <2>3. /\ {new.artifacts[a].stage : a \in DOMAIN new.artifacts} = {old.artifacts[a].stage : a \in DOMAIN old.artifacts}
          /\ {new.registry[c].stage : c \in DOMAIN new.registry} = {old.registry[c].stage : c \in DOMAIN old.registry}
      BY <2>1, <2>2
    <2> QED BY <2>3, Zenon DEF ObservedStages
  <1>2. DOMAIN stages \subseteq Stages /\ \A st \in DOMAIN stages : stages[st] \in StageRecord
    BY MapOf
  <1>3. NewStage \in StageRecord
    BY DEF NewStage, StageRecord, StageStatuses
  <1>4. \A st : s(st) \in StageRecord
    BY <1>2, <1>3
  <1>5. after = [st \in DOMAIN stages \cup declared |-> RepairedStage(old, st, s(st), t)]
    BY DEF RepairedStages
  <1>6. declared \subseteq Stages /\ again \subseteq declared
    BY <1>1 DEF ObservedStages, Applies
  <1>7. RepairedStages(new, after, later) =
            [st \in DOMAIN after \cup again |->
                RepairedStage(new, st, IF st \in DOMAIN after THEN after[st] ELSE NewStage, later)]
    BY DEF RepairedStages
  <1> HIDE DEF after, declared, again, s
  <1>8. DOMAIN after = DOMAIN stages \cup declared /\ after = [st \in DOMAIN after |-> after[st]]
        /\ DOMAIN after \cup again = DOMAIN after /\ DOMAIN after \subseteq Stages
    BY <1>2, <1>5, <1>6
  <1>9. \A st \in DOMAIN after : after[st] \in StageRecord
    BY <1>4, <1>5, <1>8, StageType
  <1>10. \A st \in DOMAIN after : RepairedStage(new, st, after[st], later) = after[st]
    BY <1>4, <1>5, <1>8, StageAgain
  <1>11. RepairedStages(new, after, later) = after
    BY <1>7, <1>8, <1>10
  <1>12. IsMap(after, Stages, StageRecord)
    BY <1>8, <1>9 DEF IsMap
  <1> QED BY <1>11, <1>12 DEF after

-----------------------------------------------------------------------------
LEMMA EventsSame ==
    ASSUME NEW old, IsRest(old), NEW t \in Nat, NEW later \in Nat, later >= t, NEW new, IsRepair(new, old, t)
    PROVE  Events(new) = Events(old) /\ Active(new) = Active(old)
  <1>1. DOMAIN new.artifacts = DOMAIN old.artifacts /\ DOMAIN new.registry = DOMAIN old.registry
    BY ArtifactsAgain, FileIs
  <1>2. \A a \in DOMAIN old.artifacts :
            [stage |-> new.artifacts[a].stage, time |-> new.artifacts[a].time]
            = [stage |-> old.artifacts[a].stage, time |-> old.artifacts[a].time]
    <2>1. \A a \in DOMAIN old.artifacts : new.artifacts[a].stage = old.artifacts[a].stage
      BY ArtifactsAgain
    <2>2. \A a \in DOMAIN old.artifacts : new.artifacts[a].time = old.artifacts[a].time
      BY ArtifactsAgain
    <2> QED BY <2>1, <2>2, Zenon
  <1>3. \A c \in DOMAIN old.registry :
            [stage |-> new.registry[c].stage, time |-> new.registry[c].time]
            = [stage |-> old.registry[c].stage, time |-> old.registry[c].time]
    <2>1. \A c \in DOMAIN old.registry : new.registry[c].stage = old.registry[c].stage
      BY EntryIs
    <2>2. \A c \in DOMAIN old.registry : new.registry[c].time = old.registry[c].time
      BY EntryTime
    <2> QED BY <2>1, <2>2
  <1>4. {[stage |-> new.artifacts[a].stage, time |-> new.artifacts[a].time] : a \in DOMAIN new.artifacts}
           = {[stage |-> old.artifacts[a].stage, time |-> old.artifacts[a].time] : a \in DOMAIN old.artifacts}
    BY <1>1, <1>2, Zenon
  <1>5. {[stage |-> new.registry[c].stage, time |-> new.registry[c].time] : c \in DOMAIN new.registry}
           = {[stage |-> old.registry[c].stage, time |-> old.registry[c].time] : c \in DOMAIN old.registry}
    BY <1>1, <1>3, Zenon
  <1> QED BY <1>1, <1>4, <1>5, Zenon DEF Events, Active

LEMMA CurrentIn ==
    ASSUME NEW rest, IsRest(rest), NEW old \in Labels
    PROVE  CurrentStage(rest, old) \in Labels
  <1> DEFINE A == {[stage |-> rest.artifacts[a].stage, time |-> rest.artifacts[a].time] : a \in DOMAIN rest.artifacts}
             C == {[stage |-> rest.registry[c].stage, time |-> rest.registry[c].time] : c \in DOMAIN rest.registry}
             events == {e \in Events(rest) : e.stage \in Stages /\ e.time > 0}
             time == [e \in events |-> e.time]
  <1>1. IsFiniteSet(DOMAIN rest.artifacts) /\ IsFiniteSet(DOMAIN rest.registry)
    BY FiniteAssumption, FS_Subset, MapOf DEF IsRest
  <1>2. IsFiniteSet(A) /\ IsFiniteSet(C)
    <2> DEFINE f == [a \in DOMAIN rest.artifacts |-> [stage |-> rest.artifacts[a].stage, time |-> rest.artifacts[a].time]]
               g == [c \in DOMAIN rest.registry |-> [stage |-> rest.registry[c].stage, time |-> rest.registry[c].time]]
    <2>1. f \in Surjection(DOMAIN rest.artifacts, A) /\ g \in Surjection(DOMAIN rest.registry, C)
      BY DEF Surjection
    <2> HIDE DEF f, g, A, C
    <2> QED BY <1>1, <2>1, FS_Surjection
  <1>3. Events(rest) = A \cup C
    BY DEF Events
  <1>4. IsFiniteSet(events) /\ events \subseteq A \cup C
    <2> HIDE DEF A, C
    <2>1. IsFiniteSet(A \cup C)
      BY <1>2, FS_Union
    <2> QED BY <1>3, <2>1, FS_Subset
  <1>5. \A e \in A \cup C : e.time \in Nat
    <2>1. /\ \A a \in DOMAIN rest.artifacts : rest.artifacts[a] \in Artifact
          /\ \A c \in DOMAIN rest.registry : rest.registry[c] \in Entry
      BY MapOf DEF IsRest
    <2>2. (\A a \in Artifact : a.time \in Nat) /\ (\A c \in Entry : c.time \in Nat)
      BY DEF Artifact, Entry
    <2> QED BY <2>1, <2>2
  <1> HIDE DEF A, C
  <1>6. \A e \in events : e.time \in Nat /\ e.stage \in Stages
    BY <1>4, <1>5
  <1> HIDE DEF events
  <1>7. CASE events = {}
    BY <1>7 DEF CurrentStage, events
  <1>8. CASE events # {}
    <2>1. \A e \in events : time[e] \in Nat /\ time[e] = e.time
      BY <1>6
    <2>2. \E e \in events : \A d \in events : time[d] <= time[e]
      <3> HIDE DEF time
      <3> QED BY <1>4, <1>8, <2>1, Maximum
    <2>3. \E e \in events : \A d \in events : d.time <= e.time
      BY <2>1, <2>2
    <2> DEFINE last == CHOOSE e \in events : \A d \in events : d.time <= e.time
    <2>4. last \in events
      BY <2>3
    <2>5. CurrentStage(rest, old) = last.stage
      BY <1>8, Zenon DEF CurrentStage, events
    <2> HIDE DEF last
    <2> QED BY <1>6, <2>4, <2>5 DEF Labels
  <1> QED BY <1>7, <1>8

TopWith(w, status, stage) == [w EXCEPT !.status = status, !.stage = stage]
NewStatus(rest, w, t) ==
    IF w.status = "initialized" /\ Active(rest) /\ Applies(98, t) THEN "in_progress" ELSE w.status
NewCurrent(rest, w, t) == IF Applies(92, t) THEN CurrentStage(rest, w.stage) ELSE w.stage

LEMMA WorkflowAgain ==
    ASSUME NEW old, IsRest(old), NEW t \in Nat, NEW later \in Nat, later >= t, NEW new, IsRepair(new, old, t),
           NEW w \in Top, NEW now \in Nat, NEW stamped, stamped = [RepairedWorkflow(old, w, t) EXCEPT !.updated = now]
    PROVE  /\ RepairedWorkflow(old, w, t) \in Top /\ stamped \in Top
           /\ RepairedWorkflow(new, RepairedWorkflow(old, w, t), later) = RepairedWorkflow(old, w, t)
           /\ RepairedWorkflow(new, stamped, later) = stamped
  <1> DEFINE s == NewStatus(old, w, t)
             g == NewCurrent(old, w, t)
             v == RepairedWorkflow(old, w, t)
  <1>1. \A r, u, x : RepairedWorkflow(r, u, x) = TopWith(u, NewStatus(r, u, x), NewCurrent(r, u, x))
    BY Zenon DEF RepairedWorkflow, TopWith, NewStatus, NewCurrent
  <1>2. v = TopWith(w, s, g)
    BY <1>1
  <1>3. s \in {"initialized", "in_progress"} /\ g \in Labels
    <2>1. w.status \in {"initialized", "in_progress"} /\ w.stage \in Labels
      BY DEF Top
    <2> QED BY <2>1, CurrentIn DEF NewStatus, NewCurrent
  <1>4. Events(new) = Events(old) /\ Active(new) = Active(old)
    BY EventsSame
  <1>5. \A x : CurrentStage(new, x) = CurrentStage(old, x)
    <2> DEFINE Of(events, x) == IF events = {} THEN x ELSE (CHOOSE e \in events : \A d \in events : d.time <= e.time).stage
               In(events) == {e \in events : e.stage \in Stages /\ e.time > 0}
    <2>1. \A r, x : CurrentStage(r, x) = Of(In(Events(r)), x)
      BY Zenon DEF CurrentStage
    <2> HIDE DEF Of, In
    <2> QED BY <1>4, <2>1
  <1>6. \A r, x : CurrentStage(r, CurrentStage(r, x)) = CurrentStage(r, x)
    BY DEF CurrentStage
  <1>7. (Applies(98, later) => Applies(98, t)) /\ (Applies(92, later) => Applies(92, t))
    BY DEF Applies
  <1>8. \A u : u.status = s /\ u.stage = g => NewStatus(new, u, later) = s /\ NewCurrent(new, u, later) = g
    BY <1>4, <1>5, <1>6, <1>7 DEF NewStatus, NewCurrent
  <1> HIDE DEF s, g, v
  <1>9. v \in Top /\ v.status = s /\ v.stage = g /\ TopWith(v, s, g) = v
    BY <1>2, <1>3 DEF TopWith, Top
  <1>10. stamped \in Top /\ stamped.status = s /\ stamped.stage = g /\ TopWith(stamped, s, g) = stamped
    BY <1>9 DEF TopWith, Top, v
  <1>11. RepairedWorkflow(new, v, later) = v /\ RepairedWorkflow(new, stamped, later) = stamped
    BY <1>1, <1>8, <1>9, <1>10
  <1> QED BY <1>9, <1>10, <1>11 DEF v

-----------------------------------------------------------------------------
IsProject(content) ==
    /\ IsRest(content.rest) /\ IsMap(content.stages, Stages, StageRecord)
    /\ content.workflow \in Top /\ content.summary \in Top

\* A repair keeps the shape of the files, and finds nothing to do after itself.
LEMMA PlanAgain ==
    ASSUME NEW before, IsProject(before), NEW t \in Nat, NEW now \in Nat
    PROVE  LET after == Repaired(before, t, now)
           IN  /\ after = [rest |-> after.rest, stages |-> after.stages, workflow |-> after.workflow,
                           summary |-> after.summary]
               /\ IsProject(after)
               /\ \A later \in Nat : \A then : later >= t => Repaired(after, later, then) = after
  <1> DEFINE after == Repaired(before, t, now)
             old == before.rest
             new == after.rest
             touched == RepairedWorkflow(old, before.workflow, t)
             stamped == [touched EXCEPT !.updated = now]
  <1>1. IsRepair(new, old, t) /\ new.updated \in Nat
    BY RepairIs DEF IsProject
  <1>2. IsRest(old) /\ IsMap(before.stages, Stages, StageRecord) /\ before.workflow \in Top /\ before.summary \in Top
    BY DEF IsProject
  <1>3. /\ after = [rest |-> after.rest, stages |-> after.stages, workflow |-> after.workflow, summary |-> after.summary]
        /\ after.stages = RepairedStages(old, before.stages, t)
        /\ after.workflow \in {touched, stamped}
        /\ after.summary = RepairedSummary(before, after.workflow, t)
    BY DEF Repaired
  <1>stamped. stamped = [RepairedWorkflow(old, before.workflow, t) EXCEPT !.updated = now]
    OBVIOUS
  <1> HIDE DEF after, stamped
  <1>4. t >= t
    OBVIOUS
  <1>top. ASSUME NEW later \in Nat, later >= t
          PROVE  /\ touched \in Top /\ stamped \in Top
                 /\ RepairedWorkflow(new, touched, later) = touched
                 /\ RepairedWorkflow(new, stamped, later) = stamped
    BY <1>1, <1>2, <1>stamped, <1>top, WorkflowAgain
  <1>5. IsRest(new)
    <2>1. /\ IsMap(new.artifacts, Artifacts, Artifact) /\ IsMap(new.nodes, Artifacts, LineageNode)
          /\ IsMap(new.registry, Checkpoints, Entry) /\ IsMap(new.snapshots, Checkpoints, Snapshot)
      BY <1>1, <1>2, <1>4, ArtifactsAgain, NodesAgain, CheckpointsAgain
    <2>2. /\ new.root \in {"live", "case"} /\ new.project \in Workflows
          /\ DOMAIN new = {"root", "project", "updated", "artifacts", "nodes", "registry", "snapshots"}
      BY <1>1, <1>2 DEF IsRepair, IsRest, RepairedRoot
    <2> QED BY <1>1, <2>1, <2>2 DEF IsRest
  <1>6. IsMap(after.stages, Stages, StageRecord)
    BY <1>1, <1>2, <1>3, <1>4, StagesAgain
  <1>7. after.workflow \in Top
    BY <1>3, <1>4, <1>top
  <1>8. after.summary \in Top
    BY <1>2, <1>3, <1>7 DEF RepairedSummary
  <1>9. ASSUME NEW later \in Nat, NEW then, later >= t
        PROVE  Repaired(after, later, then) = after
    <2> DEFINE rest == [new EXCEPT !.root = RepairedRoot(@, later),
                                   !.artifacts = RepairedArtifacts(new, later),
                                   !.nodes = RepairedNodes(new, later),
                                   !.registry = RepairedRegistry(new, later),
                                   !.snapshots = RepairedSnapshots(new, later)]
    <2>1. /\ RepairedArtifacts(new, later) = new.artifacts /\ RepairedNodes(new, later) = new.nodes
          /\ RepairedRegistry(new, later) = new.registry /\ RepairedSnapshots(new, later) = new.snapshots
      BY <1>1, <1>2, <1>9, ArtifactsAgain, NodesAgain, CheckpointsAgain
    <2>2. RepairedRoot(new.root, later) = new.root
      BY <1>1, <1>2, <1>9 DEF IsRepair, RepairedRoot, Applies
    <2>3. rest = new
      <3>1. rest = [new EXCEPT !.root = new.root, !.artifacts = new.artifacts, !.nodes = new.nodes,
                               !.registry = new.registry, !.snapshots = new.snapshots]
        BY <2>1, <2>2, Zenon
      <3>2. new = [x \in DOMAIN new |-> new[x]]
        BY <1>1 DEF IsRepair
      <3> HIDE DEF rest, new
      <3> QED BY <3>1, <3>2
    <2>4. RepairedStages(new, after.stages, later) = after.stages
      BY <1>1, <1>2, <1>3, <1>9, StagesAgain
    <2>5. RepairedWorkflow(new, after.workflow, later) = after.workflow
      BY <1>3, <1>9, <1>top
    <2>6. RepairedSummary(after, after.workflow, later) = after.summary
      BY <1>3, <1>9 DEF RepairedSummary, Applies
    <2>7. Repaired(after, later, then) =
              LET again == RepairedStages(new, after.stages, later)
                  top == RepairedWorkflow(new, after.workflow, later)
                  changed == <<rest, again, top>> # <<new, after.stages, after.workflow>>
                  workflow == IF changed THEN [top EXCEPT !.updated = then] ELSE top
              IN  [rest |-> IF changed THEN [rest EXCEPT !.updated = then] ELSE rest,
                   stages |-> again, workflow |-> workflow, summary |-> RepairedSummary(after, workflow, later)]
      BY Zenon DEF Repaired
    <2> HIDE DEF rest, new
    <2>8. Repaired(after, later, then) =
              [rest |-> new, stages |-> after.stages, workflow |-> after.workflow, summary |-> after.summary]
      BY <2>3, <2>4, <2>5, <2>6, <2>7
    <2> QED BY <1>3, <2>8 DEF new
  <1> QED BY <1>3, <1>5, <1>6, <1>7, <1>8, <1>9 DEF IsProject, after

\* What a repair makes the last success of a stage is one of its checkpoints.
LEMMA PlanRecovers ==
    ASSUME NEW before, IsProject(before), NEW t \in Nat, NEW now \in Nat,
           NEW after, after = Repaired(before, t, now), NEW st \in DOMAIN after.stages
    PROVE  LET c == after.stages[st].lastSuccess
           IN  \/ st \in DOMAIN before.stages /\ c = before.stages[st].lastSuccess
               \/ c = NoId
               \/ /\ after.rest.registry[c].stage = st
                  /\ after.rest.registry[c].status = "success"
                  /\ after.rest.registry[c].recoverable = "yes"
                  /\ Whole(after.rest, c)
  <1> DEFINE old == before.rest
             new == after.rest
             s == IF st \in DOMAIN before.stages THEN before.stages[st] ELSE NewStage
             c == after.stages[st].lastSuccess
  <1>1. IsRepair(new, old, t)
    BY RepairIs DEF IsProject
  <1>2. IsRest(old) /\ \A x \in DOMAIN before.stages : before.stages[x] \in StageRecord
    BY MapOf DEF IsProject
  <1>3. s \in StageRecord
    BY <1>2 DEF NewStage, StageRecord, StageStatuses
  <1>4. after.stages[st] = RepairedStage(old, st, s, t)
    <2>1. after.stages = RepairedStages(old, before.stages, t)
      BY DEF Repaired
    <2> QED BY <2>1 DEF RepairedStages
  <1>5. c = NewSuccess(old, st, s, t)
    BY <1>2, <1>3, <1>4, StageIs, StageType, StageWithIs
  <1> HIDE DEF c
  <1>6. CASE ~Applies(98, t) \/ Successes(old, st, t) = {}
    <2>1. c = s.lastSuccess
      BY <1>5, <1>6 DEF NewSuccess, LatestOf
    <2> QED BY <2>1 DEF NewStage, c
  <1>7. CASE Applies(98, t) /\ Successes(old, st, t) # {}
    <2>1. Successes(old, st, t) \in SUBSET DOMAIN old.registry
      BY DEF Successes, Matching
    <2>2. c \in Successes(old, st, t)
      BY <1>2, <1>5, <1>7, <2>1, LatestIn DEF NewSuccess
    <2>3. /\ c \in DOMAIN old.registry /\ old.registry[c].stage = st /\ ~Conflicting(old, c)
          /\ StatusOf(old, c) = "success" /\ RepairedEntry(old, c, t).recoverable = "yes"
      BY <2>2 DEF Successes, Matching
    <2>4. ~Settled(old, c)
      BY <2>3 DEF Settled, StatusOf
    <2>5. /\ new.registry[c] = RepairedEntry(old, c, t) /\ new.registry[c].stage = st
          /\ new.registry[c].status = NormalStatus(old.registry[c].status, Whole(old, c))
          /\ new.registry[c].recoverable = IF Whole(old, c) THEN "yes" ELSE "no"
      BY <1>1, <1>2, <1>7, <2>3, <2>4, EntryIs
    <2>6. new.registry[c].status = "success"
      BY <2>3, <2>4, <2>5 DEF StatusOf
    <2>7. Whole(old, c)
      BY <2>3, <2>5
    <2>8. Whole(new, c)
      <3>1. t >= t
        OBVIOUS
      <3> QED BY <1>1, <1>2, <2>3, <2>7, <3>1, EntryAgain
    <2> QED BY <2>3, <2>5, <2>6, <2>8 DEF c
  <1> QED BY <1>6, <1>7

-----------------------------------------------------------------------------
(* The steps.                                                              *)

\* What every step keeps of the shape of the variables.
Shape ==
    /\ DOMAIN disk = Files
    /\ DOMAIN pc = Procs /\ DOMAIN call = Procs /\ DOMAIN todo = Procs /\ DOMAIN mem = Procs /\ DOMAIN others = Procs
    /\ \A p \in Procs : DOMAIN mem[p] = DOMAIN NoMem

\* The records are a sequence.
IsSequence(s) == Len(s) \in Nat /\ s = [i \in 1..Len(s) |-> s[i]]

\* A migration past its lookup has read that many of the records, none of which
\* has the hash of its own report; before it records, the report is written.
Migrating == {"open", "fill", "record"}
LookedInv ==
    \A p \in Procs :
        /\ pc[p] \in Migrating =>
            /\ mem[p].found \in 0..Len(records)
            /\ \A i \in 1..mem[p].found : records[i].hash # mem[p].hashes
        /\ pc[p] \in {"fill", "record"} => mem[p].hashes \in reports.whole \cup reports.part

RecordsInv ==
    /\ IsSequence(records)
    /\ DOMAIN reports = {"whole", "part"}
    /\ \A j \in 1..Len(records) : records[j].found \in 0..(j - 1)

MigrationInv == Shape /\ LookedInv /\ RecordsInv /\ RecordedOnceOrOverlap

-----------------------------------------------------------------------------
(* The steps, by what they touch.                                          *)

\* The steps outside of a migration, and those of a migration that only look.
PlainStep(p) ==
    \/ Update(p) \/ Repair(p) \/ Crash(p)
    \/ BeginMigration(p) \/ Inspect(p) \/ Confirm(p)

\* No other process is touched in what it knows and where it is.
LEMMA Alone ==
    ASSUME Shape, NEW p \in Procs, NEW q \in Procs, q # p,
           Update(p) \/ Repair(p) \/ Migrate(p) \/ Crash(p)
    PROVE  pc'[q] = pc[q] /\ mem'[q] = mem[q] /\ todo'[q] = todo[q] /\ call'[q] = call[q]
  <1>1. CASE BeginUpdate(p)
    BY <1>1 DEF BeginUpdate, Begin, Go, Shape
  <1>2. CASE Read(p)
    BY <1>2 DEF Read, End, Go, Knows, Shape
  <1>3. CASE Truncate(p)
    BY <1>3 DEF Truncate, Put, Go, Shape
  <1>4. CASE Write(p)
    BY <1>4 DEF Write, Put, Go, End, Shape
  <1>5. CASE BeginRepair(p)
    BY <1>5 DEF BeginRepair, Begin, Go, Shape
  <1>6. CASE Hash(p)
    BY <1>6 DEF Hash, Knows, Visited, Go, Shape
  <1>7. CASE Load(p)
    BY <1>7 DEF Load, End, Knows, Go, Shape
  <1>8. CASE Check(p)
    BY <1>8 DEF Check, Compare, End, Visited, Go, Shape
  <1>9. CASE Backup(p)
    BY <1>9 DEF Backup, Knows, Visited, Go, Shape
  <1>10. CASE Recheck(p)
    BY <1>10 DEF Recheck, Compare, End, Visited, Go, Shape
  <1>11. CASE ReadPrevious(p)
    BY <1>11 DEF ReadPrevious, Knows, Visited, Go, Shape
  <1>12. CASE CompareOne(p)
    BY <1>12 DEF CompareOne, Rollback, Go, Shape
  <1>13. CASE Replace(p)
    BY <1>13 DEF Replace, Put, Go, Shape
  <1>14. CASE Fail(p)
    BY <1>14 DEF Fail, Rollback, Go, Shape
  <1>15. CASE Report(p)
    BY <1>15 DEF Report, Rollback, Go, Shape
  <1>16. CASE Undo(p)
    BY <1>16 DEF Undo, UndoLast, Put, Go, Shape
  <1>17. CASE BeginMigration(p)
    BY <1>17 DEF BeginMigration, Begin, Go, Shape
  <1>18. CASE Inspect(p)
    BY <1>18 DEF Inspect, Knows, Visited, Go, Shape
  <1>19. CASE Confirm(p)
    BY <1>19 DEF Confirm, Compare, End, Visited, Go, Shape
  <1>20. CASE Lookup(p)
    BY <1>20 DEF Lookup, End, Go, Shape
  <1>21. CASE OpenReport(p)
    BY <1>21 DEF OpenReport, Go, Shape
  <1>22. CASE WriteReport(p)
    BY <1>22 DEF WriteReport, Go, Shape
  <1>23. CASE Record(p)
    BY <1>23 DEF Record, End, Go, Shape
  <1>24. CASE Crash(p)
    BY <1>24 DEF Crash, End, Go, Shape
  <1>25. CASE UndoFails(p)
    BY <1>25 DEF UndoFails, Go, Shape
  <1> QED BY <1>1, <1>2, <1>3, <1>4, <1>5, <1>6, <1>7, <1>8, <1>9, <1>10, <1>11, <1>12, <1>13, <1>14, <1>15, <1>16, <1>17, <1>18, <1>19, <1>20, <1>21, <1>22, <1>23, <1>24, <1>25 DEF Update, Repair, Migrate

\* The shape is kept.
LEMMA ShapeStep ==
    ASSUME Shape, NEW p \in Procs,
           Update(p) \/ Repair(p) \/ Migrate(p) \/ Crash(p)
    PROVE  Shape'
  <1>1. CASE BeginUpdate(p)
    BY <1>1 DEF BeginUpdate, Begin, Go, Shape, NoMem, history
  <1>2. CASE Read(p)
    BY <1>2 DEF Read, End, Go, Knows, Shape, NoMem, history
  <1>3. CASE Truncate(p)
    BY <1>3 DEF Truncate, Put, Go, Shape, NoMem, history
  <1>4. CASE Write(p)
    BY <1>4 DEF Write, Put, Go, End, Shape, NoMem, history
  <1>5. CASE BeginRepair(p)
    BY <1>5 DEF BeginRepair, Begin, Go, Shape, NoMem, history
  <1>6. CASE Hash(p)
    BY <1>6 DEF Hash, Knows, Visited, Go, Shape, NoMem, history
  <1>7. CASE Load(p)
    BY <1>7 DEF Load, End, Knows, Go, Shape, NoMem, history
  <1>8. CASE Check(p)
    BY <1>8 DEF Check, Compare, End, Visited, Go, Shape, NoMem, history
  <1>9. CASE Backup(p)
    BY <1>9 DEF Backup, Knows, Visited, Go, Shape, NoMem, history
  <1>10. CASE Recheck(p)
    BY <1>10 DEF Recheck, Compare, End, Visited, Go, Shape, NoMem, history
  <1>11. CASE ReadPrevious(p)
    BY <1>11 DEF ReadPrevious, Knows, Visited, Go, Shape, NoMem, history
  <1>12. CASE CompareOne(p)
    BY <1>12 DEF CompareOne, Rollback, Go, Shape, NoMem, history
  <1>13. CASE Replace(p)
    BY <1>13 DEF Replace, Put, Go, Shape, NoMem, history
  <1>14. CASE Fail(p)
    BY <1>14 DEF Fail, Rollback, Go, Shape, NoMem, history
  <1>15. CASE Report(p)
    BY <1>15 DEF Report, Rollback, Go, Shape, NoMem, history
  <1>16. CASE Undo(p)
    BY <1>16 DEF Undo, UndoLast, Put, Go, Shape, NoMem, history
  <1>17. CASE BeginMigration(p)
    BY <1>17 DEF BeginMigration, Begin, Go, Shape, NoMem, history
  <1>18. CASE Inspect(p)
    BY <1>18 DEF Inspect, Knows, Visited, Go, Shape, NoMem, history
  <1>19. CASE Confirm(p)
    BY <1>19 DEF Confirm, Compare, End, Visited, Go, Shape, NoMem, history
  <1>20. CASE Lookup(p)
    BY <1>20 DEF Lookup, End, Go, Shape, NoMem, history
  <1>21. CASE OpenReport(p)
    BY <1>21 DEF OpenReport, Go, Shape, NoMem, history
  <1>22. CASE WriteReport(p)
    BY <1>22 DEF WriteReport, Go, Shape, NoMem, history
  <1>23. CASE Record(p)
    BY <1>23 DEF Record, End, Go, Shape, NoMem, history
  <1>24. CASE Crash(p)
    BY <1>24 DEF Crash, End, Go, Shape, NoMem, history
  <1>25. CASE UndoFails(p)
    BY <1>25 DEF UndoFails, Go, Shape, NoMem, history
  <1> QED BY <1>1, <1>2, <1>3, <1>4, <1>5, <1>6, <1>7, <1>8, <1>9, <1>10, <1>11, <1>12, <1>13, <1>14, <1>15, <1>16, <1>17, <1>18, <1>19, <1>20, <1>21, <1>22, <1>23, <1>24, <1>25 DEF Update, Repair, Migrate

\* A plain step leaves records and reports alone, and starts no lookup.
LEMMA PlainStepOnly ==
    ASSUME Shape, NEW p \in Procs, PlainStep(p)
    PROVE  records' = records /\ reports' = reports /\ pc'[p] \notin Migrating
  <1>1. CASE BeginUpdate(p)
    BY <1>1 DEF BeginUpdate, Begin, Go, Shape, Migrating
  <1>2. CASE Read(p)
    BY <1>2 DEF Read, End, Go, Knows, Shape, Migrating
  <1>3. CASE Truncate(p)
    BY <1>3 DEF Truncate, Put, Go, Shape, Migrating
  <1>4. CASE Write(p)
    BY <1>4 DEF Write, Put, Go, End, Shape, Migrating
  <1>5. CASE BeginRepair(p)
    BY <1>5 DEF BeginRepair, Begin, Go, Shape, Migrating
  <1>6. CASE Hash(p)
    BY <1>6 DEF Hash, Knows, Visited, Go, Shape, Migrating
  <1>7. CASE Load(p)
    BY <1>7 DEF Load, End, Knows, Go, Shape, Migrating
  <1>8. CASE Check(p)
    BY <1>8 DEF Check, Compare, End, Visited, Go, Shape, Migrating
  <1>9. CASE Backup(p)
    BY <1>9 DEF Backup, Knows, Visited, Go, Shape, Migrating
  <1>10. CASE Recheck(p)
    BY <1>10 DEF Recheck, Compare, End, Visited, Go, Shape, Migrating
  <1>11. CASE ReadPrevious(p)
    BY <1>11 DEF ReadPrevious, Knows, Visited, Go, Shape, Migrating
  <1>12. CASE CompareOne(p)
    BY <1>12 DEF CompareOne, Rollback, Go, Shape, Migrating
  <1>13. CASE Replace(p)
    BY <1>13 DEF Replace, Put, Go, Shape, Migrating
  <1>14. CASE Fail(p)
    BY <1>14 DEF Fail, Rollback, Go, Shape, Migrating
  <1>15. CASE Report(p)
    BY <1>15 DEF Report, Rollback, Go, Shape, Migrating
  <1>16. CASE Undo(p)
    BY <1>16 DEF Undo, UndoLast, Put, Go, Shape, Migrating
  <1>17. CASE BeginMigration(p)
    BY <1>17 DEF BeginMigration, Begin, Go, Shape, Migrating
  <1>18. CASE Inspect(p)
    BY <1>18 DEF Inspect, Knows, Visited, Go, Shape, Migrating
  <1>19. CASE Confirm(p)
    BY <1>19 DEF Confirm, Compare, End, Visited, Go, Shape, Migrating
  <1>20. CASE Crash(p)
    BY <1>20 DEF Crash, End, Go, Shape, Migrating
  <1>21. CASE UndoFails(p)
    BY <1>21 DEF UndoFails, Go, Shape, Migrating
  <1> QED BY <1>1, <1>2, <1>3, <1>4, <1>5, <1>6, <1>7, <1>8, <1>9, <1>10, <1>11, <1>12, <1>13, <1>14, <1>15, <1>16, <1>17, <1>18, <1>19, <1>20, <1>21 DEF PlainStep, Update, Repair

LEMMA InitShape == Init => Shape
  BY LegacyAssumption DEF Init, Shape

LEMMA NextShape == Shape /\ [Next]_vars => Shape'
  <1> SUFFICES ASSUME Shape, [Next]_vars PROVE Shape'
    OBVIOUS
  <1>1. CASE UNCHANGED vars
    BY <1>1 DEF vars, history, Shape
  <1>2. CASE Next
    BY <1>2, ShapeStep DEF Next
  <1> QED BY <1>1, <1>2

-----------------------------------------------------------------------------
(* A migration is recorded once, or by calls that overlap.                 *)

LEMMA InitMigration == Init => MigrationInv
  <1> SUFFICES ASSUME Init PROVE MigrationInv
    OBVIOUS
  <1>1. Shape
    BY InitShape
  <1>2. LookedInv
    BY DEF Init, LookedInv, Migrating
  <1>3. RecordsInv /\ RecordedOnceOrOverlap
    BY DEF Init, RecordsInv, IsSequence, RecordedOnceOrOverlap, ToSet
  <1> QED BY <1>1, <1>2, <1>3 DEF MigrationInv

\* What a record is appended to keeps what it had.
LEMMA AppendRecord ==
    ASSUME NEW s, IsSequence(s), NEW e
    PROVE  LET t == Append(s, e)
           IN  /\ IsSequence(t) /\ Len(t) = Len(s) + 1
               /\ t[Len(s) + 1] = e
               /\ \A i \in 1..Len(s) : t[i] = s[i]
  <1> DEFINE S == {s[i] : i \in 1..Len(s)} \cup {e}
  <1>1. s \in Seq(S)
    <2>1. s \in [1..Len(s) -> S]
      BY DEF IsSequence
    <2> QED BY <2>1 DEF IsSequence
  <1>2. e \in S
    OBVIOUS
  <1> HIDE DEF S
  <1>3. Append(s, e) \in Seq(S) /\ Len(Append(s, e)) = Len(s) + 1
    BY <1>1, <1>2
  <1>5. Append(s, e) \in [1..Len(Append(s, e)) -> S]
    BY <1>3, LenProperties
  <1>6. Append(s, e)[Len(s) + 1] = e /\ \A i \in 1..Len(s) : Append(s, e)[i] = s[i]
    BY <1>1, <1>2, AppendProperties
  <1>7. IsSequence(Append(s, e))
    BY <1>3, <1>5, LenProperties DEF IsSequence
  <1> QED BY <1>3, <1>6, <1>7

\* A step of p that is no migration's, or only looks, keeps the invariant.
LEMMA PlainKeeps ==
    ASSUME MigrationInv, NEW p \in Procs, PlainStep(p)
    PROVE  MigrationInv'
  <1>1. Shape'
    BY ShapeStep DEF MigrationInv, PlainStep, Migrate
  <1>2. records' = records /\ reports' = reports /\ pc'[p] \notin Migrating
    BY PlainStepOnly DEF MigrationInv
  <1>3. \A q \in Procs : q # p => pc'[q] = pc[q] /\ mem'[q] = mem[q]
    BY Alone DEF MigrationInv, PlainStep, Migrate
  <1>4. LookedInv'
    BY <1>2, <1>3 DEF MigrationInv, LookedInv, Migrating
  <1>5. RecordsInv' /\ RecordedOnceOrOverlap'
    BY <1>2 DEF MigrationInv, RecordsInv, IsSequence, RecordedOnceOrOverlap
  <1> QED BY <1>1, <1>4, <1>5 DEF MigrationInv

LEMMA LookupKeeps ==
    ASSUME MigrationInv, NEW p \in Procs, Lookup(p)
    PROVE  MigrationInv'
  <1> USE DEF MigrationInv
  <1>1. Shape'
    BY ShapeStep DEF Migrate
  <1>2. \A q \in Procs : q # p => pc'[q] = pc[q] /\ mem'[q] = mem[q]
    BY Alone DEF Migrate
  <1>3. UNCHANGED <<records, reports>>
    BY DEF Lookup
  <1>4. LookedInv'
    <2>1. CASE mem[p].hashes \in {records[i].hash : i \in DOMAIN records}
      <3>1. pc'[p] = "idle"
        BY <2>1 DEF Lookup, End, Go, Shape
      <3> QED BY <1>2, <1>3, <3>1 DEF LookedInv, Migrating
    <2>2. CASE mem[p].hashes \notin {records[i].hash : i \in DOMAIN records}
      <3>1. pc'[p] = "open" /\ mem'[p].found = Len(records) /\ mem'[p].hashes = mem[p].hashes
        BY <2>2 DEF Lookup, Go, Shape, NoMem
      <3>2. DOMAIN records = 1..Len(records) /\ Len(records) \in Nat
        BY DEF RecordsInv, IsSequence
      <3>3. \A i \in 1..Len(records) : records[i].hash # mem[p].hashes
        BY <2>2, <3>2
      <3> QED BY <1>2, <1>3, <3>1, <3>2, <3>3 DEF LookedInv, Migrating
    <2> QED BY <2>1, <2>2
  <1>5. RecordsInv' /\ RecordedOnceOrOverlap'
    BY <1>3 DEF RecordsInv, IsSequence, RecordedOnceOrOverlap
  <1> QED BY <1>1, <1>4, <1>5

\* The report is truncated and written under its hash; the hash is there from
\* the first of the two on.
LEMMA ReportKeeps ==
    ASSUME MigrationInv, NEW p \in Procs, OpenReport(p) \/ WriteReport(p)
    PROVE  MigrationInv'
  <1> USE DEF MigrationInv
  <1>1. Shape'
    BY ShapeStep DEF Migrate
  <1>2. \A q \in Procs : q # p => pc'[q] = pc[q]
    BY Alone DEF Migrate
  <1>3. UNCHANGED <<records, mem>>
    BY DEF OpenReport, WriteReport
  <1>4. pc[p] \in {"open", "fill"} /\ pc'[p] \in {"fill", "record"}
    BY DEF OpenReport, WriteReport, Go, Shape
  <1>5. /\ reports'.whole \cup reports'.part = (reports.whole \cup reports.part) \cup {mem[p].hashes}
        /\ DOMAIN reports' = {"whole", "part"}
    BY DEF OpenReport, WriteReport
  <1>6. LookedInv'
    BY <1>2, <1>3, <1>4, <1>5 DEF LookedInv, Migrating
  <1>7. RecordsInv' /\ RecordedOnceOrOverlap'
    BY <1>3, <1>5 DEF RecordsInv, IsSequence, RecordedOnceOrOverlap
  <1> QED BY <1>1, <1>6, <1>7

LEMMA RecordKeeps ==
    ASSUME MigrationInv, NEW p \in Procs, Record(p)
    PROVE  MigrationInv'
  <1> DEFINE new == [hash |-> mem[p].hashes, found |-> mem[p].found]
             n == Len(records)
  <1> USE DEF MigrationInv
  <1>1. Shape'
    BY ShapeStep DEF Migrate
  <1>2. \A q \in Procs : q # p => pc'[q] = pc[q] /\ mem'[q] = mem[q]
    BY Alone DEF Migrate
  <1>3. pc[p] = "record" /\ pc'[p] = "idle" /\ reports' = reports /\ records' = Append(records, new)
    BY DEF Record, End, Go, Shape
  <1>4. /\ n \in Nat /\ DOMAIN records = 1..n
        /\ \A j \in 1..n : records[j].found \in 0..(j - 1)
    BY DEF RecordsInv, IsSequence
  <1>5. /\ IsSequence(records') /\ Len(records') = n + 1 /\ records'[n + 1] = new
        /\ \A i \in 1..n : records'[i] = records[i]
    BY <1>3, AppendRecord DEF RecordsInv
  <1>6. /\ new.found \in 0..n /\ new.hash \in reports.whole \cup reports.part
        /\ \A i \in 1..new.found : records[i].hash # new.hash
    BY <1>3 DEF LookedInv, Migrating
  <1> HIDE DEF new, n
  <1>7. DOMAIN records' = 1..(n + 1)
    BY <1>5 DEF IsSequence
  <1>8. LookedInv'
    <2> SUFFICES ASSUME NEW q \in Procs, q # p, pc[q] \in Migrating
                 PROVE  mem[q].found \in 0..(n + 1)
                        /\ \A i \in 1..mem[q].found : records'[i].hash # mem[q].hashes
      BY <1>2, <1>3, <1>5 DEF LookedInv, Migrating
    <2>1. mem[q].found \in 0..n /\ \A i \in 1..mem[q].found : records[i].hash # mem[q].hashes
      BY DEF LookedInv, n
    <2> QED BY <1>4, <1>5, <2>1
  <1>9. RecordsInv'
    BY <1>3, <1>4, <1>5, <1>6 DEF RecordsInv
  <1>10. RecordedOnceOrOverlap'
    <2>1. \A j \in 1..n : /\ records[j].hash \in reports.whole \cup reports.part
                          /\ \A i \in 1..records[j].found : records[i].hash # records[j].hash
      BY <1>4 DEF RecordedOnceOrOverlap, ToSet
    <2>2. \A j \in 1..(n + 1) : /\ records'[j].hash \in reports.whole \cup reports.part
                                /\ \A i \in 1..records'[j].found : records'[i].hash # records'[j].hash
      <3> SUFFICES ASSUME NEW j \in 1..(n + 1)
                   PROVE  /\ records'[j].hash \in reports.whole \cup reports.part
                          /\ \A i \in 1..records'[j].found : records'[i].hash # records'[j].hash
        OBVIOUS
      <3>1. CASE j = n + 1
        BY <1>4, <1>5, <1>6, <3>1
      <3>2. CASE j \in 1..n
        BY <1>4, <1>5, <2>1, <3>2
      <3> QED BY <1>4, <3>1, <3>2
    <2> QED BY <1>3, <1>7, <2>2 DEF RecordedOnceOrOverlap, ToSet
  <1> QED BY <1>1, <1>8, <1>9, <1>10

\* Nothing is assumed of how many processes migrate, die, repair and update.
THEOREM FilesRecordedOnceOrOverlap == Spec => []RecordedOnceOrOverlap
  <1>1. MigrationInv /\ [Next]_vars => MigrationInv'
    <2> SUFFICES ASSUME MigrationInv, [Next]_vars PROVE MigrationInv'
      OBVIOUS
    <2>1. CASE UNCHANGED vars
      BY <2>1 DEF vars, history, MigrationInv, Shape, LookedInv, RecordsInv, IsSequence, RecordedOnceOrOverlap
    <2>2. CASE \E p \in Procs : PlainStep(p)
      BY <2>2, PlainKeeps
    <2>3. CASE \E p \in Procs : Lookup(p)
      BY <2>3, LookupKeeps
    <2>4. CASE \E p \in Procs : OpenReport(p) \/ WriteReport(p)
      BY <2>4, ReportKeeps
    <2>5. CASE \E p \in Procs : Record(p)
      BY <2>5, RecordKeeps
    <2> QED BY <2>1, <2>2, <2>3, <2>4, <2>5 DEF Next, PlainStep, Migrate
  <1>2. MigrationInv => RecordedOnceOrOverlap
    BY DEF MigrationInv
  <1> QED BY InitMigration, <1>1, <1>2, PTL DEF Spec

-----------------------------------------------------------------------------
(* A repair that fails restores what was there.                            *)

\* Before a repair has read what it will replace, and from its plan on.
Early == {"hash", "load", "check", "backup", "recheck"}
Planned == {"check", "backup", "recheck", "previous", "compare", "replace", "report", "rollback", "failed", "half"}
Reading == {"hash", "load"}
Replacing == {"compare", "replace"}

\* The files that nobody else has written since p's call began.
Mine(p) == Files \ others[p]

\* What a repair knows of them: while it loads them, those behind it are as it
\* has seen them; from the plan on all are that it has not replaced; and what it
\* has read again before the replacement is what it had seen.
LoadedInv(p) ==
    pc[p] = "load" =>
        /\ todo[p] \in Seq(Files) /\ todo[p] # <<>>
        /\ \A f \in Mine(p) : f \in ToSet(todo[p]) \/ (f \in DOMAIN mem[p].seen /\ mem[p].seen[f] = disk[f])

SeenInv(p) ==
    pc[p] \in Planned => \A f \in Mine(p) : f \in ToSet(mem[p].replaced) \/ disk[f] = mem[p].seen[f]

PreviousInv(p) ==
    pc[p] \in Planned =>
        \A f \in Mine(p) : f \in DOMAIN mem[p].previous => mem[p].previous[f] = mem[p].seen[f]

\* Where nobody else has written, a file is as it was or as planned.
HalfInv(p) ==
    pc[p] \in Planned => \A f \in Mine(p) : disk[f] \in {mem[p].seen[f], mem[p].plan[f]}

\* The backup is of what was seen, and of all files once it has been made.
BackupInv(p) ==
    /\ pc[p] \in {"hash", "load", "check"} => DOMAIN mem[p].backup = {}
    /\ pc[p] = "backup" =>
        /\ todo[p] \in Seq(Files) /\ todo[p] # <<>>
        /\ Files \subseteq ToSet(todo[p]) \cup DOMAIN mem[p].backup
    /\ pc[p] \in Planned \ {"check", "backup"} => Files \subseteq DOMAIN mem[p].backup
    /\ pc[p] \in Planned =>
        \A f \in Mine(p) : f \in DOMAIN mem[p].backup => mem[p].backup[f] = mem[p].seen[f]

\* What it still has to visit, and what it has replaced.
TodoInv(p) ==
    /\ pc[p] \in Early \cup {"previous"} => mem[p].replaced = <<>>
    /\ pc[p] \in Early => DOMAIN mem[p].previous = {}
    /\ pc[p] \in {"check", "backup", "recheck", "previous"} => ToReplace(p) # <<>>
    /\ pc[p] = "previous" =>
        /\ todo[p] \in Seq(Files) /\ todo[p] # <<>>
        /\ ToSet(ToReplace(p)) \subseteq ToSet(todo[p]) \cup DOMAIN mem[p].previous
    /\ pc[p] \in Replacing =>
        todo[p] \in Seq(Files) /\ todo[p] # <<>> /\ ToSet(todo[p]) \subseteq DOMAIN mem[p].previous
    /\ pc[p] \in Replacing \cup {"report", "rollback"} =>
        mem[p].replaced \in Seq(Files) /\ ToSet(mem[p].replaced) \subseteq DOMAIN mem[p].previous
    /\ pc[p] = "rollback" => mem[p].replaced # <<>>
    /\ pc[p] = "failed" => mem[p].replaced = <<>>

KeptInv(p) == HalfInv(p) /\ BackupInv(p)
RepairInv(p) == LoadedInv(p) /\ SeenInv(p) /\ PreviousInv(p) /\ TodoInv(p) /\ KeptInv(p)
RestoreInv == Shape /\ \A p \in Procs : RepairInv(p)

LEMMA FilesAre == Order \in Seq(Files) /\ Order # <<>> /\ ToSet(Order) = Files
                  /\ Order = <<"rest", "stages", "summary", "workflow">>
                  /\ Files = {"rest", "stages", "summary", "workflow"}
  <1>1. ToSet(Order) = {"rest", "stages", "summary", "workflow"}
    BY DEF Order, ToSet
  <1> QED BY <1>1 DEF Order, Files

LEMMA ChangedType ==
    ASSUME NEW plan, NEW seen
    PROVE  Changed(plan, seen) \in Seq(Files)
  <1> DEFINE one(i) == IF plan[Order[i]] # seen[Order[i]] THEN <<Order[i]>> ELSE <<>>
             c1 == one(1)  c2 == one(2)  c3 == one(3)  c4 == one(4)
  <1>1. c1 \in Seq(Files) /\ c2 \in Seq(Files) /\ c3 \in Seq(Files) /\ c4 \in Seq(Files)
    <2>1. \A i \in 1..4 : Order[i] \in Files
      BY FilesAre
    <2>2. \A i \in 1..4 : <<Order[i]>> \in Seq(Files) /\ <<>> \in Seq(Files)
      BY <2>1
    <2> QED BY <2>2
  <1>2. Changed(plan, seen) = c1 \o c2 \o c3 \o c4
    BY DEF Changed
  <1> HIDE DEF one, c1, c2, c3, c4
  <1> QED BY <1>1, <1>2

\* Head and tail of what is still to visit.
LEMMA TailOf ==
    ASSUME NEW S, NEW s \in Seq(S), s # <<>>
    PROVE  /\ Head(s) \in S /\ Head(s) \in ToSet(s) /\ Len(s) \in Nat \ {0}
           /\ Tail(s) \in Seq(S) /\ ToSet(s) = {Head(s)} \cup ToSet(Tail(s))
           /\ Len(s) > 1 => Tail(s) # <<>>
           /\ ~(Len(s) > 1) => ToSet(s) = {Head(s)}
  <1>1. /\ Len(s) \in Nat \ {0} /\ DOMAIN s = 1..Len(s) /\ Head(s) = s[1]
        /\ \A i \in 1..Len(s) : s[i] \in S
    BY LenProperties, EmptySeq
  <1>2. /\ Tail(s) \in Seq(S) /\ Len(Tail(s)) = Len(s) - 1 /\ DOMAIN Tail(s) = 1..(Len(s) - 1)
        /\ \A i \in 1..(Len(s) - 1) : Tail(s)[i] = s[i + 1]
    BY <1>1, HeadTailProperties, LenProperties
  <1>3. ToSet(s) = {s[i] : i \in 1..Len(s)} /\ ToSet(Tail(s)) = {s[i + 1] : i \in 1..(Len(s) - 1)}
    BY <1>1, <1>2 DEF ToSet
  <1>4. ToSet(s) = {Head(s)} \cup ToSet(Tail(s))
    <2>1. ASSUME NEW x \in ToSet(s) PROVE x = Head(s) \/ x \in ToSet(Tail(s))
      <3>1. PICK i \in 1..Len(s) : x = s[i]
        BY <1>3
      <3>2. i = 1 \/ (i - 1 \in 1..(Len(s) - 1) /\ (i - 1) + 1 = i)
        BY <1>1
      <3> QED BY <1>1, <1>3, <3>1, <3>2
    <2>2. Head(s) \in ToSet(s) /\ 1 \in 1..Len(s)
      BY <1>1, <1>3
    <2>3. ASSUME NEW x \in ToSet(Tail(s)) PROVE x \in ToSet(s)
      <3>1. PICK i \in 1..(Len(s) - 1) : x = s[i + 1]
        BY <1>3
      <3>2. i + 1 \in 1..Len(s)
        BY <1>1
      <3> QED BY <1>3, <3>1, <3>2
    <2> QED BY <2>1, <2>2, <2>3
  <1>5. ~(Len(s) > 1) => ToSet(Tail(s)) = {}
    BY <1>1, <1>3
  <1>6. Len(s) > 1 => Tail(s) # <<>>
    <2>1. Len(<<>>) = 0
      BY EmptySeq
    <2>2. Tail(s) = <<>> => Len(Tail(s)) = 0
      BY <2>1, Zenon
    <2> QED BY <1>1, <1>2, <2>2
  <1> QED BY <1>1, <1>2, <1>4, <1>5, <1>6

\* The last of what was replaced, and the rest.
LEMMA FrontOf ==
    ASSUME NEW S, NEW s \in Seq(S), s # <<>>
    PROVE  /\ Last(s) \in ToSet(s) /\ Last(s) \in S
           /\ Front(s) \in Seq(S) /\ ToSet(s) = ToSet(Front(s)) \cup {Last(s)}
           /\ Len(s) = 1 => Front(s) = <<>>
           /\ Len(s) # 1 => Front(s) # <<>>
  <1>1. /\ Len(s) \in Nat \ {0} /\ DOMAIN s = 1..Len(s) /\ Last(s) = s[Len(s)]
        /\ \A i \in 1..Len(s) : s[i] \in S
    BY LenProperties, EmptySeq DEF Last
  <1>2. /\ Front(s) \in Seq(S) /\ Len(Front(s)) = Len(s) - 1 /\ DOMAIN Front(s) = 1..(Len(s) - 1)
        /\ \A i \in 1..(Len(s) - 1) : Front(s)[i] = s[i]
    BY <1>1, SubSeqProperties, LenProperties DEF Front
  <1>3. ToSet(s) = {s[i] : i \in 1..Len(s)} /\ ToSet(Front(s)) = {s[i] : i \in 1..(Len(s) - 1)}
    BY <1>1, <1>2 DEF ToSet
  <1>4. ToSet(s) = ToSet(Front(s)) \cup {Last(s)}
    <2>1. 1..Len(s) = 1..(Len(s) - 1) \cup {Len(s)}
      BY <1>1
    <2> QED BY <1>1, <1>3, <2>1
  <1>5. (Len(s) = 1 => Front(s) = <<>>) /\ (Len(s) # 1 => Front(s) # <<>>)
    BY <1>1, <1>2, EmptySeq
  <1> QED BY <1>1, <1>2, <1>4, <1>5

\* A process is not disturbed by one that writes nothing ...
LEMMA Undisturbed1 ==
    ASSUME NEW q, RepairInv(q), disk' = disk, others'[q] = others[q],
           pc'[q] = pc[q], mem'[q] = mem[q], todo'[q] = todo[q]
    PROVE  RepairInv(q)'
  BY DEF RepairInv, LoadedInv, SeenInv, PreviousInv, TodoInv, KeptInv, HalfInv, BackupInv, Mine, ToReplace

\* ... and loses only what another writes.
LEMMA OthersWrite ==
    ASSUME NEW q, Shape, RepairInv(q), NEW f, NEW content,
           disk' = [disk EXCEPT ![f] = content], others'[q] = others[q] \cup {f},
           pc'[q] = pc[q], mem'[q] = mem[q], todo'[q] = todo[q]
    PROVE  RepairInv(q)'
  <1>1. \A g \in Mine(q)' : g \in Mine(q) /\ disk'[g] = disk[g]
    BY DEF Mine, Shape
  <1>2. LoadedInv(q)' /\ SeenInv(q)' /\ PreviousInv(q)'
    BY <1>1 DEF RepairInv, LoadedInv, SeenInv, PreviousInv
  <1>3. ToReplace(q)' = ToReplace(q)
    BY DEF ToReplace
  <1>4. TodoInv(q)'
    BY <1>3 DEF RepairInv, TodoInv
  <1>5. KeptInv(q)'
    BY <1>1 DEF RepairInv, KeptInv, HalfInv, BackupInv
  <1> QED BY <1>2, <1>4, <1>5 DEF RepairInv

\* One of the two is what a step is to the others.
LEMMA ToOthers ==
    ASSUME Shape, NEW p \in Procs, NEW q \in Procs, q # p,
           Update(p) \/ Repair(p) \/ Migrate(p) \/ Crash(p)
    PROVE  \/ disk' = disk /\ others'[q] = others[q]
           \/ \E f, content : disk' = [disk EXCEPT ![f] = content] /\ others'[q] = others[q] \cup {f}
  <1>1. CASE BeginUpdate(p)
    BY <1>1 DEF BeginUpdate, Begin, Go, Shape, history
  <1>2. CASE Read(p)
    BY <1>2 DEF Read, End, Go, Knows, Shape, history
  <1>3. CASE BeginRepair(p)
    BY <1>3 DEF BeginRepair, Begin, Go, Shape, history
  <1>4. CASE Hash(p)
    BY <1>4 DEF Hash, Knows, Visited, Go, Shape, history
  <1>5. CASE Load(p)
    BY <1>5 DEF Load, End, Knows, Go, Shape, history
  <1>6. CASE Check(p)
    BY <1>6 DEF Check, Compare, End, Visited, Go, Shape, history
  <1>7. CASE Backup(p)
    BY <1>7 DEF Backup, Knows, Visited, Go, Shape, history
  <1>8. CASE Recheck(p)
    BY <1>8 DEF Recheck, Compare, End, Visited, Go, Shape, history
  <1>9. CASE ReadPrevious(p)
    BY <1>9 DEF ReadPrevious, Knows, Visited, Go, Shape, history
  <1>10. CASE CompareOne(p)
    BY <1>10 DEF CompareOne, Rollback, Go, Shape, history
  <1>11. CASE Fail(p)
    BY <1>11 DEF Fail, Rollback, Go, Shape, history
  <1>12. CASE Report(p)
    BY <1>12 DEF Report, Rollback, Go, Shape, history
  <1>13. CASE BeginMigration(p)
    BY <1>13 DEF BeginMigration, Begin, Go, Shape, history
  <1>14. CASE Inspect(p)
    BY <1>14 DEF Inspect, Knows, Visited, Go, Shape, history
  <1>15. CASE Confirm(p)
    BY <1>15 DEF Confirm, Compare, End, Visited, Go, Shape, history
  <1>16. CASE Lookup(p)
    BY <1>16 DEF Lookup, End, Go, Shape, history
  <1>17. CASE OpenReport(p)
    BY <1>17 DEF OpenReport, Go, Shape, history
  <1>18. CASE WriteReport(p)
    BY <1>18 DEF WriteReport, Go, Shape, history
  <1>19. CASE Record(p)
    BY <1>19 DEF Record, End, Go, Shape, history
  <1>20. CASE Crash(p)
    BY <1>20 DEF Crash, End, Go, Shape, history
  <1>21. CASE Truncate(p)
    BY <1>21 DEF Truncate, Put, Go, history
  <1>22. CASE Write(p)
    BY <1>22 DEF Write, Put, Go, End, history
  <1>23. CASE Replace(p)
    BY <1>23 DEF Replace, Put, Go, history
  <1>24. CASE Undo(p)
    BY <1>24 DEF Undo, UndoLast, Put
  <1>25. CASE UndoFails(p)
    BY <1>25 DEF UndoFails, Go, Shape, history
  <1> QED BY <1>1, <1>2, <1>3, <1>4, <1>5, <1>6, <1>7, <1>8, <1>9, <1>10, <1>11, <1>12, <1>13, <1>14, <1>15, <1>16, <1>17, <1>18, <1>19, <1>20, <1>21, <1>22, <1>23, <1>24, <1>25 DEF Update, Repair, Migrate

LEMMA OthersKeep ==
    ASSUME Shape, NEW p \in Procs, NEW q \in Procs, q # p, RepairInv(q),
           Update(p) \/ Repair(p) \/ Migrate(p) \/ Crash(p)
    PROVE  RepairInv(q)'
  <1>1. pc'[q] = pc[q] /\ mem'[q] = mem[q] /\ todo'[q] = todo[q]
    BY Alone
  <1>2. CASE disk' = disk /\ others'[q] = others[q]
    BY <1>1, <1>2, Undisturbed1
  <1>3. CASE \E f, content : disk' = [disk EXCEPT ![f] = content] /\ others'[q] = others[q] \cup {f}
    BY <1>1, <1>3, OthersWrite
  <1> QED BY <1>2, <1>3, ToOthers

\* A process that does not repair knows nothing, and promises nothing.
Elsewhere == {"idle", "done", "read", "truncate", "write", "inspect", "confirm", "lookup", "open", "fill", "record"}

LEMMA ElsewhereKeeps ==
    ASSUME NEW p, pc'[p] \in Elsewhere
    PROVE  RepairInv(p)'
  BY DEF Elsewhere, RepairInv, LoadedInv, SeenInv, PreviousInv, TodoInv, KeptInv, HalfInv, BackupInv,
         Planned, Early, Replacing



LEMMA NoRepair ==
    ASSUME Shape, NEW p \in Procs, Update(p) \/ Migrate(p) \/ Crash(p)
    PROVE  RepairInv(p)'
  <1> SUFFICES pc'[p] \in Elsewhere
    BY ElsewhereKeeps
  <1>1. CASE BeginUpdate(p)
    BY <1>1 DEF BeginUpdate, Begin, Go, Shape, Elsewhere
  <1>2. CASE Read(p)
    BY <1>2 DEF Read, End, Go, Knows, Shape, Elsewhere
  <1>3. CASE Truncate(p)
    BY <1>3 DEF Truncate, Put, Go, Shape, Elsewhere
  <1>4. CASE Write(p)
    BY <1>4 DEF Write, Put, Go, End, Shape, Elsewhere
  <1>5. CASE BeginMigration(p)
    BY <1>5 DEF BeginMigration, Begin, Go, Shape, Elsewhere
  <1>6. CASE Inspect(p)
    BY <1>6 DEF Inspect, Knows, Visited, Go, Shape, Elsewhere
  <1>7. CASE Confirm(p)
    BY <1>7 DEF Confirm, Compare, End, Visited, Go, Shape, Elsewhere
  <1>8. CASE Lookup(p)
    BY <1>8 DEF Lookup, End, Go, Shape, Elsewhere
  <1>9. CASE OpenReport(p)
    BY <1>9 DEF OpenReport, Go, Shape, Elsewhere
  <1>10. CASE WriteReport(p)
    BY <1>10 DEF WriteReport, Go, Shape, Elsewhere
  <1>11. CASE Record(p)
    BY <1>11 DEF Record, End, Go, Shape, Elsewhere
  <1>12. CASE Crash(p)
    BY <1>12 DEF Crash, End, Go, Shape, Elsewhere
  <1> QED BY <1>1, <1>2, <1>3, <1>4, <1>5, <1>6, <1>7, <1>8, <1>9, <1>10, <1>11, <1>12 DEF Update, Migrate

-----------------------------------------------------------------------------
(* The steps of a repair, for the process itself.                          *)

LEMMA BeginRepairKeeps ==
    ASSUME Shape, NEW p \in Procs, BeginRepair(p)
    PROVE  RepairInv(p)'
  <1>1. /\ pc'[p] = "hash" /\ mem'[p].replaced = <<>> /\ DOMAIN mem'[p].previous = {}
        /\ DOMAIN mem'[p].backup = {}
    BY DEF BeginRepair, Begin, Go, Shape, NoMem
  <1> QED BY <1>1 DEF RepairInv, LoadedInv, SeenInv, PreviousInv, TodoInv, KeptInv, HalfInv, BackupInv,
                      Planned, Early, Replacing

LEMMA HashKeeps ==
    ASSUME Shape, NEW p \in Procs, RepairInv(p), Hash(p)
    PROVE  RepairInv(p)'
  <1>1. /\ pc[p] = "hash" /\ mem'[p].replaced = mem[p].replaced /\ mem'[p].previous = mem[p].previous
        /\ mem'[p].backup = mem[p].backup
        /\ pc'[p] = "hash" \/ (pc'[p] = "load" /\ todo'[p] = Order)
    BY DEF Hash, Knows, Visited, Go, Shape, NoMem
  <1>2. LoadedInv(p)'
    BY <1>1, FilesAre DEF LoadedInv, Mine
  <1>3. TodoInv(p)'
    BY <1>1 DEF RepairInv, TodoInv, Early, Replacing
  <1>4. KeptInv(p)'
    BY <1>1 DEF RepairInv, KeptInv, HalfInv, BackupInv, Planned
  <1> QED BY <1>1, <1>2, <1>3, <1>4 DEF RepairInv, SeenInv, PreviousInv, Planned

LEMMA LoadKeeps ==
    ASSUME Shape, NEW p \in Procs, RepairInv(p), Load(p)
    PROVE  RepairInv(p)'
  <1> DEFINE f == File(p)
             content == With(mem[p].seen, f, disk[f])
             plan == Repaired(content, call[p].threshold, call[p].at)
  <1>1. /\ pc[p] = "load" /\ disk' = disk /\ others' = others
        /\ todo[p] \in Seq(Files) /\ todo[p] # <<>>
        /\ \A g \in Mine(p) : g \in ToSet(todo[p]) \/ (g \in DOMAIN mem[p].seen /\ mem[p].seen[g] = disk[g])
        /\ mem[p].replaced = <<>> /\ DOMAIN mem[p].previous = {} /\ DOMAIN mem[p].backup = {}
    BY DEF Load, history, RepairInv, LoadedInv, TodoInv, KeptInv, BackupInv, Early
  <1>2. /\ f \in Files /\ Tail(todo[p]) \in Seq(Files) /\ ToSet(todo[p]) = {f} \cup ToSet(Tail(todo[p]))
        /\ Len(todo[p]) > 1 => Tail(todo[p]) # <<>>
        /\ ~(Len(todo[p]) > 1) => ToSet(todo[p]) = {f}
    BY <1>1, TailOf DEF File
  <1>3. /\ DOMAIN content = {f} \cup DOMAIN mem[p].seen /\ content[f] = disk[f]
        /\ \A g \in DOMAIN mem[p].seen : g # f => content[g] = mem[p].seen[g]
    BY DEF With
  <1> HIDE DEF f, content, plan
  <1>4. CASE disk[File(p)] = Torn
    <2>1. pc'[p] = "idle"
      BY <1>4 DEF Load, End, Go, Shape
    <2> QED BY <2>1, ElsewhereKeeps DEF Elsewhere
  <1>5. CASE disk[File(p)] # Torn /\ Len(todo[p]) > 1
    <2>1. /\ pc'[p] = "load" /\ todo'[p] = Tail(todo[p]) /\ mem'[p].seen = content
          /\ mem'[p].replaced = mem[p].replaced /\ mem'[p].previous = mem[p].previous
          /\ mem'[p].backup = mem[p].backup
      BY <1>5 DEF Load, Knows, Go, Shape, NoMem, content, f
    <2>2. LoadedInv(p)'
      <3> SUFFICES ASSUME NEW g \in Mine(p)
                   PROVE  g \in ToSet(Tail(todo[p])) \/ (g \in DOMAIN content /\ content[g] = disk[g])
        BY <1>1, <1>2, <1>5, <2>1 DEF LoadedInv, Mine
      <3>1. g \in ToSet(todo[p]) \/ (g \in DOMAIN mem[p].seen /\ mem[p].seen[g] = disk[g])
        BY <1>1
      <3> QED BY <1>2, <1>3, <3>1
    <2> QED BY <1>1, <2>1, <2>2 DEF RepairInv, SeenInv, PreviousInv, TodoInv, KeptInv, HalfInv, BackupInv,
                                    Planned, Early, Replacing
  <1>6. CASE disk[File(p)] # Torn /\ ~(Len(todo[p]) > 1)
    <2>1. /\ mem'[p].seen = content /\ mem'[p].plan = plan
          /\ mem'[p].replaced = mem[p].replaced /\ mem'[p].previous = mem[p].previous
          /\ mem'[p].backup = mem[p].backup
          /\ \/ pc'[p] = "done"
             \/ pc'[p] = "check" /\ Changed(plan, content) # <<>>
      BY <1>6 DEF Load, Go, Shape, NoMem, plan, content, f
    <2>2. \A g \in Mine(p) : content[g] = disk[g]
      BY <1>1, <1>2, <1>3, <1>6
    <2>3. SeenInv(p)'
      BY <1>1, <2>1, <2>2 DEF SeenInv, Mine
    <2>4. TodoInv(p)'
      BY <1>1, <2>1 DEF TodoInv, ToReplace, Early, Replacing
    <2>5. KeptInv(p)'
      BY <1>1, <2>1, <2>2 DEF KeptInv, HalfInv, BackupInv, Mine, Planned
    <2> QED BY <1>1, <2>1, <2>3, <2>4, <2>5 DEF RepairInv, LoadedInv, PreviousInv
  <1> QED BY <1>4, <1>5, <1>6

\* The backup takes one file after the other, each as it was seen.
LEMMA BackedUp ==
    ASSUME Shape, NEW p \in Procs, RepairInv(p), Check(p) \/ Backup(p) \/ Recheck(p), pc'[p] # "idle"
    PROVE  BackupInv(p)'
  <1>1. CASE Check(p)
    <2>1. /\ pc[p] = "check" /\ disk' = disk /\ others' = others /\ mem' = mem
          /\ pc'[p] = "check" \/ (pc'[p] = "backup" /\ todo'[p] = Order)
      BY <1>1 DEF Check, Compare, Visited, End, Go, Shape, history
    <2> QED BY <2>1, FilesAre DEF RepairInv, KeptInv, BackupInv, Planned, Mine
  <1>2. CASE Recheck(p)
    <2>1. /\ pc[p] = "recheck" /\ disk' = disk /\ others' = others /\ mem' = mem
          /\ pc'[p] \in {"recheck", "previous"}
      BY <1>2 DEF Recheck, Compare, Visited, End, Go, Shape, history
    <2> QED BY <2>1 DEF RepairInv, KeptInv, BackupInv, Planned, Mine
  <1>3. CASE Backup(p)
    <2> DEFINE f == File(p)
               copies == With(mem[p].backup, f, disk[f])
    <2>1. /\ pc[p] = "backup" /\ disk' = disk /\ others' = others
          /\ mem'[p].backup = copies /\ mem'[p].seen = mem[p].seen
          /\ \/ pc'[p] = "backup" /\ todo'[p] = Tail(todo[p]) /\ Len(todo[p]) > 1
             \/ pc'[p] = "recheck" /\ ~(Len(todo[p]) > 1)
      BY <1>3 DEF Backup, Knows, Visited, Go, Shape, NoMem, history
    <2>2. /\ todo[p] \in Seq(Files) /\ todo[p] # <<>>
          /\ Files \subseteq ToSet(todo[p]) \cup DOMAIN mem[p].backup
          /\ \A g \in Mine(p) : g \in DOMAIN mem[p].backup => mem[p].backup[g] = mem[p].seen[g]
      BY <2>1 DEF RepairInv, KeptInv, BackupInv, Planned
    <2>3. /\ f \in Files /\ Tail(todo[p]) \in Seq(Files) /\ ToSet(todo[p]) = {f} \cup ToSet(Tail(todo[p]))
          /\ Len(todo[p]) > 1 => Tail(todo[p]) # <<>>
          /\ ~(Len(todo[p]) > 1) => ToSet(todo[p]) = {f}
      BY <2>2, TailOf DEF File
    <2>4. /\ DOMAIN copies = {f} \cup DOMAIN mem[p].backup /\ copies[f] = disk[f]
          /\ \A g \in DOMAIN mem[p].backup : g # f => copies[g] = mem[p].backup[g]
      BY DEF With
    <2>5. \A g \in Mine(p) : disk[g] = mem[p].seen[g]
      <3>1. mem[p].replaced = <<>>
        BY <2>1 DEF RepairInv, TodoInv, Early
      <3> QED BY <2>1, <3>1 DEF RepairInv, SeenInv, Planned, ToSet
    <2> HIDE DEF f, copies
    <2>6. \A g \in Mine(p) : g \in DOMAIN copies => copies[g] = mem[p].seen[g]
      BY <2>2, <2>4, <2>5
    <2>7. CASE pc'[p] = "backup"
      <3>1. Files \subseteq ToSet(Tail(todo[p])) \cup DOMAIN copies
        BY <2>2, <2>3, <2>4
      <3> QED BY <2>1, <2>3, <2>6, <2>7, <3>1 DEF BackupInv, Mine
    <2>8. CASE pc'[p] = "recheck"
      <3>1. Files \subseteq DOMAIN copies
        BY <2>1, <2>2, <2>3, <2>4, <2>8
      <3> QED BY <2>1, <2>6, <2>8, <3>1 DEF BackupInv, Mine
    <2> QED BY <2>1, <2>7, <2>8
  <1> QED BY <1>1, <1>2, <1>3

\* Comparing with the hashes ends the repair, or goes on with what it knows.
LEMMA CompareKeeps ==
    ASSUME Shape, NEW p \in Procs, RepairInv(p), Check(p) \/ Backup(p) \/ Recheck(p)
    PROVE  RepairInv(p)'
  <1>1. /\ pc[p] \in {"check", "backup", "recheck"} /\ disk' = disk /\ others' = others
        /\ \/ pc'[p] = "idle"
           \/ /\ \/ pc'[p] \in {"check", "backup", "recheck"}
                 \/ pc'[p] = "previous" /\ todo'[p] = ToReplace(p)
              /\ mem'[p].seen = mem[p].seen /\ mem'[p].plan = mem[p].plan
              /\ mem'[p].replaced = mem[p].replaced /\ mem'[p].previous = mem[p].previous
    <2>1. CASE Check(p)
      BY <2>1 DEF Check, Compare, Visited, End, Go, Shape, history
    <2>2. CASE Backup(p)
      BY <2>2 DEF Backup, Knows, Visited, Go, Shape, NoMem, history
    <2>3. CASE Recheck(p)
      BY <2>3 DEF Recheck, Compare, Visited, End, Go, Shape, history
    <2> QED BY <2>1, <2>2, <2>3
  <1>2. CASE pc'[p] = "idle"
    BY <1>2, ElsewhereKeeps DEF Elsewhere
  <1>3. CASE pc'[p] # "idle"
    <2>1. ToReplace(p)' = ToReplace(p)
      BY <1>1, <1>3 DEF ToReplace
    <2>2. SeenInv(p)' /\ PreviousInv(p)' /\ LoadedInv(p)'
      BY <1>1, <1>3 DEF RepairInv, SeenInv, PreviousInv, LoadedInv, Planned, Mine
    <2>3. /\ mem'[p].replaced = <<>> /\ DOMAIN mem'[p].previous = {}
          /\ ToReplace(p) # <<>>
      BY <1>1, <1>3 DEF RepairInv, TodoInv, Early
    <2>4. TodoInv(p)'
      BY <1>1, <1>3, <2>1, <2>3, ChangedType DEF TodoInv, ToReplace, Early, Replacing
    <2>5. HalfInv(p)'
      BY <1>1, <1>3 DEF RepairInv, KeptInv, HalfInv, Planned, Mine
    <2>6. BackupInv(p)'
      BY <1>3, BackedUp DEF RepairInv
    <2> QED BY <2>2, <2>4, <2>5, <2>6 DEF RepairInv, KeptInv
  <1> QED BY <1>2, <1>3

LEMMA ReadPreviousKeeps ==
    ASSUME Shape, NEW p \in Procs, RepairInv(p), ReadPrevious(p)
    PROVE  RepairInv(p)'
  <1> DEFINE f == File(p)
             read == With(mem[p].previous, f, disk[f])
  <1>1. /\ pc[p] = "previous" /\ disk' = disk /\ others' = others
        /\ mem'[p].previous = read /\ mem'[p].seen = mem[p].seen /\ mem'[p].plan = mem[p].plan
        /\ mem'[p].replaced = mem[p].replaced /\ mem'[p].backup = mem[p].backup
        /\ \/ pc'[p] = "previous" /\ todo'[p] = Tail(todo[p]) /\ Len(todo[p]) > 1
           \/ pc'[p] = "compare" /\ todo'[p] = ToReplace(p) /\ ~(Len(todo[p]) > 1)
    BY DEF ReadPrevious, Knows, Visited, Go, Shape, NoMem, history
  <1>2. /\ todo[p] \in Seq(Files) /\ todo[p] # <<>>
        /\ ToSet(ToReplace(p)) \subseteq ToSet(todo[p]) \cup DOMAIN mem[p].previous
        /\ mem[p].replaced = <<>> /\ ToReplace(p) # <<>>
    BY <1>1 DEF RepairInv, TodoInv
  <1>3. /\ f \in Files /\ Tail(todo[p]) \in Seq(Files) /\ ToSet(todo[p]) = {f} \cup ToSet(Tail(todo[p]))
        /\ Len(todo[p]) > 1 => Tail(todo[p]) # <<>>
        /\ ~(Len(todo[p]) > 1) => ToSet(todo[p]) = {f}
    BY <1>2, TailOf DEF File
  <1>4. /\ DOMAIN read = {f} \cup DOMAIN mem[p].previous /\ read[f] = disk[f]
        /\ \A g \in DOMAIN mem[p].previous : g # f => read[g] = mem[p].previous[g]
    BY DEF With
  <1> HIDE DEF f, read
  <1>5. ToReplace(p)' = ToReplace(p) /\ ToReplace(p) \in Seq(Files)
    BY <1>1, ChangedType DEF ToReplace
  <1>6. \A g \in Mine(p) : disk[g] = mem[p].seen[g]
    BY <1>1, <1>2 DEF RepairInv, SeenInv, Planned, ToSet
  <1>7. \A g \in Mine(p) : g \in DOMAIN mem[p].previous => mem[p].previous[g] = mem[p].seen[g]
    BY <1>1 DEF RepairInv, PreviousInv, Planned
  <1>8. SeenInv(p)'
    BY <1>1, <1>6 DEF SeenInv, Mine
  <1>9. PreviousInv(p)'
    <2>1. \A g \in Mine(p) : g \in DOMAIN read => read[g] = mem[p].seen[g]
      BY <1>4, <1>6, <1>7
    <2> QED BY <1>1, <2>1 DEF PreviousInv, Mine
  <1>10. mem'[p].replaced \in Seq(Files) /\ ToSet(mem'[p].replaced) = {}
    BY <1>1, <1>2 DEF ToSet
  <1>11. TodoInv(p)'
    <2>1. CASE pc'[p] = "previous"
      <3>1. ToSet(ToReplace(p)) \subseteq ToSet(Tail(todo[p])) \cup DOMAIN read
        BY <1>2, <1>3, <1>4
      <3> QED BY <1>1, <1>2, <1>3, <1>5, <2>1, <3>1 DEF TodoInv, Early, Replacing
    <2>2. CASE pc'[p] = "compare"
      <3>1. ToSet(ToReplace(p)) \subseteq DOMAIN read
        BY <1>1, <1>2, <1>3, <1>4, <2>2
      <3> QED BY <1>1, <1>2, <1>5, <1>10, <2>2, <3>1 DEF TodoInv, Early, Replacing
    <2> QED BY <1>1, <2>1, <2>2
  <1>12. KeptInv(p)'
    BY <1>1, <1>6 DEF RepairInv, KeptInv, HalfInv, BackupInv, Planned, Mine
  <1> QED BY <1>1, <1>8, <1>9, <1>11, <1>12 DEF RepairInv, LoadedInv

\* Where a repair goes when it meets something else than it expects.
LEMMA RollbackKeeps ==
    ASSUME Shape, NEW p \in Procs, RepairInv(p), CompareOne(p) \/ Fail(p) \/ Report(p) \/ UndoFails(p)
    PROVE  RepairInv(p)'
  <1>1. /\ pc[p] \in Replacing \cup {"report", "rollback"} /\ disk' = disk /\ others' = others /\ mem' = mem
        /\ \/ pc'[p] = "failed" /\ mem[p].replaced = <<>>
           \/ pc'[p] = "rollback" /\ mem[p].replaced # <<>>
           \/ pc'[p] = "replace" /\ pc[p] = "compare" /\ todo'[p] = todo[p]
           \/ pc'[p] = "done"
           \/ pc'[p] = "half"
    <2>1. CASE CompareOne(p)
      BY <2>1 DEF CompareOne, Rollback, Go, Shape, history, Replacing
    <2>2. CASE Fail(p)
      BY <2>2 DEF Fail, Rollback, Go, Shape, history, Replacing
    <2>3. CASE Report(p)
      BY <2>3 DEF Report, Rollback, Go, Shape, history, Replacing
    <2>4. CASE UndoFails(p)
      BY <2>4 DEF UndoFails, Go, Shape, history
    <2> QED BY <2>1, <2>2, <2>3, <2>4
  <1>2. CASE pc'[p] = "done"
    BY <1>2, ElsewhereKeeps DEF Elsewhere
  <1>3. CASE pc'[p] # "done"
    <2>1. SeenInv(p)' /\ PreviousInv(p)' /\ LoadedInv(p)'
      BY <1>1, <1>3 DEF RepairInv, SeenInv, PreviousInv, LoadedInv, Planned, Replacing, Mine
    <2>2. TodoInv(p)'
      BY <1>1, <1>3 DEF RepairInv, TodoInv, Early, Replacing
    <2>3. KeptInv(p)'
      BY <1>1, <1>3 DEF RepairInv, KeptInv, HalfInv, BackupInv, Planned, Replacing, Mine
    <2> QED BY <2>1, <2>2, <2>3 DEF RepairInv
  <1> QED BY <1>2, <1>3

LEMMA AppendSet ==
    ASSUME NEW S, NEW s \in Seq(S), NEW e \in S
    PROVE  Append(s, e) \in Seq(S) /\ ToSet(Append(s, e)) = ToSet(s) \cup {e}
  <1>1. /\ Append(s, e) \in Seq(S) /\ Len(s) \in Nat
        /\ DOMAIN s = 1..Len(s) /\ DOMAIN Append(s, e) = 1..(Len(s) + 1)
        /\ \A i \in 1..Len(s) : Append(s, e)[i] = s[i]
        /\ Append(s, e)[Len(s) + 1] = e
    BY AppendProperties, LenProperties
  <1>2. 1..(Len(s) + 1) = 1..Len(s) \cup {Len(s) + 1}
    BY <1>1
  <1>3. ToSet(Append(s, e)) = {Append(s, e)[i] : i \in 1..Len(s)} \cup {e}
    BY <1>1, <1>2 DEF ToSet
  <1>4. {Append(s, e)[i] : i \in 1..Len(s)} = ToSet(s)
    BY <1>1 DEF ToSet
  <1> QED BY <1>1, <1>3, <1>4

LEMMA ReplaceKeeps ==
    ASSUME Shape, NEW p \in Procs, RepairInv(p), Replace(p)
    PROVE  RepairInv(p)'
  <1> DEFINE f == File(p)
             old == mem[p].replaced
  <1>1. /\ pc[p] = "replace" /\ disk' = [disk EXCEPT ![f] = mem[p].plan[f]] /\ others'[p] = others[p]
        /\ mem'[p].replaced = Append(old, f) /\ mem'[p].previous = mem[p].previous
        /\ mem'[p].seen = mem[p].seen /\ mem'[p].plan = mem[p].plan /\ mem'[p].backup = mem[p].backup
        /\ \/ pc'[p] = "compare" /\ todo'[p] = Tail(todo[p]) /\ Len(todo[p]) > 1
           \/ pc'[p] = "report"
    BY DEF Replace, Put, Go, Shape, NoMem
  <1>2. /\ todo[p] \in Seq(Files) /\ todo[p] # <<>> /\ ToSet(todo[p]) \subseteq DOMAIN mem[p].previous
        /\ old \in Seq(Files) /\ ToSet(old) \subseteq DOMAIN mem[p].previous
    BY <1>1 DEF RepairInv, TodoInv, Replacing
  <1>3. /\ f \in Files /\ f \in ToSet(todo[p]) /\ Tail(todo[p]) \in Seq(Files)
        /\ ToSet(todo[p]) = {f} \cup ToSet(Tail(todo[p]))
        /\ Len(todo[p]) > 1 => Tail(todo[p]) # <<>>
    BY <1>2, TailOf DEF File
  <1>4. Append(old, f) \in Seq(Files) /\ ToSet(Append(old, f)) = ToSet(old) \cup {f}
    BY <1>2, <1>3, AppendSet
  <1> HIDE DEF f, old
  <1>5. SeenInv(p)'
    <2>1. \A g \in Mine(p) : g \in ToSet(old) \/ disk[g] = mem[p].seen[g]
      BY <1>1 DEF RepairInv, SeenInv, Planned, old
    <2>2. \A g \in Mine(p) : g \in ToSet(Append(old, f)) \/ disk'[g] = mem[p].seen[g]
      BY <1>1, <1>4, <2>1 DEF Mine, Shape
    <2> QED BY <1>1, <2>2 DEF SeenInv, Mine
  <1>6. PreviousInv(p)'
    BY <1>1 DEF RepairInv, PreviousInv, Planned, Mine
  <1>7. ToSet(Append(old, f)) \subseteq DOMAIN mem[p].previous
    BY <1>2, <1>3, <1>4
  <1>8. TodoInv(p)'
    BY <1>1, <1>2, <1>3, <1>4, <1>7 DEF TodoInv, Early, Replacing
  <1>9. KeptInv(p)'
    BY <1>1 DEF RepairInv, KeptInv, HalfInv, BackupInv, Planned, Mine, Shape
  <1> QED BY <1>1, <1>5, <1>6, <1>8, <1>9 DEF RepairInv, LoadedInv

\* The file that comes back is what it was when p first saw it, if it is p's.
LEMMA UndoKeeps ==
    ASSUME Shape, NEW p \in Procs, RepairInv(p), Undo(p)
    PROVE  RepairInv(p)'
  <1> DEFINE left == mem[p].replaced
             f == Last(left)
  <1>1. /\ pc[p] = "rollback" /\ disk' = [disk EXCEPT ![f] = mem[p].previous[f]] /\ others'[p] = others[p]
        /\ mem'[p].replaced = Front(left) /\ mem'[p].previous = mem[p].previous
        /\ mem'[p].seen = mem[p].seen /\ mem'[p].plan = mem[p].plan /\ mem'[p].backup = mem[p].backup
        /\ \/ pc'[p] = "failed" /\ Len(left) = 1
           \/ pc'[p] = "rollback" /\ Len(left) # 1
    BY DEF Undo, UndoLast, Put, Go, Shape, NoMem
  <1>2. left \in Seq(Files) /\ left # <<>> /\ ToSet(left) \subseteq DOMAIN mem[p].previous
    BY <1>1 DEF RepairInv, TodoInv
  <1>3. /\ f \in ToSet(left) /\ f \in Files
        /\ Front(left) \in Seq(Files) /\ ToSet(left) = ToSet(Front(left)) \cup {f}
        /\ Len(left) = 1 => Front(left) = <<>>
        /\ Len(left) # 1 => Front(left) # <<>>
    BY <1>2, FrontOf
  <1> HIDE DEF f, left
  <1>4. SeenInv(p)'
    <2>1. \A g \in Mine(p) : g \in ToSet(left) \/ disk[g] = mem[p].seen[g]
      BY <1>1 DEF RepairInv, SeenInv, Planned, left
    <2>2. \A g \in Mine(p) : g \in DOMAIN mem[p].previous => mem[p].previous[g] = mem[p].seen[g]
      BY <1>1 DEF RepairInv, PreviousInv, Planned
    <2>3. \A g \in Mine(p) : g \in ToSet(Front(left)) \/ disk'[g] = mem[p].seen[g]
      BY <1>1, <1>2, <1>3, <2>1, <2>2 DEF Mine, Shape
    <2> QED BY <1>1, <2>3 DEF SeenInv, Mine
  <1>5. PreviousInv(p)'
    BY <1>1 DEF RepairInv, PreviousInv, Planned, Mine
  <1>6. ToSet(Front(left)) \subseteq DOMAIN mem[p].previous
    BY <1>2, <1>3
  <1>7. TodoInv(p)'
    BY <1>1, <1>3, <1>6 DEF TodoInv, Early, Replacing
  <1>8. HalfInv(p)'
    <2>1. \A g \in Mine(p) : g \in DOMAIN mem[p].previous => mem[p].previous[g] = mem[p].seen[g]
      BY <1>1 DEF RepairInv, PreviousInv, Planned
    <2>2. \A g \in Mine(p) : disk[g] \in {mem[p].seen[g], mem[p].plan[g]}
      BY <1>1 DEF RepairInv, KeptInv, HalfInv, Planned
    <2>3. \A g \in Mine(p) : disk'[g] \in {mem[p].seen[g], mem[p].plan[g]}
      BY <1>1, <1>2, <1>3, <2>1, <2>2 DEF Mine, Shape
    <2> QED BY <1>1, <2>3 DEF HalfInv, Mine
  <1>9. BackupInv(p)'
    BY <1>1 DEF RepairInv, KeptInv, BackupInv, Planned, Mine
  <1> QED BY <1>1, <1>4, <1>5, <1>7, <1>8, <1>9 DEF RepairInv, KeptInv, LoadedInv

LEMMA RepairKeeps ==
    ASSUME Shape, NEW p \in Procs, RepairInv(p), Repair(p)
    PROVE  RepairInv(p)'
  BY BeginRepairKeeps, HashKeeps, LoadKeeps, CompareKeeps, ReadPreviousKeeps, RollbackKeeps, ReplaceKeeps,
     UndoKeeps DEF Repair

\* Whatever the others do meanwhile, at whatever file the repair fails, and at
\* whatever file its rollback.
THEOREM FilesFailedRepairRestores == Spec => []FailedRepairRestores
  <1>1. Init => RestoreInv
    <2> SUFFICES ASSUME Init, NEW p \in Procs PROVE RepairInv(p)
      BY InitShape DEF RestoreInv
    <2>1. pc[p] = "idle"
      BY DEF Init
    <2> QED BY <2>1 DEF RepairInv, LoadedInv, SeenInv, PreviousInv, TodoInv, KeptInv, HalfInv, BackupInv,
                        Planned, Early, Replacing
  <1>2. RestoreInv /\ [Next]_vars => RestoreInv'
    <2> SUFFICES ASSUME RestoreInv, [Next]_vars, NEW q \in Procs PROVE RepairInv(q)'
      BY NextShape DEF RestoreInv
    <2>1. CASE UNCHANGED vars
      BY <2>1, Undisturbed1 DEF vars, history, RestoreInv
    <2>2. CASE Next
      <3>1. PICK p \in Procs : Update(p) \/ Repair(p) \/ Migrate(p) \/ Crash(p)
        BY <2>2 DEF Next
      <3>2. CASE q # p
        BY <3>1, <3>2, OthersKeep DEF RestoreInv
      <3>3. CASE q = p
        BY <3>1, <3>3, NoRepair, RepairKeeps DEF RestoreInv
      <3> QED BY <3>2, <3>3
    <2> QED BY <2>1, <2>2
  <1>3. RestoreInv => FailedRepairRestores
    <2> SUFFICES ASSUME RestoreInv, NEW p \in Procs, NEW f \in Files \ others[p]
                 PROVE  /\ pc[p] = "failed" => disk[f] = mem[p].seen[f]
                        /\ pc[p] = "half" =>
                             /\ disk[f] \in {mem[p].seen[f], mem[p].plan[f]}
                             /\ f \in DOMAIN mem[p].backup /\ mem[p].backup[f] = mem[p].seen[f]
      BY DEF FailedRepairRestores
    <2>1. RepairInv(p)
      BY DEF RestoreInv
    <2>2. CASE pc[p] = "failed"
      <3>1. mem[p].replaced = <<>> /\ (f \in ToSet(mem[p].replaced) \/ disk[f] = mem[p].seen[f])
        BY <2>1, <2>2 DEF RepairInv, SeenInv, TodoInv, Planned, Mine
      <3> QED BY <2>2, <3>1 DEF ToSet
    <2>3. CASE pc[p] = "half"
      BY <2>1, <2>3 DEF RepairInv, KeptInv, HalfInv, BackupInv, Planned, Mine
    <2> QED BY <2>2, <2>3
  <1> QED BY <1>1, <1>2, <1>3, PTL DEF Spec

-----------------------------------------------------------------------------
(* The files keep their shape, and a repair that nobody disturbed leaves   *)
(* what it has planned.                                                    *)

Updating == {"read", "truncate", "write"}

\* The call of p. The files an update visits are not those of a repair.
CallInv(p) ==
    /\ call[p].threshold \in Nat /\ call[p].at \in 0..MaxCalls
    /\ pc[p] \in Updating =>
        /\ call[p].stage \in Stages /\ call[p].status \in StageStatuses
        /\ todo[p] \in Seq({"stages", "workflow", "summary"}) /\ todo[p] # <<>>

\* What p has in memory is what files held, and its plan the repair of that.
MemInv(p) ==
    /\ todo[p] \in Seq(Files) /\ ToSet(mem[p].replaced) \subseteq Files
    /\ DOMAIN mem[p].seen \subseteq Files /\ \A f \in DOMAIN mem[p].seen : IsContent(f, mem[p].seen[f])
    /\ \A f \in DOMAIN mem[p].previous : mem[p].previous[f] = Torn \/ IsContent(f, mem[p].previous[f])
    /\ pc[p] \in {"truncate", "write"} => File(p) \in DOMAIN mem[p].seen
    /\ pc[p] = "load" => Files \subseteq ToSet(todo[p]) \cup DOMAIN mem[p].seen
    /\ pc[p] \in Planned \cup {"done"} =>
        /\ DOMAIN mem[p].seen = Files
        /\ mem[p].plan = Repaired(mem[p].seen, call[p].threshold, call[p].at)

\* What the plan changes is replaced, or still to be; what p has replaced and
\* what it leaves is as planned, where nobody else has written.
PlanInv(p) ==
    /\ pc[p] \in Replacing => ToSet(ToReplace(p)) \subseteq ToSet(todo[p]) \cup ToSet(mem[p].replaced)
    /\ pc[p] = "report" => ToSet(ToReplace(p)) \subseteq ToSet(mem[p].replaced)
    /\ pc[p] \in Replacing \cup {"report"} =>
        \A f \in Mine(p) : f \in ToSet(mem[p].replaced) => disk[f] = mem[p].plan[f]
    /\ pc[p] = "done" => \A f \in Mine(p) : disk[f] = mem[p].plan[f]

CallsInv == calls \in 0..MaxCalls
DiskInv == \A f \in Files : disk[f] = Torn \/ IsContent(f, disk[f])
OfProcess(p) == CallInv(p) /\ MemInv(p) /\ PlanInv(p)
FaultsInv ==
    /\ DOMAIN reports = {"whole", "part"} /\ reports.whole \cap reports.part = {}
    /\ crashes \in 0..MaxCrashes /\ errors \in 0..MaxErrors

FilesInv == RestoreInv /\ CallsInv /\ DiskInv /\ FaultsInv /\ \A p \in Procs : OfProcess(p)

-----------------------------------------------------------------------------
LEMMA Contents ==
    ASSUME NEW content, \A f \in Files : IsContent(f, content[f])
    PROVE  IsProject(content)
  <1>1. /\ IsContent("rest", content["rest"]) /\ IsContent("stages", content["stages"])
        /\ IsContent("workflow", content["workflow"]) /\ IsContent("summary", content["summary"])
    BY FilesAre
  <1> QED BY <1>1 DEF IsContent, IsProject

LEMMA ProjectFiles ==
    ASSUME NEW content, IsProject(content)
    PROVE  \A f \in Files : IsContent(f, content[f])
  BY FilesAre DEF IsContent, IsProject

\* What the plan changes, as a set.
LEMMA ChangedAre ==
    ASSUME NEW plan, NEW seen
    PROVE  /\ ToSet(Changed(plan, seen)) = {f \in Files : plan[f] # seen[f]}
           /\ Changed(plan, seen) = <<>> => \A f \in Files : plan[f] = seen[f]
  <1> DEFINE one(i) == IF plan[Order[i]] # seen[Order[i]] THEN <<Order[i]>> ELSE <<>>
             c1 == one(1)  c2 == one(2)  c3 == one(3)  c4 == one(4)
  <1>1. \A i \in 1..4 : /\ one(i) \in Seq(Files)
                        /\ ToSet(one(i)) = {f \in {Order[i]} : plan[f] # seen[f]}
    <2>1. \A f : ToSet(<<f>>) = {f} /\ ToSet(<<>>) = {}
      BY DEF ToSet
    <2>2. \A i \in 1..4 : Order[i] \in Files
      BY FilesAre
    <2> QED BY <2>1, <2>2
  <1>2. Changed(plan, seen) = c1 \o c2 \o c3 \o c4
    BY DEF Changed
  <1>3. /\ c1 \in Seq(Files) /\ c2 \in Seq(Files) /\ c3 \in Seq(Files) /\ c4 \in Seq(Files)
        /\ ToSet(c1) = {f \in {"rest"} : plan[f] # seen[f]}
        /\ ToSet(c2) = {f \in {"stages"} : plan[f] # seen[f]}
        /\ ToSet(c3) = {f \in {"summary"} : plan[f] # seen[f]}
        /\ ToSet(c4) = {f \in {"workflow"} : plan[f] # seen[f]}
    BY <1>1, FilesAre
  <1> HIDE DEF one, c1, c2, c3, c4
  <1>4. \A s \in Seq(Files), u \in Seq(Files) : s \o u \in Seq(Files) /\ ToSet(s \o u) = ToSet(s) \cup ToSet(u)
    <2> SUFFICES ASSUME NEW s \in Seq(Files), NEW u \in Seq(Files)
                 PROVE  s \o u \in Seq(Files) /\ ToSet(s \o u) = ToSet(s) \cup ToSet(u)
      OBVIOUS
    <2>1. /\ s \o u \in Seq(Files) /\ Len(s \o u) = Len(s) + Len(u) /\ Len(s) \in Nat /\ Len(u) \in Nat
          /\ \A i \in 1..Len(s) : (s \o u)[i] = s[i]
          /\ \A i \in 1..Len(u) : (s \o u)[Len(s) + i] = u[i]
      BY ConcatProperties, LenProperties
    <2>2. DOMAIN s = 1..Len(s) /\ DOMAIN u = 1..Len(u) /\ DOMAIN (s \o u) = 1..(Len(s) + Len(u))
      BY <2>1, LenProperties
    <2>3. ASSUME NEW x \in ToSet(s \o u) PROVE x \in ToSet(s) \cup ToSet(u)
      <3>1. PICK i \in 1..(Len(s) + Len(u)) : x = (s \o u)[i]
        BY <2>2 DEF ToSet
      <3>2. i \in 1..Len(s) \/ (i - Len(s) \in 1..Len(u) /\ Len(s) + (i - Len(s)) = i)
        BY <2>1
      <3> QED BY <2>1, <2>2, <3>1, <3>2 DEF ToSet
    <2>4. ASSUME NEW x \in ToSet(s) PROVE x \in ToSet(s \o u)
      <3>1. PICK i \in 1..Len(s) : x = s[i]
        BY <2>2 DEF ToSet
      <3>2. i \in 1..(Len(s) + Len(u))
        BY <2>1
      <3> QED BY <2>1, <2>2, <3>1, <3>2 DEF ToSet
    <2>5. ASSUME NEW x \in ToSet(u) PROVE x \in ToSet(s \o u)
      <3>1. PICK i \in 1..Len(u) : x = u[i]
        BY <2>2 DEF ToSet
      <3>2. Len(s) + i \in 1..(Len(s) + Len(u))
        BY <2>1
      <3> QED BY <2>1, <2>2, <3>1, <3>2 DEF ToSet
    <2> QED BY <2>1, <2>3, <2>4, <2>5
  <1>5. ToSet(c1 \o c2 \o c3 \o c4) = ToSet(c1) \cup ToSet(c2) \cup ToSet(c3) \cup ToSet(c4)
    <2>1. c1 \o c2 \in Seq(Files) /\ ToSet(c1 \o c2) = ToSet(c1) \cup ToSet(c2)
      BY <1>3, <1>4
    <2>2. c1 \o c2 \o c3 \in Seq(Files) /\ ToSet(c1 \o c2 \o c3) = ToSet(c1 \o c2) \cup ToSet(c3)
      BY <1>3, <1>4, <2>1
    <2>3. ToSet(c1 \o c2 \o c3 \o c4) = ToSet(c1 \o c2 \o c3) \cup ToSet(c4)
      BY <1>3, <1>4, <2>2
    <2> QED BY <2>1, <2>2, <2>3
  <1>6. ToSet(Changed(plan, seen)) = {f \in Files : plan[f] # seen[f]}
    BY <1>2, <1>3, <1>5, FilesAre
  <1>7. ToSet(<<>>) = {}
    BY DEF ToSet
  <1> QED BY <1>6, <1>7

\* What an update writes has the shape of what it has read.
LEMMA AfterIs ==
    ASSUME NEW f \in {"stages", "workflow", "summary"}, NEW old, IsContent(f, old), NEW c,
           c.stage \in Stages, c.status \in StageStatuses, c.at \in Nat
    PROVE  IsContent(f, After(f, old, c))
  <1>1. CASE f = "stages"
    <2> DEFINE known == IF c.stage \in DOMAIN old THEN old[c.stage] ELSE [NewStage EXCEPT !.status = "pending"]
    <2>1. IsMap(old, Stages, StageRecord)
      BY <1>1 DEF IsContent
    <2>2. known \in StageRecord
      <3>1. [NewStage EXCEPT !.status = "pending"] \in StageRecord
        BY DEF NewStage, StageRecord, StageStatuses
      <3>2. \A st \in DOMAIN old : old[st] \in StageRecord
        BY <2>1, MapOf
      <3> QED BY <3>1, <3>2
    <2>3. After(f, old, c) = [st \in DOMAIN old \cup {c.stage} |->
                                IF st = c.stage THEN StageAfter(known, c) ELSE old[st]]
      BY <1>1 DEF After
    <2> HIDE DEF known
    <2>4. StageAfter(known, c) \in StageRecord
      BY <2>2 DEF StageAfter, StageRecord
    <2>5. IsMap(After(f, old, c), Stages, StageRecord)
      BY <2>1, <2>3, <2>4 DEF IsMap
    <2> QED BY <1>1, <2>5 DEF IsContent
  <1>2. CASE f # "stages"
    <2>1. old \in Top
      BY <1>2 DEF IsContent
    <2>2. After(f, old, c) \in Top
      BY <1>2, <2>1 DEF After, Touched, Top, Labels
    <2> QED BY <1>2, <2>2 DEF IsContent
  <1> QED BY <1>1, <1>2

-----------------------------------------------------------------------------
(* One step, for the process itself.                                       *)

\* A process that ends knows nothing.
LEMMA EndIs ==
    ASSUME NEW p, CallInv(p), call'[p] = call[p],
           pc'[p] = "idle", todo'[p] = <<>>, mem'[p] = NoMem
    PROVE  OfProcess(p)'
  <1>1. ToSet(<<>>) = {}
    BY DEF ToSet
  <1> QED BY <1>1 DEF OfProcess, CallInv, MemInv, PlanInv, Updating, Planned, Replacing, NoMem

\* A step that only moves p, and leaves what its plan rests on.
LEMMA MoveIs ==
    ASSUME NEW p, CallInv(p), MemInv(p), call'[p] = call[p], todo'[p] \in Seq(Files),
           mem'[p].seen = mem[p].seen, mem'[p].plan = mem[p].plan, mem'[p].previous = mem[p].previous,
           mem'[p].replaced = mem[p].replaced,
           pc'[p] \notin Updating \cup {"load"},
           pc'[p] \in Planned \cup {"done"} => pc[p] \in Planned \cup {"done"}
    PROVE  CallInv(p)' /\ MemInv(p)'
  BY DEF CallInv, MemInv, Updating

LEMMA BeginIs ==
    ASSUME Shape, CallsInv, NEW p \in Procs, BeginUpdate(p) \/ BeginRepair(p) \/ BeginMigration(p)
    PROVE  OfProcess(p)' /\ CallsInv' /\ disk' = disk /\ UNCHANGED <<reports, faults>>
  <1>1. Order \in Seq(Files) /\ UpdateOrder \in Seq({"stages", "workflow", "summary"}) /\ UpdateOrder # <<>>
        /\ UpdateOrder \in Seq(Files)
    BY FilesAre DEF UpdateOrder
  <1>2. PICK new, step, files :
            /\ Begin(p, new, step, files) /\ new.threshold \in Nat /\ new.at = calls + 1
            /\ \/ step \in {"hash", "inspect"} /\ files = Order
               \/ step = "read" /\ files = UpdateOrder /\ new.stage \in Stages /\ new.status \in Statuses
    <2>1. CASE BeginUpdate(p)
      <3>1. PICK stage \in Stages, status \in Statuses :
                Begin(p, [NoCall EXCEPT !.kind = "update", !.stage = stage, !.status = status, !.at = calls + 1],
                      "read", UpdateOrder)
        BY <2>1 DEF BeginUpdate
      <3> DEFINE new == [NoCall EXCEPT !.kind = "update", !.stage = stage, !.status = status, !.at = calls + 1]
      <3>2. new.threshold \in Nat /\ new.at = calls + 1 /\ new.stage = stage /\ new.status = status
        BY DEF NoCall
      <3>3. Begin(p, new, "read", UpdateOrder)
        BY <3>1
      <3> HIDE DEF new
      <3> QED BY <3>2, <3>3
    <2>2. CASE BeginRepair(p)
      <3>1. PICK t \in Thresholds :
                Begin(p, [NoCall EXCEPT !.kind = "repair", !.threshold = t, !.at = calls + 1], "hash", Order)
        BY <2>2 DEF BeginRepair
      <3> DEFINE new == [NoCall EXCEPT !.kind = "repair", !.threshold = t, !.at = calls + 1]
      <3>2. t \in Nat
        BY CallsAssumption
      <3>3. new.threshold = t /\ new.at = calls + 1
        BY DEF NoCall
      <3>4. Begin(p, new, "hash", Order)
        BY <3>1
      <3> HIDE DEF new
      <3> QED BY <3>2, <3>3, <3>4
    <2>3. CASE BeginMigration(p)
      <3> DEFINE new == [NoCall EXCEPT !.kind = "migration", !.at = calls + 1]
      <3>1. new.threshold \in Nat /\ new.at = calls + 1
        BY DEF NoCall
      <3>2. Begin(p, new, "inspect", Order)
        BY <2>3 DEF BeginMigration
      <3> HIDE DEF new
      <3> QED BY <3>1, <3>2
    <2> QED BY <2>1, <2>2, <2>3
  <1>a. /\ mem'[p] = NoMem /\ disk' = disk /\ UNCHANGED <<reports, faults>> /\ call'[p] = new
        /\ pc'[p] = step /\ todo'[p] = files /\ calls < MaxCalls /\ calls' = calls + 1
    BY <1>2 DEF Begin, Go, Shape
  <1>3. call'[p].threshold \in Nat /\ call'[p].at \in 0..MaxCalls /\ calls' \in 0..MaxCalls
    <2>1. calls + 1 \in 0..MaxCalls
      BY <1>a, BoundsAssumption DEF CallsInv
    <2> QED BY <1>2, <1>a, <2>1
  <1>4. CallInv(p)'
    BY <1>1, <1>2, <1>a, <1>3, CallsAssumption DEF CallInv, Updating
  <1>5. MemInv(p)'
    <2>1. ToSet(<<>>) = {}
      BY DEF ToSet
    <2> QED BY <1>1, <1>2, <1>a, <2>1 DEF MemInv, Planned, NoMem
  <1>6. PlanInv(p)'
    BY <1>2, <1>a DEF PlanInv, Replacing
  <1> QED BY <1>a, <1>3, <1>4, <1>5, <1>6 DEF OfProcess, CallsInv

LEMMA UpdateIs ==
    ASSUME Shape, DiskInv, NEW p \in Procs, OfProcess(p), Read(p) \/ Truncate(p) \/ Write(p)
    PROVE  OfProcess(p)' /\ DiskInv' /\ calls' = calls /\ UNCHANGED <<reports, faults>>
  <1> DEFINE f == File(p)
  <1>0. /\ pc[p] \in Updating /\ call' = call /\ calls' = calls /\ UNCHANGED <<reports, faults>>
    BY DEF Read, Truncate, Write, Updating
  <1>1. /\ todo[p] \in Seq({"stages", "workflow", "summary"}) /\ todo[p] # <<>> /\ todo[p] \in Seq(Files)
        /\ call[p].stage \in Stages /\ call[p].status \in StageStatuses /\ call[p].at \in Nat
    BY <1>0, BoundsAssumption DEF OfProcess, CallInv, MemInv
  <1>2. /\ f \in {"stages", "workflow", "summary"} /\ f \in Files /\ Tail(todo[p]) \in Seq(Files)
        /\ Tail(todo[p]) \in Seq({"stages", "workflow", "summary"})
        /\ Len(todo[p]) > 1 => Tail(todo[p]) # <<>>
    BY <1>1, TailOf DEF File
  <1> HIDE DEF f
  <1>3. CASE Read(p)
    <2>1. CASE disk[File(p)] = Torn
      <3>1. pc'[p] = "idle" /\ todo'[p] = <<>> /\ mem'[p] = NoMem /\ disk' = disk
        BY <1>3, <2>1 DEF Read, End, Go, Shape
      <3> QED BY <1>0, <3>1, EndIs DEF OfProcess, DiskInv
    <2>2. CASE disk[File(p)] # Torn
      <3>1. /\ pc'[p] = "truncate" /\ todo'[p] = todo[p] /\ disk' = disk
            /\ mem'[p].seen = With(mem[p].seen, f, disk[f]) /\ mem'[p].previous = mem[p].previous
            /\ mem'[p].replaced = mem[p].replaced
        BY <1>3, <2>2 DEF Read, Knows, Go, Shape, NoMem, f
      <3>2. IsContent(f, disk[f])
        <4>1. disk[f] = Torn \/ IsContent(f, disk[f])
          BY <1>2, Zenon DEF DiskInv
        <4> QED BY <2>2, <4>1 DEF f
      <3>3. /\ DOMAIN mem'[p].seen = DOMAIN mem[p].seen \cup {f}
            /\ \A g \in DOMAIN mem'[p].seen : IsContent(g, mem'[p].seen[g])
        BY <3>1, <3>2 DEF With, OfProcess, MemInv
      <3>4. CallInv(p)'
        BY <1>0, <3>1 DEF OfProcess, CallInv, Updating
      <3>5. MemInv(p)'
        BY <1>1, <1>2, <3>1, <3>3 DEF OfProcess, MemInv, Planned, File, f
      <3> QED BY <1>0, <3>1, <3>4, <3>5 DEF OfProcess, PlanInv, Replacing, DiskInv
    <2> QED BY <2>1, <2>2
  <1>4. CASE Truncate(p)
    <2>1. /\ pc[p] = "truncate" /\ pc'[p] = "write" /\ todo'[p] = todo[p] /\ mem' = mem
          /\ disk' = [disk EXCEPT ![f] = Torn]
      BY <1>4 DEF Truncate, Put, Go, Shape, f
    <2>2. CallInv(p)' /\ MemInv(p)'
      BY <1>0, <2>1 DEF OfProcess, CallInv, MemInv, Updating, Planned, File
    <2>3. DiskInv'
      BY <2>1 DEF DiskInv, Shape
    <2> QED BY <1>0, <2>1, <2>2, <2>3 DEF OfProcess, PlanInv, Replacing
  <1>5. CASE Write(p)
    <2>1. /\ pc[p] = "write" /\ disk' = [disk EXCEPT ![f] = After(f, mem[p].seen[f], call[p])]
          /\ \/ pc'[p] = "read" /\ Len(todo[p]) > 1 /\ todo'[p] = Tail(todo[p]) /\ mem'[p] = mem[p]
             \/ pc'[p] = "idle" /\ todo'[p] = <<>> /\ mem'[p] = NoMem
      BY <1>5 DEF Write, Put, Go, End, Shape, f
    <2>2. IsContent(f, mem[p].seen[f])
      BY <2>1 DEF OfProcess, MemInv, f
    <2>3. IsContent(f, After(f, mem[p].seen[f], call[p]))
      <3> DEFINE c == call[p]
      <3>1. c.stage \in Stages /\ c.status \in StageStatuses /\ c.at \in Nat
        BY <1>1
      <3> HIDE DEF c
      <3>2. IsContent(f, After(f, mem[p].seen[f], c))
        BY <1>2, <2>2, <3>1, AfterIs
      <3> QED BY <3>2 DEF c
    <2>4. DiskInv'
      BY <2>1, <2>3 DEF DiskInv, Shape
    <2>5. CASE pc'[p] = "idle"
      BY <1>0, <2>1, <2>4, <2>5, EndIs DEF OfProcess
    <2>6. CASE pc'[p] = "read"
      <3>1. CallInv(p)'
        BY <1>0, <1>2, <2>1, <2>6 DEF OfProcess, CallInv, Updating
      <3>2. MemInv(p)'
        BY <1>0, <1>2, <2>1, <2>6 DEF OfProcess, MemInv, Planned
      <3> QED BY <1>0, <2>4, <2>6, <3>1, <3>2 DEF OfProcess, PlanInv, Replacing
    <2> QED BY <2>1, <2>5, <2>6
  <1> QED BY <1>3, <1>4, <1>5

LEMMA RestOf ==
    ASSUME NEW S, NEW s \in Seq(S)
    PROVE  Len(s) > 1 => s # <<>> /\ Tail(s) \in Seq(S)
  <1>1. Len(<<>>) = 0
    BY EmptySeq
  <1>2. s = <<>> => Len(s) = 0
    BY <1>1, Zenon
  <1> QED BY <1>2, TailOf

\* Hashing, and looking for a second time, keep what p knows.
LEMMA LookIs ==
    ASSUME Shape, NEW p \in Procs, OfProcess(p), RepairInv(p),
           Hash(p) \/ Inspect(p) \/ Check(p) \/ Backup(p) \/ Recheck(p) \/ Confirm(p)
    PROVE  OfProcess(p)' /\ disk' = disk /\ calls' = calls /\ UNCHANGED <<reports, faults>>
  <1>1. disk' = disk /\ calls' = calls /\ call' = call /\ UNCHANGED <<reports, faults>>
    BY DEF Hash, Inspect, Check, Backup, Recheck, Confirm, Compare
  <1>2. \/ pc'[p] = "idle" /\ todo'[p] = <<>> /\ mem'[p] = NoMem
        \/ /\ mem'[p].seen = mem[p].seen /\ mem'[p].plan = mem[p].plan
           /\ mem'[p].previous = mem[p].previous /\ mem'[p].replaced = mem[p].replaced
           /\ \/ pc'[p] = pc[p] /\ todo'[p] = Tail(todo[p]) /\ Len(todo[p]) > 1
              \/ pc'[p] \in {"load", "confirm", "backup", "recheck"} /\ todo'[p] = Order
              \/ pc'[p] = "previous" /\ todo'[p] = ToReplace(p)
              \/ pc'[p] = "lookup" /\ todo'[p] = <<>>
           /\ pc[p] \in {"hash", "inspect", "check", "backup", "recheck", "confirm"}
           /\ pc'[p] \in {"load", "hash"} => pc[p] = "hash"
           /\ pc'[p] \in Planned => pc[p] \in Planned
    <2>1. CASE Hash(p)
      BY <2>1 DEF Hash, Knows, Visited, Go, Shape, NoMem, Planned
    <2>2. CASE Inspect(p)
      BY <2>2 DEF Inspect, Knows, Visited, Go, Shape, NoMem, Planned
    <2>3. CASE Check(p)
      BY <2>3 DEF Check, Compare, Visited, End, Go, Shape, Planned
    <2>4. CASE Backup(p)
      BY <2>4 DEF Backup, Knows, Visited, Go, Shape, NoMem, Planned
    <2>5. CASE Recheck(p)
      BY <2>5 DEF Recheck, Compare, Visited, End, Go, Shape, Planned
    <2>6. CASE Confirm(p)
      BY <2>6 DEF Confirm, Compare, Visited, End, Go, Shape, Planned
    <2> QED BY <2>1, <2>2, <2>3, <2>4, <2>5, <2>6
  <1>3. CASE pc'[p] = "idle"
    <2>1. pc[p] # "idle"
      BY DEF Hash, Inspect, Check, Backup, Recheck, Confirm, Compare
    <2>2. todo'[p] = <<>> /\ mem'[p] = NoMem
      BY <1>2, <1>3, <2>1
    <2> QED BY <1>1, <1>3, <2>2, EndIs DEF OfProcess
  <1>4. CASE pc'[p] # "idle"
    <2>1. todo'[p] \in Seq(Files)
      <3>1. todo[p] \in Seq(Files) /\ Order \in Seq(Files) /\ ToReplace(p) \in Seq(Files) /\ <<>> \in Seq(Files)
        BY FilesAre, ChangedType DEF OfProcess, MemInv, ToReplace
      <3> QED BY <1>2, <1>4, <3>1, RestOf
    <2>2. pc'[p] \notin Updating \cup Replacing \cup {"report", "done"}
      BY <1>2, <1>4 DEF Updating, Replacing
    <2>3. PlanInv(p)'
      BY <2>2 DEF PlanInv
    <2>4. CASE pc'[p] # "load"
      <3>1. CallInv(p)' /\ MemInv(p)'
        BY <1>1, <1>2, <1>4, <2>1, <2>2, <2>4, MoveIs DEF OfProcess
      <3> QED BY <1>1, <2>3, <3>1 DEF OfProcess
    <2>5. CASE pc'[p] = "load"
      <3>1. pc[p] = "hash" /\ todo'[p] = Order
        BY <1>2, <2>5
      <3>2. Files \subseteq ToSet(todo'[p])
        BY <3>1, FilesAre
      <3>3. CallInv(p)'
        BY <1>1, <2>2 DEF OfProcess, CallInv
      <3>4. MemInv(p)'
        BY <1>1, <1>2, <1>4, <2>1, <2>5, <3>2 DEF OfProcess, MemInv, Planned
      <3> QED BY <1>1, <2>3, <3>3, <3>4 DEF OfProcess
    <2> QED BY <2>4, <2>5
  <1> QED BY <1>3, <1>4

LEMMA LoadIs ==
    ASSUME Shape, DiskInv, NEW p \in Procs, OfProcess(p), RepairInv(p), Load(p)
    PROVE  OfProcess(p)' /\ disk' = disk /\ calls' = calls /\ UNCHANGED <<reports, faults>>
  <1> DEFINE f == File(p)
             content == With(mem[p].seen, f, disk[f])
             plan == Repaired(content, call[p].threshold, call[p].at)
  <1>1. /\ pc[p] = "load" /\ disk' = disk /\ others' = others /\ call' = call /\ calls' = calls
        /\ UNCHANGED <<reports, faults>>
        /\ todo[p] \in Seq(Files) /\ todo[p] # <<>>
        /\ \A g \in Mine(p) : g \in ToSet(todo[p]) \/ (g \in DOMAIN mem[p].seen /\ mem[p].seen[g] = disk[g])
        /\ Files \subseteq ToSet(todo[p]) \cup DOMAIN mem[p].seen /\ DOMAIN mem[p].seen \subseteq Files
        /\ mem[p].replaced = <<>> /\ DOMAIN mem[p].previous = {}
    BY DEF Load, history, RepairInv, LoadedInv, TodoInv, Early, OfProcess, MemInv
  <1>2. /\ f \in Files /\ Tail(todo[p]) \in Seq(Files) /\ ToSet(todo[p]) = {f} \cup ToSet(Tail(todo[p]))
        /\ ~(Len(todo[p]) > 1) => ToSet(todo[p]) = {f}
    BY <1>1, TailOf DEF File
  <1>3. /\ DOMAIN content = {f} \cup DOMAIN mem[p].seen /\ content[f] = disk[f]
        /\ \A g \in DOMAIN mem[p].seen : g # f => content[g] = mem[p].seen[g]
    BY DEF With
  <1>4. disk[f] = Torn \/ IsContent(f, disk[f])
    BY <1>2 DEF DiskInv
  <1>5. \A g \in DOMAIN mem[p].seen : IsContent(g, mem[p].seen[g])
    BY DEF OfProcess, MemInv
  <1> HIDE DEF content, plan
  <1>6. CASE disk[File(p)] = Torn
    <2>1. pc'[p] = "idle" /\ todo'[p] = <<>> /\ mem'[p] = NoMem
      BY <1>6 DEF Load, End, Go, Shape
    <2> QED BY <1>1, <2>1, EndIs DEF OfProcess
  <1>7. CASE disk[File(p)] # Torn /\ Len(todo[p]) > 1
    <2>1. /\ pc'[p] = "load" /\ todo'[p] = Tail(todo[p]) /\ mem'[p].seen = content
          /\ mem'[p].replaced = mem[p].replaced /\ mem'[p].previous = mem[p].previous
      BY <1>7 DEF Load, Knows, Go, Shape, NoMem, content
    <2> HIDE DEF f
    <2>2. \A g \in DOMAIN content : IsContent(g, content[g])
      BY <1>3, <1>4, <1>5, <1>7 DEF f
    <2>3. Files \subseteq ToSet(Tail(todo[p])) \cup DOMAIN content /\ DOMAIN content \subseteq Files
      BY <1>1, <1>2, <1>3
    <2>4. MemInv(p)'
      BY <1>1, <1>2, <2>1, <2>2, <2>3 DEF OfProcess, MemInv, Planned
    <2>5. CallInv(p)' /\ PlanInv(p)'
      BY <1>1, <2>1 DEF OfProcess, CallInv, PlanInv, Updating, Replacing
    <2> QED BY <1>1, <2>4, <2>5 DEF OfProcess
  <1>8. CASE disk[File(p)] # Torn /\ ~(Len(todo[p]) > 1)
    <2>1. /\ mem'[p].seen = content /\ mem'[p].plan = plan
          /\ mem'[p].replaced = mem[p].replaced /\ mem'[p].previous = mem[p].previous
          /\ \/ pc'[p] = "done" /\ todo'[p] = <<>> /\ Changed(plan, content) = <<>>
             \/ pc'[p] = "check" /\ todo'[p] = Order
      BY <1>8 DEF Load, Go, Shape, NoMem, plan, content
    <2> HIDE DEF f
    <2>2. DOMAIN content = Files
      BY <1>1, <1>2, <1>3, <1>8
    <2>3. \A g \in Files : IsContent(g, content[g])
      BY <1>3, <1>4, <1>5, <1>8, <2>2 DEF f
    <2>4. \A g \in Mine(p) : content[g] = disk[g]
      BY <1>1, <1>2, <1>3, <1>8
    <2>5. todo'[p] \in Seq(Files) /\ ToSet(mem'[p].replaced) \subseteq Files
      <3>1. ToSet(<<>>) = {} /\ <<>> \in Seq(Files) /\ Order \in Seq(Files)
        BY FilesAre DEF ToSet
      <3> QED BY <1>1, <2>1, <3>1
    <2>6. mem'[p].plan = Repaired(mem'[p].seen, call'[p].threshold, call'[p].at)
      BY <1>1, <2>1 DEF plan
    <2>7. MemInv(p)'
      BY <1>1, <2>1, <2>2, <2>3, <2>5, <2>6 DEF MemInv
    <2>8. CallInv(p)'
      BY <1>1, <2>1 DEF OfProcess, CallInv, Updating
    <2>9. PlanInv(p)'
      <3>1. CASE pc'[p] = "check"
        BY <3>1 DEF PlanInv, Replacing
      <3>2. CASE pc'[p] = "done"
        <4>1. \A g \in Files : plan[g] = content[g]
          BY <2>1, <3>2, ChangedAre
        <4>2. \A g \in Mine(p) : disk'[g] = mem'[p].plan[g]
          BY <1>1, <2>1, <2>4, <4>1 DEF Mine
        <4> QED BY <1>1, <3>2, <4>2 DEF PlanInv, Replacing, Mine
      <3> QED BY <2>1, <3>1, <3>2
    <2> QED BY <1>1, <2>7, <2>8, <2>9 DEF OfProcess
  <1> QED BY <1>6, <1>7, <1>8

LEMMA ReadPreviousIs ==
    ASSUME Shape, DiskInv, NEW p \in Procs, OfProcess(p), RepairInv(p), ReadPrevious(p)
    PROVE  OfProcess(p)' /\ disk' = disk /\ calls' = calls /\ UNCHANGED <<reports, faults>>
  <1> DEFINE f == File(p)
             read == With(mem[p].previous, f, disk[f])
  <1>1. /\ pc[p] = "previous" /\ disk' = disk /\ call' = call /\ calls' = calls /\ UNCHANGED <<reports, faults>>
        /\ mem'[p].previous = read /\ mem'[p].seen = mem[p].seen /\ mem'[p].plan = mem[p].plan
        /\ mem'[p].replaced = mem[p].replaced
        /\ \/ pc'[p] = "previous" /\ todo'[p] = Tail(todo[p]) /\ Len(todo[p]) > 1
           \/ pc'[p] = "compare" /\ todo'[p] = ToReplace(p)
    BY DEF ReadPrevious, Knows, Visited, Go, Shape, NoMem
  <1>2. todo[p] \in Seq(Files) /\ todo[p] # <<>> /\ mem[p].replaced = <<>>
    BY <1>1 DEF RepairInv, TodoInv
  <1>3. f \in Files /\ Tail(todo[p]) \in Seq(Files) /\ ToReplace(p) \in Seq(Files)
    BY <1>2, TailOf, ChangedType DEF File, ToReplace
  <1>4. /\ DOMAIN read = {f} \cup DOMAIN mem[p].previous /\ read[f] = disk[f]
        /\ \A g \in DOMAIN mem[p].previous : g # f => read[g] = mem[p].previous[g]
    BY DEF With
  <1> HIDE DEF f, read
  <1>5. \A g \in DOMAIN read : read[g] = Torn \/ IsContent(g, read[g])
    BY <1>3, <1>4 DEF DiskInv, OfProcess, MemInv
  <1>6. ToReplace(p)' = ToReplace(p) /\ ToSet(<<>>) = {}
    BY <1>1 DEF ToReplace, ToSet
  <1>7. MemInv(p)'
    BY <1>1, <1>3, <1>5 DEF OfProcess, MemInv, Planned
  <1>8. CallInv(p)'
    BY <1>1 DEF OfProcess, CallInv, Updating
  <1>9. PlanInv(p)'
    BY <1>1, <1>2, <1>6 DEF PlanInv, Replacing
  <1> QED BY <1>1, <1>7, <1>8, <1>9 DEF OfProcess

LEMMA TurnIs ==
    ASSUME Shape, NEW p \in Procs, OfProcess(p), RepairInv(p), FaultsInv, CompareOne(p) \/ Fail(p) \/ Report(p) \/ UndoFails(p)
    PROVE  OfProcess(p)' /\ disk' = disk /\ calls' = calls /\ FaultsInv'
  <1>1. /\ pc[p] \in Replacing \cup {"report", "rollback"} /\ disk' = disk /\ others' = others /\ mem' = mem
        /\ call' = call /\ calls' = calls
        /\ \/ pc'[p] \in {"failed", "rollback", "half"} /\ todo'[p] = <<>>
           \/ pc'[p] = "replace" /\ pc[p] = "compare" /\ todo'[p] = todo[p]
           \/ pc'[p] = "done" /\ pc[p] = "report" /\ todo'[p] = <<>>
    <2>1. CASE CompareOne(p)
      BY <2>1 DEF CompareOne, Rollback, Go, Shape, history, Replacing
    <2>2. CASE Fail(p)
      BY <2>2 DEF Fail, Rollback, Go, Shape, history, Replacing
    <2>3. CASE Report(p)
      BY <2>3 DEF Report, Rollback, Go, Shape, history, Replacing
    <2>4. CASE UndoFails(p)
      BY <2>4 DEF UndoFails, Go, Shape, history
    <2> QED BY <2>1, <2>2, <2>3, <2>4
  <1>2. FaultsInv'
    <2>1. CASE Fail(p)
      BY <2>1, BoundsAssumption DEF Fail, FaultsInv
    <2>2. CASE CompareOne(p) \/ Report(p)
      BY <2>2 DEF CompareOne, Report, faults, FaultsInv
    <2>3. CASE UndoFails(p)
      BY <2>3, BoundsAssumption DEF UndoFails, FaultsInv
    <2> QED BY <2>1, <2>2, <2>3
  <1>3. CallInv(p)' /\ MemInv(p)'
    <2>1. todo'[p] \in Seq(Files)
      <3>1. todo[p] \in Seq(Files) /\ <<>> \in Seq(Files)
        BY DEF OfProcess, MemInv
      <3> QED BY <1>1, <3>1
    <2>2. pc'[p] \notin Updating \cup {"load"} /\ pc[p] \in Planned
      BY <1>1 DEF Updating, Planned, Replacing
    <2> QED BY <1>1, <2>1, <2>2, MoveIs DEF OfProcess
  <1>4. PlanInv(p)'
    <2>1. CASE pc'[p] \in {"failed", "rollback", "half"}
      BY <2>1 DEF PlanInv, Replacing
    <2>2. CASE pc'[p] = "replace" /\ pc[p] = "compare" /\ todo'[p] = todo[p]
      BY <1>1, <2>2 DEF OfProcess, PlanInv, ToReplace, Mine, Replacing
    <2>3. CASE pc'[p] = "done" /\ pc[p] = "report"
      <3>1. /\ ToSet(ToReplace(p)) \subseteq ToSet(mem[p].replaced)
            /\ \A f \in Mine(p) : f \in ToSet(mem[p].replaced) => disk[f] = mem[p].plan[f]
        BY <2>3 DEF OfProcess, PlanInv
      <3>2. \A f \in Mine(p) : f \in ToSet(mem[p].replaced) \/ disk[f] = mem[p].seen[f]
        BY <2>3 DEF RepairInv, SeenInv, Planned
      <3>3. \A f \in Files : f \in ToSet(ToReplace(p)) \/ mem[p].plan[f] = mem[p].seen[f]
        BY ChangedAre DEF ToReplace
      <3>4. \A f \in Mine(p) : disk[f] = mem[p].plan[f]
        BY <3>1, <3>2, <3>3 DEF Mine
      <3> QED BY <1>1, <2>3, <3>4 DEF PlanInv, Replacing, Mine
    <2> QED BY <1>1, <2>1, <2>2, <2>3
  <1> QED BY <1>1, <1>2, <1>3, <1>4 DEF OfProcess

\* The plan of p, as files.
LEMMA PlanFiles ==
    ASSUME NEW p, CallInv(p), MemInv(p), pc[p] \in Planned \cup {"done"}
    PROVE  /\ IsProject(mem[p].seen) /\ IsProject(mem[p].plan)
           /\ mem[p].plan = Repaired(mem[p].seen, call[p].threshold, call[p].at)
           /\ call[p].threshold \in Nat /\ call[p].at \in Nat
  <1>1. /\ \A f \in Files : IsContent(f, mem[p].seen[f])
        /\ mem[p].plan = Repaired(mem[p].seen, call[p].threshold, call[p].at)
    BY DEF MemInv
  <1>2. call[p].threshold \in Nat /\ call[p].at \in Nat
    BY BoundsAssumption DEF CallInv
  <1>3. IsProject(mem[p].seen)
    BY <1>1, Contents
  <1> QED BY <1>1, <1>2, <1>3, PlanAgain

LEMMA ReplaceIs ==
    ASSUME Shape, DiskInv, NEW p \in Procs, OfProcess(p), RepairInv(p), Replace(p)
    PROVE  OfProcess(p)' /\ DiskInv' /\ calls' = calls /\ UNCHANGED <<reports, faults>>
  <1> DEFINE f == File(p)
             old == mem[p].replaced
  <1>1. /\ pc[p] = "replace" /\ disk' = [disk EXCEPT ![f] = mem[p].plan[f]] /\ others'[p] = others[p]
        /\ call' = call /\ calls' = calls /\ UNCHANGED <<reports, faults>>
        /\ mem'[p].replaced = Append(old, f) /\ mem'[p].previous = mem[p].previous
        /\ mem'[p].seen = mem[p].seen /\ mem'[p].plan = mem[p].plan
        /\ \/ pc'[p] = "compare" /\ todo'[p] = Tail(todo[p])
           \/ pc'[p] = "report" /\ todo'[p] = <<>> /\ ~(Len(todo[p]) > 1)
    BY DEF Replace, Put, Go, Shape, NoMem
  <1>2. todo[p] \in Seq(Files) /\ todo[p] # <<>> /\ old \in Seq(Files)
    BY <1>1 DEF RepairInv, TodoInv, Replacing
  <1>3. /\ f \in Files /\ Tail(todo[p]) \in Seq(Files) /\ ToSet(todo[p]) = {f} \cup ToSet(Tail(todo[p]))
        /\ ~(Len(todo[p]) > 1) => ToSet(todo[p]) = {f}
    BY <1>2, TailOf DEF File
  <1>4. Append(old, f) \in Seq(Files) /\ ToSet(Append(old, f)) = ToSet(old) \cup {f}
    BY <1>2, <1>3, AppendSet
  <1>5. IsContent(f, mem[p].plan[f])
    <2>1. IsProject(mem[p].plan)
      BY <1>1, PlanFiles DEF OfProcess, Planned
    <2> QED BY <1>3, <2>1, ProjectFiles
  <1>6. ToSet(old) \subseteq Files
    BY DEF OfProcess, MemInv
  <1> HIDE DEF f, old
  <1>7. DiskInv'
    BY <1>1, <1>5 DEF DiskInv, Shape
  <1>8. MemInv(p)'
    <2>1. todo'[p] \in Seq(Files)
      <3>1. <<>> \in Seq(Files)
        OBVIOUS
      <3> QED BY <1>1, <1>3, <3>1
    <2>2. ToSet(mem'[p].replaced) \subseteq Files
      BY <1>1, <1>3, <1>4, <1>6
    <2> QED BY <1>1, <2>1, <2>2 DEF OfProcess, MemInv, Planned
  <1>9. CallInv(p)'
    BY <1>1 DEF OfProcess, CallInv, Updating
  <1>10. PlanInv(p)'
    <2>1. /\ ToSet(ToReplace(p)) \subseteq ToSet(todo[p]) \cup ToSet(old)
          /\ \A g \in Mine(p) : g \in ToSet(old) => disk[g] = mem[p].plan[g]
      BY <1>1 DEF OfProcess, PlanInv, Replacing, old
    <2>2. ToReplace(p)' = ToReplace(p) /\ Mine(p)' = Mine(p)
      BY <1>1 DEF ToReplace, Mine
    <2>3. \A g \in Mine(p) : g \in ToSet(Append(old, f)) => disk'[g] = mem[p].plan[g]
      BY <1>1, <1>4, <2>1 DEF Mine, Shape
    <2>4. CASE pc'[p] = "compare"
      <3>1. ToSet(ToReplace(p)) \subseteq ToSet(Tail(todo[p])) \cup ToSet(Append(old, f))
        BY <1>3, <1>4, <2>1
      <3> QED BY <1>1, <2>2, <2>3, <2>4, <3>1 DEF PlanInv, Replacing
    <2>5. CASE pc'[p] = "report"
      <3>1. ToSet(ToReplace(p)) \subseteq ToSet(Append(old, f))
        BY <1>1, <1>3, <1>4, <2>1, <2>5
      <3> QED BY <1>1, <2>2, <2>3, <2>5, <3>1 DEF PlanInv, Replacing
    <2> QED BY <1>1, <2>4, <2>5
  <1> QED BY <1>1, <1>7, <1>8, <1>9, <1>10 DEF OfProcess

LEMMA UndoIs ==
    ASSUME Shape, DiskInv, NEW p \in Procs, OfProcess(p), RepairInv(p), Undo(p)
    PROVE  OfProcess(p)' /\ DiskInv' /\ calls' = calls /\ UNCHANGED <<reports, faults>>
  <1> DEFINE left == mem[p].replaced
             f == Last(left)
  <1>1. /\ pc[p] = "rollback" /\ disk' = [disk EXCEPT ![f] = mem[p].previous[f]]
        /\ call' = call /\ calls' = calls /\ UNCHANGED <<reports, faults>>
        /\ mem'[p].replaced = Front(left) /\ mem'[p].previous = mem[p].previous
        /\ mem'[p].seen = mem[p].seen /\ mem'[p].plan = mem[p].plan
        /\ pc'[p] \in {"failed", "rollback"} /\ todo'[p] = <<>>
    BY DEF Undo, UndoLast, Put, Go, Shape, NoMem
  <1>2. left \in Seq(Files) /\ left # <<>> /\ ToSet(left) \subseteq DOMAIN mem[p].previous
    BY <1>1 DEF RepairInv, TodoInv
  <1>3. f \in ToSet(left) /\ ToSet(left) = ToSet(Front(left)) \cup {f} /\ ToSet(left) \subseteq Files
    BY <1>2, FrontOf DEF OfProcess, MemInv
  <1>4. mem[p].previous[f] = Torn \/ IsContent(f, mem[p].previous[f])
    BY <1>2, <1>3 DEF OfProcess, MemInv
  <1> HIDE DEF f, left
  <1>5. DiskInv'
    BY <1>1, <1>4 DEF DiskInv, Shape
  <1>6. MemInv(p)'
    <2>1. todo'[p] \in Seq(Files) /\ ToSet(mem'[p].replaced) \subseteq Files
      BY <1>1, <1>3
    <2> QED BY <1>1, <2>1 DEF OfProcess, MemInv, Planned
  <1>7. CallInv(p)' /\ PlanInv(p)'
    BY <1>1 DEF OfProcess, CallInv, PlanInv, Updating, Replacing
  <1> QED BY <1>1, <1>5, <1>6, <1>7 DEF OfProcess

\* The steps of a migration that write no state file, and dying.
LEMMA MigrateIs ==
    ASSUME Shape, NEW p \in Procs, OfProcess(p), FaultsInv,
           Lookup(p) \/ OpenReport(p) \/ WriteReport(p) \/ Record(p) \/ Crash(p)
    PROVE  OfProcess(p)' /\ disk' = disk /\ calls' = calls /\ FaultsInv'
  <1>1. /\ disk' = disk /\ call' = call /\ calls' = calls
        /\ \/ pc'[p] = "idle" /\ todo'[p] = <<>> /\ mem'[p] = NoMem
           \/ /\ pc'[p] \in {"open", "fill", "record"} /\ todo'[p] = <<>>
              /\ mem'[p].seen = mem[p].seen /\ mem'[p].plan = mem[p].plan
              /\ mem'[p].previous = mem[p].previous /\ mem'[p].replaced = mem[p].replaced
    <2>1. CASE Lookup(p)
      BY <2>1 DEF Lookup, End, Go, Shape, NoMem
    <2>2. CASE OpenReport(p)
      BY <2>2 DEF OpenReport, Go, Shape
    <2>3. CASE WriteReport(p)
      BY <2>3 DEF WriteReport, Go, Shape
    <2>4. CASE Record(p)
      BY <2>4 DEF Record, End, Go, Shape
    <2>5. CASE Crash(p)
      BY <2>5 DEF Crash, End, Go, Shape
    <2> QED BY <2>1, <2>2, <2>3, <2>4, <2>5
  <1>2. FaultsInv'
    <2>1. CASE Lookup(p) \/ Record(p)
      BY <2>1 DEF Lookup, Record, faults, FaultsInv
    <2>2. CASE OpenReport(p) \/ WriteReport(p)
      BY <2>2 DEF OpenReport, WriteReport, faults, FaultsInv
    <2>3. CASE Crash(p)
      BY <2>3, BoundsAssumption DEF Crash, FaultsInv
    <2> QED BY <2>1, <2>2, <2>3
  <1>3. CASE pc'[p] = "idle"
    <2>1. todo'[p] = <<>> /\ mem'[p] = NoMem
      BY <1>1, <1>3
    <2> QED BY <1>1, <1>2, <1>3, <2>1, EndIs DEF OfProcess
  <1>4. CASE pc'[p] # "idle"
    <2>1. todo'[p] \in Seq(Files) /\ pc'[p] \notin Updating \cup Planned \cup Replacing \cup {"load", "report", "done"}
      <3>1. pc'[p] \in {"open", "fill", "record"} /\ todo'[p] = <<>>
        BY <1>1, <1>4
      <3>2. <<>> \in Seq(Files)
        OBVIOUS
      <3>3. todo'[p] \in Seq(Files)
        BY <3>1, <3>2
      <3> QED BY <3>1, <3>3 DEF Updating, Planned, Replacing
    <2>2. CallInv(p)' /\ MemInv(p)'
      BY <1>1, <1>4, <2>1, MoveIs DEF OfProcess
    <2> QED BY <1>1, <1>2, <2>1, <2>2 DEF OfProcess, PlanInv
  <1> QED BY <1>3, <1>4

\* A process is disturbed only in what another writes.
LEMMA OthersAre ==
    ASSUME Shape, NEW p \in Procs, NEW q \in Procs, q # p, OfProcess(q),
           Update(p) \/ Repair(p) \/ Migrate(p) \/ Crash(p)
    PROVE  OfProcess(q)'
  <1>1. pc'[q] = pc[q] /\ mem'[q] = mem[q] /\ todo'[q] = todo[q] /\ call'[q] = call[q]
    BY Alone
  <1>2. CallInv(q)' /\ MemInv(q)'
    BY <1>1 DEF OfProcess, CallInv, MemInv, File
  <1>3. ToReplace(q)' = ToReplace(q)
    BY <1>1 DEF ToReplace
  <1>4. \A g \in Mine(q)' : g \in Mine(q) /\ disk'[g] = disk[g]
    <2>1. CASE disk' = disk /\ others'[q] = others[q]
      BY <2>1 DEF Mine
    <2>2. CASE \E f, content : disk' = [disk EXCEPT ![f] = content] /\ others'[q] = others[q] \cup {f}
      BY <2>2 DEF Mine, Shape
    <2> QED BY <2>1, <2>2, ToOthers
  <1>5. PlanInv(q)'
    BY <1>1, <1>3, <1>4 DEF OfProcess, PlanInv
  <1> QED BY <1>2, <1>5 DEF OfProcess

-----------------------------------------------------------------------------
\* The files are a function, of which a step changes one value at most.
Filed == disk = [f \in Files |-> disk[f]]

LEMMA StepIs ==
    ASSUME FilesInv, Filed, NEW p \in Procs, Update(p) \/ Repair(p) \/ Migrate(p) \/ Crash(p)
    PROVE  OfProcess(p)' /\ CallsInv' /\ DiskInv' /\ FaultsInv' /\ Filed'
  <1>1. Shape /\ RepairInv(p) /\ CallsInv /\ DiskInv /\ FaultsInv /\ OfProcess(p)
    BY DEF FilesInv, RestoreInv
  <1>2. disk' = disk => DiskInv' /\ Filed'
    BY <1>1 DEF DiskInv, Filed
  <1>3. UNCHANGED <<reports, faults>> => FaultsInv'
    BY <1>1 DEF FaultsInv, faults
  <1>4. calls' = calls => CallsInv'
    BY <1>1 DEF CallsInv
  <1>5. (\E f, content : disk' = [disk EXCEPT ![f] = content]) => Filed'
    BY <1>1 DEF Filed, Shape
  <1>6. CASE BeginUpdate(p) \/ BeginRepair(p) \/ BeginMigration(p)
    <2>1. OfProcess(p)' /\ CallsInv' /\ disk' = disk /\ UNCHANGED <<reports, faults>>
      BY <1>1, <1>6, BeginIs
    <2> QED BY <1>2, <1>3, <2>1
  <1>7. CASE Read(p) \/ Truncate(p) \/ Write(p)
    <2>1. OfProcess(p)' /\ DiskInv' /\ calls' = calls /\ UNCHANGED <<reports, faults>>
      BY <1>1, <1>7, UpdateIs
    <2>2. disk' = disk \/ \E f, content : disk' = [disk EXCEPT ![f] = content]
      BY <1>7 DEF Read, Truncate, Write, Put
    <2> QED BY <1>2, <1>3, <1>4, <1>5, <2>1, <2>2
  <1>8. CASE Hash(p) \/ Inspect(p) \/ Check(p) \/ Backup(p) \/ Recheck(p) \/ Confirm(p)
    <2>1. OfProcess(p)' /\ disk' = disk /\ calls' = calls /\ UNCHANGED <<reports, faults>>
      BY <1>1, <1>8, LookIs
    <2> QED BY <1>2, <1>3, <1>4, <2>1
  <1>9. CASE Load(p) \/ ReadPrevious(p)
    <2>1. OfProcess(p)' /\ disk' = disk /\ calls' = calls /\ UNCHANGED <<reports, faults>>
      BY <1>1, <1>9, LoadIs, ReadPreviousIs
    <2> QED BY <1>2, <1>3, <1>4, <2>1
  <1>10. CASE CompareOne(p) \/ Fail(p) \/ Report(p) \/ UndoFails(p)
    <2>1. OfProcess(p)' /\ disk' = disk /\ calls' = calls /\ FaultsInv'
      BY <1>1, <1>10, TurnIs
    <2> QED BY <1>2, <1>4, <2>1
  <1>11. CASE Replace(p) \/ Undo(p)
    <2>1. OfProcess(p)' /\ DiskInv' /\ calls' = calls /\ UNCHANGED <<reports, faults>>
      BY <1>1, <1>11, ReplaceIs, UndoIs
    <2>2. \E f, content : disk' = [disk EXCEPT ![f] = content]
      <3>1. CASE Replace(p)
        BY <3>1 DEF Replace, Put
      <3>2. CASE Undo(p)
        BY <3>2 DEF Undo, UndoLast, Put
      <3> QED BY <1>11, <3>1, <3>2
    <2> QED BY <1>3, <1>4, <1>5, <2>1, <2>2
  <1>12. CASE Lookup(p) \/ OpenReport(p) \/ WriteReport(p) \/ Record(p) \/ Crash(p)
    <2>1. OfProcess(p)' /\ disk' = disk /\ calls' = calls /\ FaultsInv'
      BY <1>1, <1>12, MigrateIs
    <2> QED BY <1>2, <1>4, <2>1
  <1> QED BY <1>6, <1>7, <1>8, <1>9, <1>10, <1>11, <1>12 DEF Update, Repair, Migrate

LEMMA InitFiles == Init => FilesInv /\ Filed
  <1> SUFFICES ASSUME Init PROVE FilesInv /\ Filed
    OBVIOUS
  <1>1. RestoreInv
    <2> SUFFICES ASSUME NEW p \in Procs PROVE RepairInv(p)
      BY InitShape DEF RestoreInv
    <2>1. pc[p] = "idle"
      BY DEF Init
    <2> QED BY <2>1 DEF RepairInv, LoadedInv, SeenInv, PreviousInv, TodoInv, KeptInv, HalfInv, BackupInv,
                        Planned, Early, Replacing
  <1>2. DiskInv /\ Filed
    BY LegacyAssumption DEF Init, DiskInv, Filed
  <1>3. CallsInv /\ FaultsInv
    BY BoundsAssumption DEF Init, CallsInv, FaultsInv
  <1>4. ASSUME NEW p \in Procs PROVE OfProcess(p)
    <2>1. pc[p] = "idle" /\ todo[p] = <<>> /\ call[p] = NoCall /\ mem[p] = NoMem
      BY DEF Init
    <2>2. ToSet(<<>>) = {} /\ <<>> \in Seq(Files)
      BY DEF ToSet
    <2>3. CallInv(p)
      BY <2>1, BoundsAssumption DEF CallInv, NoCall, Updating
    <2>4. MemInv(p)
      BY <2>1, <2>2 DEF MemInv, NoMem, Planned
    <2>5. PlanInv(p)
      BY <2>1 DEF PlanInv, Replacing
    <2> QED BY <2>3, <2>4, <2>5 DEF OfProcess
  <1> QED BY <1>1, <1>2, <1>3, <1>4 DEF FilesInv

LEMMA NextFiles == FilesInv /\ Filed /\ [Next]_vars => FilesInv' /\ Filed'
  <1> SUFFICES ASSUME FilesInv, Filed, [Next]_vars PROVE FilesInv' /\ Filed'
    OBVIOUS
  <1>1. CASE UNCHANGED vars
    <2>1. RestoreInv'
      <3>1. Shape'
        BY NextShape DEF FilesInv, RestoreInv
      <3>2. \A q \in Procs : RepairInv(q)'
        BY <1>1, Undisturbed1 DEF vars, history, FilesInv, RestoreInv
      <3> QED BY <3>1, <3>2 DEF RestoreInv
    <2>2. CallsInv' /\ DiskInv' /\ FaultsInv' /\ Filed'
      BY <1>1 DEF vars, faults, FilesInv, CallsInv, DiskInv, FaultsInv, Filed
    <2>3. \A q \in Procs : OfProcess(q)'
      BY <1>1 DEF vars, history, FilesInv, OfProcess, CallInv, MemInv, PlanInv, Mine, ToReplace, File
    <2> QED BY <2>1, <2>2, <2>3 DEF FilesInv
  <1>2. CASE Next
    <2>1. PICK p \in Procs : Update(p) \/ Repair(p) \/ Migrate(p) \/ Crash(p)
      BY <1>2 DEF Next
    <2>2. Shape /\ \A q \in Procs : RepairInv(q) /\ OfProcess(q)
      BY DEF FilesInv, RestoreInv
    <2>3. RestoreInv'
      <3>1. Shape'
        BY <2>1, <2>2, ShapeStep
      <3>2. ASSUME NEW q \in Procs PROVE RepairInv(q)'
        <4>1. CASE q # p
          BY <2>1, <2>2, <4>1, OthersKeep
        <4>2. CASE q = p
          BY <2>1, <2>2, <4>2, NoRepair, RepairKeeps
        <4> QED BY <4>1, <4>2
      <3> QED BY <3>1, <3>2 DEF RestoreInv
    <2>4. OfProcess(p)' /\ CallsInv' /\ DiskInv' /\ FaultsInv' /\ Filed'
      BY <2>1, StepIs
    <2>5. ASSUME NEW q \in Procs, q # p PROVE OfProcess(q)'
      BY <2>1, <2>2, <2>5, OthersAre
    <2> QED BY <2>3, <2>4, <2>5 DEF FilesInv
  <1> QED BY <1>1, <1>2

\* Every file is torn or has the shape its readers expect, and each process has in
\* memory what files of that shape held (the type invariant).
THEOREM FilesTypeOK == Spec => []TypeOK
  <1>1. FilesInv => TypeOK
    <2> SUFFICES ASSUME FilesInv PROVE TypeOK
      OBVIOUS
    <2>1. \A s \in Seq(Files) : ToSet(s) \subseteq Files
      BY LenProperties DEF ToSet
    <2>2. ASSUME NEW p \in Procs
          PROVE  /\ ToSet(todo[p]) \subseteq Files /\ ToSet(mem[p].replaced) \subseteq Files
                 /\ call[p].at \in 0..MaxCalls
      <3>1. todo[p] \in Seq(Files)
        BY DEF FilesInv, OfProcess, MemInv
      <3> QED BY <2>1, <3>1 DEF FilesInv, OfProcess, CallInv, MemInv
    <2> QED BY <2>2 DEF FilesInv, DiskInv, FaultsInv, TypeOK
  <1> QED BY InitFiles, NextFiles, <1>1, PTL DEF Spec

\* What is on disk where a repair ended that nobody disturbed.
LEMMA UndisturbedIs ==
    ASSUME FilesInv, Filed, NEW p \in Procs, Undisturbed(p)
    PROVE  /\ disk = mem[p].plan /\ disk = Repaired(mem[p].seen, call[p].threshold, call[p].at)
           /\ IsProject(mem[p].seen) /\ call[p].threshold \in Nat /\ call[p].at \in Nat
  <1>1. pc[p] = "done" /\ others[p] = {} /\ OfProcess(p)
    BY DEF Undisturbed, FilesInv
  <1>2. /\ IsProject(mem[p].seen) /\ call[p].threshold \in Nat /\ call[p].at \in Nat
        /\ mem[p].plan = Repaired(mem[p].seen, call[p].threshold, call[p].at)
    BY <1>1, PlanFiles DEF OfProcess
  <1>3. mem[p].plan = [rest |-> mem[p].plan.rest, stages |-> mem[p].plan.stages,
                       workflow |-> mem[p].plan.workflow, summary |-> mem[p].plan.summary]
    BY <1>2, PlanAgain
  <1>4. \A f \in Files : disk[f] = mem[p].plan[f]
    BY <1>1 DEF OfProcess, PlanInv, Mine
  <1>5. mem[p].plan = [f \in Files |-> mem[p].plan[f]]
    BY <1>3, FilesAre
  <1>6. disk = mem[p].plan
    BY <1>4, <1>5 DEF Filed
  <1> QED BY <1>2, <1>6

\* The rules of _plan, each applied once, leave nothing for one another, whatever
\* the project: artifacts, lineage, checkpoints and stages of any number and kind.
THEOREM FilesRepairSettles == Spec => []RepairSettles
  <1>1. FilesInv /\ Filed => RepairSettles
    <2> SUFFICES ASSUME FilesInv, Filed, NEW p \in Procs, NEW threshold \in Thresholds,
                        Undisturbed(p), threshold >= call[p].threshold
                 PROVE  Repaired(disk, threshold, call[p].at + 1) = disk
      BY DEF RepairSettles
    <2>1. threshold \in Nat
      BY CallsAssumption
    <2>2. /\ disk = Repaired(mem[p].seen, call[p].threshold, call[p].at)
          /\ IsProject(mem[p].seen) /\ call[p].threshold \in Nat /\ call[p].at \in Nat
      BY UndisturbedIs
    <2> DEFINE seen == mem[p].seen
               t == call[p].threshold
               at == call[p].at
               again == at + 1
               after == Repaired(seen, t, at)
    <2> HIDE DEF seen, t, at, again
    <2>3. IsProject(seen) /\ t \in Nat /\ at \in Nat /\ threshold >= t /\ disk = after
      BY <2>2 DEF seen, t, at
    <2>4. Repaired(after, threshold, again) = after
      BY <2>1, <2>3, PlanAgain
    <2> HIDE DEF after
    <2>5. Repaired(disk, threshold, again) = disk
      BY <2>3, <2>4
    <2> QED BY <2>5 DEF again, at
  <1> QED BY InitFiles, NextFiles, <1>1, PTL DEF Spec

\* Whatever checkpoints a project has, in whatever state.
THEOREM FilesRecoveryPointIsWhole == Spec => []RecoveryPointIsWhole
  <1>1. FilesInv /\ Filed => RecoveryPointIsWhole
    <2> SUFFICES ASSUME FilesInv, Filed, NEW p \in Procs, Undisturbed(p), NEW st \in DOMAIN disk.stages
                 PROVE  LET c == disk.stages[st].lastSuccess
                            unchanged == st \in DOMAIN mem[p].seen.stages /\ c = mem[p].seen.stages[st].lastSuccess
                        IN  unchanged \/ c = NoId
                            \/ /\ disk.rest.registry[c].stage = st
                               /\ disk.rest.registry[c].status = "success"
                               /\ disk.rest.registry[c].recoverable = "yes"
                               /\ Whole(disk.rest, c)
      BY DEF RecoveryPointIsWhole
    <2>1. /\ disk = Repaired(mem[p].seen, call[p].threshold, call[p].at)
          /\ IsProject(mem[p].seen) /\ call[p].threshold \in Nat /\ call[p].at \in Nat
      BY UndisturbedIs
    <2> DEFINE seen == mem[p].seen
               t == call[p].threshold
               at == call[p].at
               after == disk
               c == after.stages[st].lastSuccess
               unchanged == st \in DOMAIN seen.stages /\ c = seen.stages[st].lastSuccess
               recoverable == /\ after.rest.registry[c].stage = st
                              /\ after.rest.registry[c].status = "success"
                              /\ after.rest.registry[c].recoverable = "yes"
                              /\ Whole(after.rest, c)
    <2>2. st \in DOMAIN after.stages
      OBVIOUS
    <2> HIDE DEF seen, t, at, after
    <2>3. IsProject(seen) /\ t \in Nat /\ at \in Nat /\ after = Repaired(seen, t, at)
      BY <2>1 DEF seen, t, at, after
    <2>4. unchanged \/ c = NoId \/ recoverable
      BY <2>2, <2>3, PlanRecovers
    <2> QED BY <2>4 DEF seen, after
  <1> QED BY InitFiles, NextFiles, <1>1, PTL DEF Spec

=============================================================================
