------------------------ MODULE Diagnostics_proofs ------------------------
(***************************************************************************)
(* Theorems about Diagnostics that hold for any files, buffers, plugins    *)
(* and languages, and any number of groups and providers.                  *)
(***************************************************************************)
EXTENDS Diagnostics, FiniteSetTheorems, TLAPS

-----------------------------------------------------------------------------
(* The inductive invariant. *)

(* A group that was removed is not listed again. *)
RemovedForGood == Listed \cap removed = {}

(* A group without providers of its own is flagged while others' reports *)
(* are kept for it.                                                       *)
FlaggedWhileShown ==
  \A g \in Groups \ adapters : shown[g] # {} => g \in flagged

(* Groups and providers get their state when they are made, providers their *)
(* group.                                                                   *)
NothingBeforeMade ==
  /\ \A g \in Groups : g > made => shown[g] = {}
  /\ \A p \in loaded \cup asked : group[p] \in 1..made

DiagnosticsInv ==
  /\ TypeOK
  /\ ListedByTheirFile
  /\ RemovedForGood
  /\ FlaggedWhileShown
  /\ NothingBeforeMade
  /\ NothingForgotten

-----------------------------------------------------------------------------
(* The table. *)

LEMMA GroupForTypes ==
  ASSUME TypeOK, NEW f \in Files, GroupFor(f) <= MaxGroups
  PROVE  /\ GroupFor(f) \in Groups
         /\ byFile[f] = 0 => GroupFor(f) = made + 1
         /\ byFile[f] # 0 => GroupFor(f) = byFile[f] /\ GroupFor(f) \in 1..made
<1>1. byFile[f] \in 0..made /\ made \in Nat /\ MaxGroups \in Nat
  BY DiagnosticsAssumption DEF TypeOK
<1> QED
  BY <1>1 DEF GroupFor, Groups

(* Looking for the group of a file: what is listed stays, and the group *)
(* found, or made, is listed.                                           *)
LEMMA FoundOrMade ==
  ASSUME TypeOK, ListedByTheirFile, RemovedForGood, NEW f \in Files, FindOrMake(f)
  PROVE  /\ GroupFor(f) \in Groups
         /\ made' \in 0..MaxGroups /\ made <= made'
         /\ byFile' \in [Files -> 0..made'] /\ file' \in [Groups -> Files \cup {None}]
         /\ GroupFor(f) \in 1..made'
         /\ Listed' = Listed \cup {GroupFor(f)}
         /\ GroupFor(f) \in Listed \/ GroupFor(f) = made + 1
         /\ ListedByTheirFile'
         /\ GroupFor(f) \notin removed
<1>1. GroupFor(f) \in Groups
  BY GroupForTypes DEF FindOrMake
<1>2. /\ made \in 0..MaxGroups /\ MaxGroups \in Nat /\ byFile \in [Files -> 0..made]
      /\ file \in [Groups -> Files \cup {None}] /\ removed \subseteq 1..made
  BY DiagnosticsAssumption DEF TypeOK
<1>3. /\ byFile[f] = 0 => GroupFor(f) = made + 1
      /\ byFile[f] # 0 => GroupFor(f) = byFile[f] /\ GroupFor(f) \in 1..made
  BY GroupForTypes DEF FindOrMake
<1>4. made' \in 0..MaxGroups /\ made <= made' /\ GroupFor(f) \in 1..made'
  BY <1>1, <1>2, <1>3 DEF FindOrMake, Groups
<1>5. byFile' \in [Files -> 0..made'] /\ file' \in [Groups -> Files \cup {None}]
  BY <1>1, <1>2, <1>4 DEF FindOrMake
<1>6. \A h \in Files : byFile'[h] = IF h = f THEN GroupFor(f) ELSE byFile[h]
  BY <1>2 DEF FindOrMake
<1>7. GroupFor(f) # 0
  BY <1>1 DEF Groups
<1>8. Listed' = Listed \cup {GroupFor(f)}
  BY <1>2, <1>3, <1>6, <1>7 DEF Listed
<1>9. GroupFor(f) \in Listed \/ GroupFor(f) = made + 1
  BY <1>3, <1>7 DEF Listed
<1>10. ListedByTheirFile'
  <2> SUFFICES ASSUME NEW h \in Files, byFile'[h] # 0
               PROVE  file'[byFile'[h]] = h
    BY DEF ListedByTheirFile
  <2>1. CASE h = f
    BY <1>1, <1>2, <1>6, <2>1 DEF FindOrMake
  <2>2. CASE h # f
    <3>1. byFile'[h] = byFile[h] /\ file[byFile[h]] = h
      BY <1>6, <2>2 DEF ListedByTheirFile
    <3>2. byFile[h] \in 1..made /\ byFile[h] \in Groups
      BY <1>2, <1>6, <2>2 DEF Groups
    <3>3. byFile[h] # GroupFor(f)
      <4>1. CASE byFile[f] = 0
        BY <1>2, <1>3, <3>2, <4>1
      <4>2. CASE byFile[f] # 0
        BY <1>3, <2>2, <3>1, <4>2 DEF ListedByTheirFile
      <4> QED
        BY <4>1, <4>2
    <3> QED
      BY <1>2, <3>1, <3>2, <3>3 DEF FindOrMake
  <2> QED
    BY <2>1, <2>2
<1>11. GroupFor(f) \notin removed
  BY <1>2, <1>9 DEF RemovedForGood
<1> QED
  BY <1>1, <1>4, <1>5, <1>8, <1>9, <1>10, <1>11

LEMMA ListedMade == TypeOK => Listed \subseteq 1..made /\ Listed \subseteq Groups
BY DiagnosticsAssumption DEF TypeOK, Listed, Groups

LEMMA OpenHasFile ==
  ASSUME TypeOK, NEW b \in Buffers, b \in Open
  PROVE  fileOf[b] \in Files
BY DEF TypeOK, Open

(* A group that moves to another file. *)
LEMMA MovedGroup ==
  ASSUME TypeOK, ListedByTheirFile, NEW f \in Files, NEW g \in Listed,
         file[g] # f, byFile' = Moved(g, f), file' = [file EXCEPT ![g] = f], made' = made
  PROVE  /\ byFile' \in [Files -> 0..made] /\ file' \in [Groups -> Files \cup {None}]
         /\ Listed' \subseteq Listed
         /\ ListedByTheirFile'
<1>1. g \in 1..made /\ g \in Groups
  BY ListedMade
<1>2. byFile \in [Files -> 0..made] /\ file \in [Groups -> Files \cup {None}]
  BY DEF TypeOK
<1>3. PICK e \in Files : byFile[e] = g
  BY DEF Listed
<1>4. file[g] = e
  BY <1>1, <1>3 DEF ListedByTheirFile
<1>5. \A h \in Files : byFile'[h] = IF h = f THEN g ELSE IF h = e THEN 0 ELSE byFile[h]
  BY <1>2, <1>4 DEF Moved
<1>6. byFile' \in [Files -> 0..made] /\ file' \in [Groups -> Files \cup {None}]
  <2>1. g \in 0..made /\ 0 \in 0..made
    BY <1>1, DiagnosticsAssumption DEF TypeOK
  <2> QED
    BY <1>1, <1>2, <2>1 DEF Moved
<1>7. Listed' \subseteq Listed
  BY <1>5 DEF Listed
<1>8. ListedByTheirFile'
  <2> SUFFICES ASSUME NEW h \in Files, byFile'[h] # 0
               PROVE  file'[byFile'[h]] = h
    BY DEF ListedByTheirFile
  <2>1. CASE h = f
    BY <1>1, <1>2, <1>5, <2>1
  <2>2. CASE h # f
    <3>1. byFile'[h] = byFile[h] /\ h # e /\ file[byFile[h]] = h
      BY <1>5, <2>2 DEF ListedByTheirFile
    <3>2. byFile[h] \in Groups /\ byFile[h] # g
      BY <1>4, <3>1, ListedMade DEF Listed
    <3> QED
      BY <1>2, <3>1, <3>2
  <2> QED
    BY <2>1, <2>2
<1> QED
  BY <1>6, <1>7, <1>8

-----------------------------------------------------------------------------
(* The types. *)

(* Clearing leaves at most what was shown. *)
LEMMA ShownLess ==
  ASSUME TypeOK, NEW ps
  PROVE  /\ ShownWithout(ps) \in [Groups -> SUBSET Providers]
         /\ \A g \in Groups : ShownWithout(ps)[g] \subseteq shown[g]
         /\ \A g \in Groups \cap Listed : ShownWithout(ps)[g] = shown[g] \ ps
BY DEF TypeOK, ShownWithout

(* The sets of groups stay within those that are made. *)
LEMMA MadeGrows ==
  ASSUME TypeOK, made' \in 0..MaxGroups, made <= made'
  PROVE  /\ 1..made \subseteq 1..made' /\ 0..made \subseteq 0..made'
         /\ adapters \subseteq 1..made' /\ reloads \subseteq 1..made'
         /\ needs \subseteq 1..made' /\ flagged \subseteq 1..made'
         /\ removed \subseteq 1..made'
         /\ group \in [Providers -> 0..made']
<1>1. made \in Nat /\ made' \in Nat
  BY DiagnosticsAssumption DEF TypeOK
<1>2. 1..made \subseteq 1..made' /\ 0..made \subseteq 0..made'
  BY <1>1
<1> QED
  BY <1>2 DEF TypeOK

(* The providers that a reload makes get numbers of their own. *)
LEMMA FreshIds ==
  ASSUME TypeOK, NEW fresh, fresh \subseteq Plugins,
         born + Cardinality(fresh) <= MaxProviders,
         NEW q \in fresh
  PROVE  /\ born + Cardinality({r \in fresh : r <= q}) \in (born + 1)..(born + Cardinality(fresh))
         /\ born + Cardinality({r \in fresh : r <= q}) \in Providers
<1> DEFINE upTo == {r \in fresh : r <= q}
<1>1. IsFiniteSet(fresh)
  BY FS_Subset, DiagnosticsAssumption
<1>2. Cardinality(upTo) <= Cardinality(fresh) /\ IsFiniteSet(upTo)
  <2>1. upTo \subseteq fresh
    OBVIOUS
  <2> QED
    BY <1>1, <2>1, FS_Subset
<1>3. Cardinality(upTo) \in Nat /\ Cardinality(fresh) \in Nat
  BY <1>1, <1>2, FS_CardinalityType
<1>4. Cardinality(upTo) # 0
  <2>1. q \in upTo
    BY DiagnosticsAssumption
  <2> QED
    BY <1>2, <2>1, FS_EmptySet
<1>5. born \in Nat /\ MaxProviders \in Nat
  BY DiagnosticsAssumption DEF TypeOK
<1> HIDE DEF upTo
<1>6. /\ born + Cardinality(upTo) \in (born + 1)..(born + Cardinality(fresh))
      /\ born + Cardinality(upTo) \in Providers
  BY <1>2, <1>3, <1>4, <1>5 DEF Providers
<1> QED
  BY <1>6 DEF upTo

-----------------------------------------------------------------------------
(* An answer. *)

(* The groups told of the answer, and the file that gets a new one. *)
Told(p, own, others) == (IF own THEN {group[p]} ELSE {}) \cup {GroupFor(f) : f \in others}
Unlisted(others) == {f \in others : byFile[f] = 0}

LEMMA AnsweredGroups ==
  ASSUME DiagnosticsInv, NEW p \in Providers, NEW own \in BOOLEAN, NEW others \in Elsewhere,
         Answer(p, own, others)
  PROVE  /\ p \in 1..born /\ group[p] \in 1..made /\ group[p] \in Groups
         /\ made' \in 0..MaxGroups /\ made <= made'
         /\ Told(p, own, others) \subseteq 1..made'
         /\ \A f \in others : f \in Files /\ GroupFor(f) \in 1..made' /\ GroupFor(f) # group[p]
         /\ \A f \in Unlisted(others) : /\ made' = made + 1 /\ made + 1 \in Groups
                                       /\ GroupFor(f) = made + 1 /\ others = {f}
         /\ \A f \in others \ Unlisted(others) : GroupFor(f) = byFile[f] /\ byFile[f] # 0
         /\ Unlisted(others) = {} => made' = made
<1>1. /\ made \in 0..MaxGroups /\ MaxGroups \in Nat /\ byFile \in [Files -> 0..made]
      /\ asked \subseteq 1..born /\ born \in 0..MaxProviders /\ MaxProviders \in Nat
  BY DiagnosticsAssumption DEF DiagnosticsInv, TypeOK
<1>2. p \in 1..born /\ p \in asked
  BY <1>1 DEF Answer
<1>3. group[p] \in 1..made /\ group[p] \in Groups
  BY <1>1, <1>2 DEF DiagnosticsInv, NothingBeforeMade, Groups
<1>4. Told(p, own, others) \subseteq Groups /\ file[group[p]] \notin others
  BY DEF Answer, Told
<1>5. /\ made' = IF Unlisted(others) = {} THEN made ELSE made + 1
      /\ \A f \in others : GroupFor(f) = IF byFile[f] = 0 THEN made + 1 ELSE byFile[f]
  BY DEF Answer, Unlisted, GroupFor
<1>6. \A f \in others : f \in Files /\ others = {f}
  BY DEF Elsewhere
<1>7. \A f \in others : GroupFor(f) \in Groups
  BY <1>4 DEF Told
<1>8. \A f \in Unlisted(others) : /\ made' = made + 1 /\ made + 1 \in Groups
                                  /\ GroupFor(f) = made + 1 /\ others = {f}
  BY <1>5, <1>6, <1>7 DEF Unlisted
<1>9. made' \in 0..MaxGroups /\ made <= made'
  <2>1. CASE Unlisted(others) = {}
    BY <1>1, <1>5, <2>1
  <2>2. CASE Unlisted(others) # {}
    BY <1>1, <1>5, <1>8, <2>2 DEF Groups
  <2> QED
    BY <2>1, <2>2
<1>10. \A f \in others \ Unlisted(others) : GroupFor(f) = byFile[f] /\ byFile[f] # 0
  BY <1>5 DEF Unlisted
<1>11. ASSUME NEW f \in others
       PROVE  GroupFor(f) \in 1..made' /\ GroupFor(f) # group[p]
  <2>1. CASE f \in Unlisted(others)
    BY <1>1, <1>3, <1>8, <2>1
  <2>2. CASE f \notin Unlisted(others)
    <3>1. GroupFor(f) = byFile[f] /\ byFile[f] # 0 /\ byFile[f] \in 0..made
      BY <1>1, <1>6, <1>10, <2>2
    <3>2. file[byFile[f]] = f
      BY <1>6, <3>1 DEF DiagnosticsInv, ListedByTheirFile
    <3> QED
      BY <1>1, <1>4, <1>9, <3>1, <3>2
  <2> QED
    BY <2>1, <2>2
<1>12. Told(p, own, others) \subseteq 1..made'
  BY <1>1, <1>3, <1>9, <1>11 DEF Told
<1> QED
  BY <1>2, <1>3, <1>5, <1>6, <1>8, <1>9, <1>10, <1>11, <1>12

(* What an answer does to the table: the group that is done with is not *)
(* listed any more, and only a new group comes to be listed.            *)
LEMMA AnsweredTable ==
  ASSUME DiagnosticsInv, NEW p \in Providers, NEW own \in BOOLEAN, NEW others \in Elsewhere,
         Answer(p, own, others)
  PROVE  /\ byFile' \in [Files -> 0..made'] /\ file' \in [Groups -> Files \cup {None}]
         /\ Listed' \subseteq Listed \cup {made + 1}
         /\ ListedByTheirFile'
         /\ RemovedForGood'
<1> DEFINE g == group[p]
<1> DEFINE done == ~MustDiagnose(g, p) /\ CanDispose(g, flagged \cup Told(p, own, others))
<1>1. /\ made \in Nat /\ made' \in Nat /\ made <= made' /\ byFile \in [Files -> 0..made]
      /\ file \in [Groups -> Files \cup {None}] /\ removed \subseteq 1..made
      /\ g \in 1..made /\ g \in Groups
  BY AnsweredGroups, DiagnosticsAssumption DEF DiagnosticsInv, TypeOK
<1>2. /\ removed' = IF done THEN removed \cup {g} ELSE removed
      /\ byFile' = [f \in Files |-> IF f \in others THEN GroupFor(f)
                                    ELSE IF done /\ f = file[g] THEN 0
                                    ELSE byFile[f]]
      /\ file' = [h \in Groups |-> IF Unlisted(others) # {} /\ h = made + 1
                                   THEN CHOOSE f \in Unlisted(others) : TRUE
                                   ELSE file[h]]
  BY DEF Answer, Told, Unlisted
<1> HIDE DEF done, g
<1>3. byFile' \in [Files -> 0..made']
  <2> SUFFICES ASSUME NEW f \in Files
               PROVE  byFile'[f] \in 0..made'
    BY <1>2
  <2>1. CASE f \in others
    BY <1>1, <1>2, <2>1, AnsweredGroups
  <2>2. CASE f \notin others
    BY <1>1, <1>2, <2>2
  <2> QED
    BY <2>1, <2>2
<1>4. file' \in [Groups -> Files \cup {None}]
  <2>1. Unlisted(others) # {} => (CHOOSE f \in Unlisted(others) : TRUE) \in Files
    BY AnsweredGroups DEF Unlisted
  <2> QED
    BY <1>1, <1>2, <2>1
<1>5. ASSUME NEW f \in Files, byFile'[f] # 0
      PROVE  /\ file'[byFile'[f]] = f
             /\ byFile'[f] \notin removed'
             /\ byFile'[f] \in Listed \cup {made + 1}
  <2>1. CASE f \in Unlisted(others)
    <3>1. /\ byFile'[f] = made + 1 /\ others = {f} /\ made + 1 \in Groups
          /\ Unlisted(others) = {f}
      BY <1>2, <2>1, AnsweredGroups DEF Unlisted
    <3>2. file'[made + 1] = f
      BY <1>2, <3>1
    <3>3. made + 1 \notin removed'
      BY <1>1, <1>2
    <3> QED
      BY <3>1, <3>2, <3>3
  <2>2. CASE f \notin Unlisted(others)
    <3>1. byFile'[f] = byFile[f] /\ byFile[f] # 0
      BY <1>2, <1>5, <2>2, AnsweredGroups
    <3>2. file[byFile[f]] = f /\ byFile[f] \in Listed /\ byFile[f] \in 1..made
      BY <1>1, <3>1 DEF DiagnosticsInv, ListedByTheirFile, Listed
    <3>3. byFile[f] \in Groups /\ byFile[f] # made + 1
      BY <1>1, <3>2, ListedMade DEF DiagnosticsInv
    <3>4. file'[byFile[f]] = f
      BY <1>2, <3>2, <3>3
    <3>5. byFile[f] \notin removed
      BY <3>2 DEF DiagnosticsInv, RemovedForGood
    <3>6. done => byFile[f] # g
      <4> SUFFICES ASSUME done, byFile[f] = g
                   PROVE  FALSE
        OBVIOUS
      <4>1. f \in others
        BY <1>2, <3>1, <3>2
      <4> QED
        BY <3>1, <4>1, <2>2, AnsweredGroups DEF g
    <3> QED
      BY <1>2, <3>1, <3>2, <3>4, <3>5, <3>6
  <2> QED
    BY <2>1, <2>2
<1>6. ListedByTheirFile'
  BY <1>5 DEF ListedByTheirFile
<1>7. Listed' \subseteq Listed \cup {made + 1} /\ RemovedForGood'
  BY <1>5 DEF Listed, RemovedForGood
<1> QED
  BY <1>3, <1>4, <1>6, <1>7

-----------------------------------------------------------------------------
(* Every step keeps the parts of the invariant. *)

LEMMA TypesStep ==
  ASSUME DiagnosticsInv, [Next]_vars
  PROVE  TypeOK'
<1>1. ASSUME NEW b \in Buffers, NEW f \in Files, NEW m \in Languages, BufferLoaded(b, f, m)
      PROVE  TypeOK'
  <2>1. /\ f \in Files /\ GroupFor(f) \in Groups /\ GroupFor(f) \in 1..made'
        /\ made' \in 0..MaxGroups /\ made <= made'
        /\ byFile' \in [Files -> 0..made'] /\ file' \in [Groups -> Files \cup {None}]
    BY <1>1, OpenHasFile, FoundOrMade DEF DiagnosticsInv, BufferLoaded
  <2>2. m \subseteq Plugins
    BY DiagnosticsAssumption
  <2> QED
    BY <1>1, <2>1, <2>2, MadeGrows DEF DiagnosticsInv, TypeOK, Running, BufferLoaded, Queue, providerVars
<1>2. ASSUME NEW b \in Buffers, BufferUnloaded(b)
      PROVE  TypeOK'
  <2>1. /\ fileOf[b] \in Files /\ GroupFor(fileOf[b]) \in Groups /\ GroupFor(fileOf[b]) \in 1..made'
        /\ made' \in 0..MaxGroups /\ made <= made'
        /\ byFile' \in [Files -> 0..made'] /\ file' \in [Groups -> Files \cup {None}]
    BY <1>2, OpenHasFile, FoundOrMade DEF DiagnosticsInv, BufferUnloaded
  <2>2. ShownWithout(Extensions(GroupFor(fileOf[b]))) \in [Groups -> SUBSET Providers]
    BY ShownLess DEF DiagnosticsInv
  <2> QED
    BY <1>2, <2>1, <2>2, MadeGrows DEF DiagnosticsInv, TypeOK, Running, BufferUnloaded, providerVars
<1>3. ASSUME NEW b \in Buffers, BufferChanged(b)
      PROVE  TypeOK'
  <2>1. /\ fileOf[b] \in Files /\ GroupFor(fileOf[b]) \in Groups /\ GroupFor(fileOf[b]) \in 1..made'
        /\ made' \in 0..MaxGroups /\ made <= made'
        /\ byFile' \in [Files -> 0..made'] /\ file' \in [Groups -> Files \cup {None}]
    BY <1>3, OpenHasFile, FoundOrMade DEF DiagnosticsInv, BufferChanged
  <2> QED
    BY <1>3, <2>1, MadeGrows DEF DiagnosticsInv, TypeOK, Running, BufferChanged, Queue, adapterVars, providerVars
<1>4. ASSUME NEW b \in Buffers, NEW m \in Languages, BufferLanguage(b, m)
      PROVE  TypeOK'
  <2>1. /\ fileOf[b] \in Files /\ GroupFor(fileOf[b]) \in Groups /\ GroupFor(fileOf[b]) \in 1..made'
        /\ made' \in 0..MaxGroups /\ made <= made'
        /\ byFile' \in [Files -> 0..made'] /\ file' \in [Groups -> Files \cup {None}]
    BY <1>4, OpenHasFile, FoundOrMade DEF DiagnosticsInv, BufferLanguage
  <2>2. m \subseteq Plugins
    BY DiagnosticsAssumption
  <2>3. value' \in [Groups -> SUBSET Plugins]
    BY <1>4, <2>1, <2>2 DEF DiagnosticsInv, TypeOK, Running, BufferLanguage
  <2>4. reloads' \subseteq reloads \cup {GroupFor(fileOf[b])}
    BY <1>4 DEF BufferLanguage
  <2> QED
    BY <1>4, <2>1, <2>3, <2>4, MadeGrows DEF DiagnosticsInv, TypeOK, Running, BufferLanguage, adapterVars, providerVars
<1>5. ASSUME NEW b \in Buffers, NEW f \in Files, BufferSavedAs(b, f)
      PROVE  TypeOK'
  <2>1. /\ byFile' \in [Files -> 0..made] /\ file' \in [Groups -> Files \cup {None}]
        /\ made' = made
    <3>1. CASE UNCHANGED <<byFile, file>>
      BY <1>5, <3>1 DEF DiagnosticsInv, TypeOK, BufferSavedAs
    <3>2. CASE \E g \in Listed : /\ file[g] # f /\ byFile' = Moved(g, f)
                                 /\ file' = [file EXCEPT ![g] = f]
      BY <1>5, <3>2, MovedGroup DEF DiagnosticsInv, BufferSavedAs
    <3> QED
      BY <1>5, <3>1, <3>2 DEF BufferSavedAs
  <2>2. fileOf' \in [Buffers -> Files \cup {None}]
    BY <1>5 DEF DiagnosticsInv, TypeOK, Running, BufferSavedAs
  <2> QED
    BY <1>5, <2>1, <2>2 DEF DiagnosticsInv, TypeOK, Running, BufferSavedAs, adapterVars, providerVars
<1>6. ASSUME NEW g \in Groups, Reload(g)
      PROVE  TypeOK'
  <2> DEFINE gone  == Mismatched(g)
             fresh == NewlyMatched(g)
             Id(q) == born + Cardinality({r \in fresh : r <= q})
             ids   == {Id(q) : q \in fresh}
  <2>1. /\ g \in 1..made /\ fresh \subseteq Plugins /\ born + Cardinality(fresh) <= MaxProviders
        /\ born \in Nat /\ MaxProviders \in Nat /\ Cardinality(fresh) \in Nat
    <3>1. fresh \subseteq Plugins
      BY DEF DiagnosticsInv, TypeOK, NewlyMatched
    <3>2. Cardinality(fresh) \in Nat
      BY <3>1, FS_Subset, FS_CardinalityType, DiagnosticsAssumption
    <3> QED
      <4>1. g \in reloads /\ born + Cardinality(fresh) <= MaxProviders
        BY <1>6 DEF Reload
      <4> HIDE DEF fresh
      <4> QED
        BY <3>1, <3>2, <4>1, DiagnosticsAssumption DEF DiagnosticsInv, TypeOK
  <2>2. ids \subseteq (born + 1)..(born + Cardinality(fresh)) /\ ids \subseteq Providers
    BY <2>1, FreshIds DEF DiagnosticsInv
  <2>3. /\ made' = made /\ byFile' = byFile /\ file' = file
        /\ reloads' = reloads \ {g} /\ born' = born + Cardinality(fresh)
        /\ group' = [p \in Providers |-> IF p \in ids THEN g ELSE group[p]]
        /\ plugin' = [p \in Providers |-> IF p \in ids THEN CHOOSE q \in fresh : Id(q) = p
                                                      ELSE plugin[p]]
        /\ loaded' = (loaded \ gone) \cup ids
        /\ shown' = ShownWithout(gone)
        /\ needs' \subseteq needs \cup {g} /\ timer' \in BOOLEAN
    BY <1>6 DEF Reload, Queue, tableVars, DiagnosticsInv, TypeOK
  <2> HIDE DEF gone, fresh, Id, ids
  <2>4. shown' \in [Groups -> SUBSET Providers]
    BY <2>3, ShownLess DEF DiagnosticsInv
  <2>5. born' \in 0..MaxProviders /\ loaded' \subseteq 1..born' /\ asked \subseteq 1..born'
    <3>1. loaded \subseteq 1..born /\ asked \subseteq 1..born /\ 1..born \subseteq 1..born'
      BY <2>1, <2>3 DEF DiagnosticsInv, TypeOK
    <3>2. ids \subseteq 1..born'
      BY <2>1, <2>2, <2>3
    <3>3. born' \in 0..MaxProviders
      BY <2>1, <2>3
    <3>4. loaded' \subseteq loaded \cup ids
      BY <2>3
    <3> QED
      BY <3>1, <3>2, <3>3, <3>4
  <2>6. group' \in [Providers -> 0..made]
    <3>1. g \in 0..made /\ group \in [Providers -> 0..made]
      BY <2>1, DiagnosticsAssumption DEF DiagnosticsInv, TypeOK
    <3> QED
      BY <2>3, <3>1
  <2>7. plugin' \in [Providers -> Plugins \cup {0}]
    <3>1. \A p \in ids : (CHOOSE q \in fresh : Id(q) = p) \in Plugins
      BY <2>1 DEF ids
    <3> QED
      BY <2>3, <3>1 DEF DiagnosticsInv, TypeOK
  <2> QED
    BY <1>6, <2>1, <2>3, <2>4, <2>5, <2>6, <2>7 DEF DiagnosticsInv, TypeOK, Running, Reload
<1>7. ASSUME NEW p \in Providers, ProviderInvalidated(p)
      PROVE  TypeOK'
  <2>1. group[p] \in 1..made
    BY <1>7 DEF DiagnosticsInv, TypeOK, NothingBeforeMade, ProviderInvalidated
  <2> QED
    BY <1>7, <2>1 DEF DiagnosticsInv, TypeOK, Running, ProviderInvalidated, Queue, tableVars, adapterVars,
                     providerVars
<1>8. ASSUME NEW p \in Providers, NEW own \in BOOLEAN, NEW others \in Elsewhere, Answer(p, own, others)
      PROVE  TypeOK'
  <2>1. /\ made' \in 0..MaxGroups /\ made <= made' /\ Told(p, own, others) \subseteq 1..made'
        /\ p \in 1..born /\ group[p] \in 1..made
        /\ byFile' \in [Files -> 0..made'] /\ file' \in [Groups -> Files \cup {None}]
    BY <1>8, AnsweredGroups, AnsweredTable
  <2>2. /\ shown' = [h \in Groups |-> ShownWithout({p})[h]
                                      \cup {q \in {p} : h \in Told(p, own, others)}]
        /\ flagged' = flagged \cup Told(p, own, others)
        /\ asked' = asked \ {p} /\ removed' \subseteq removed \cup {group[p]}
        /\ timer' = (timer \/ MustDiagnose(group[p], p))
    BY <1>8 DEF Answer, Told
  <2>3. shown' \in [Groups -> SUBSET Providers]
    BY <2>2, ShownLess DEF DiagnosticsInv
  <2>4. group[p] \in 1..made'
    BY <2>1, MadeGrows DEF DiagnosticsInv
  <2> QED
    BY <1>8, <2>1, <2>2, <2>3, <2>4, MadeGrows DEF DiagnosticsInv, TypeOK, Running, Answer, MustDiagnose,
                     adapterVars, providerVars
<1>9. CASE BeginDiagnose
  BY <1>9 DEF DiagnosticsInv, TypeOK, Running, BeginDiagnose, tableVars, adapterVars, providerVars
<1>10. CASE UNCHANGED vars
  BY <1>10 DEF DiagnosticsInv, TypeOK, vars, tableVars, adapterVars, providerVars
<1>11. CASE (\E g \in Groups : ReloadUnlisted(g)) \/ ReloadDisposed
  BY <1>11 DEF DiagnosticsInv, TypeOK, ReloadUnlisted, ReloadDisposed, tableVars,
               adapterVars, providerVars
<1> QED
  BY <1>1, <1>2, <1>3, <1>4, <1>5, <1>6, <1>7, <1>8, <1>9, <1>10, <1>11 DEF Next, Answers

LEMMA TableStep ==
  ASSUME DiagnosticsInv, [Next]_vars
  PROVE  ListedByTheirFile' /\ RemovedForGood'
<1>1. ASSUME NEW b \in Buffers, NEW f \in Files, NEW m \in Languages, BufferLoaded(b, f, m)
      PROVE  ListedByTheirFile' /\ RemovedForGood'
  <2>1. /\ Listed' = Listed \cup {GroupFor(f)} /\ ListedByTheirFile'
        /\ GroupFor(f) \notin removed /\ removed' = removed
    BY <1>1, OpenHasFile, FoundOrMade DEF DiagnosticsInv, BufferLoaded
  <2> QED
    BY <2>1 DEF DiagnosticsInv, RemovedForGood
<1>2. ASSUME NEW b \in Buffers, BufferUnloaded(b)
      PROVE  ListedByTheirFile' /\ RemovedForGood'
  <2>1. /\ Listed' = Listed \cup {GroupFor(fileOf[b])} /\ ListedByTheirFile'
        /\ GroupFor(fileOf[b]) \notin removed /\ removed' = removed
    BY <1>2, OpenHasFile, FoundOrMade DEF DiagnosticsInv, BufferUnloaded
  <2> QED
    BY <2>1 DEF DiagnosticsInv, RemovedForGood
<1>3. ASSUME NEW b \in Buffers, BufferChanged(b)
      PROVE  ListedByTheirFile' /\ RemovedForGood'
  <2>1. /\ Listed' = Listed \cup {GroupFor(fileOf[b])} /\ ListedByTheirFile'
        /\ GroupFor(fileOf[b]) \notin removed /\ removed' = removed
    BY <1>3, OpenHasFile, FoundOrMade DEF DiagnosticsInv, BufferChanged
  <2> QED
    BY <2>1 DEF DiagnosticsInv, RemovedForGood
<1>4. ASSUME NEW b \in Buffers, NEW m \in Languages, BufferLanguage(b, m)
      PROVE  ListedByTheirFile' /\ RemovedForGood'
  <2>1. /\ Listed' = Listed \cup {GroupFor(fileOf[b])} /\ ListedByTheirFile'
        /\ GroupFor(fileOf[b]) \notin removed /\ removed' = removed
    BY <1>4, OpenHasFile, FoundOrMade DEF DiagnosticsInv, BufferLanguage
  <2> QED
    BY <2>1 DEF DiagnosticsInv, RemovedForGood
<1>5. ASSUME NEW b \in Buffers, NEW f \in Files, BufferSavedAs(b, f)
      PROVE  ListedByTheirFile' /\ RemovedForGood'
  <2>1. CASE UNCHANGED <<byFile, file>>
    BY <1>5, <2>1 DEF DiagnosticsInv, ListedByTheirFile, RemovedForGood, Listed, BufferSavedAs
  <2>2. CASE \E g \in Listed : /\ file[g] # f /\ byFile' = Moved(g, f)
                               /\ file' = [file EXCEPT ![g] = f]
    <3>1. Listed' \subseteq Listed /\ ListedByTheirFile' /\ removed' = removed
      BY <1>5, <2>2, MovedGroup DEF DiagnosticsInv, BufferSavedAs
    <3> QED
      BY <3>1 DEF DiagnosticsInv, RemovedForGood
  <2> QED
    BY <1>5, <2>1, <2>2 DEF BufferSavedAs
<1>6. ASSUME NEW g \in Groups, Reload(g)
      PROVE  ListedByTheirFile' /\ RemovedForGood'
  BY <1>6 DEF DiagnosticsInv, ListedByTheirFile, RemovedForGood, Listed, Reload, tableVars
<1>7. ASSUME NEW p \in Providers, ProviderInvalidated(p)
      PROVE  ListedByTheirFile' /\ RemovedForGood'
  BY <1>7 DEF DiagnosticsInv, ListedByTheirFile, RemovedForGood, Listed, ProviderInvalidated, tableVars
<1>8. ASSUME NEW p \in Providers, NEW own \in BOOLEAN, NEW others \in Elsewhere, Answer(p, own, others)
      PROVE  ListedByTheirFile' /\ RemovedForGood'
  BY <1>8, AnsweredTable
<1>9. CASE BeginDiagnose
  BY <1>9 DEF DiagnosticsInv, ListedByTheirFile, RemovedForGood, Listed, BeginDiagnose, tableVars
<1>10. CASE UNCHANGED vars
  BY <1>10 DEF DiagnosticsInv, ListedByTheirFile, RemovedForGood, Listed, vars, tableVars
<1>11. CASE (\E g \in Groups : ReloadUnlisted(g)) \/ ReloadDisposed
  BY <1>11 DEF DiagnosticsInv, ListedByTheirFile, RemovedForGood, Listed, ReloadUnlisted, ReloadDisposed, tableVars,
               adapterVars, providerVars
<1> QED
  BY <1>1, <1>2, <1>3, <1>4, <1>5, <1>6, <1>7, <1>8, <1>9, <1>10, <1>11 DEF Next, Answers

LEMMA FlagsStep ==
  ASSUME DiagnosticsInv, [Next]_vars
  PROVE  FlaggedWhileShown' /\ NothingBeforeMade'
<1>1. ASSUME NEW b \in Buffers, NEW f \in Files, NEW m \in Languages, BufferLoaded(b, f, m)
      PROVE  FlaggedWhileShown' /\ NothingBeforeMade'
  <2>1. made <= made' /\ 1..made \subseteq 1..made' /\ made \in Nat /\ made' \in Nat
    BY <1>1, OpenHasFile, FoundOrMade, MadeGrows, DiagnosticsAssumption DEF DiagnosticsInv, TypeOK, BufferLoaded
  <2> QED
    BY <1>1, <2>1 DEF DiagnosticsInv, FlaggedWhileShown, NothingBeforeMade, BufferLoaded, providerVars, Groups
<1>2. ASSUME NEW b \in Buffers, BufferUnloaded(b)
      PROVE  FlaggedWhileShown' /\ NothingBeforeMade'
  <2>1. made <= made' /\ 1..made \subseteq 1..made' /\ made \in Nat /\ made' \in Nat
    BY <1>2, OpenHasFile, FoundOrMade, MadeGrows, DiagnosticsAssumption DEF DiagnosticsInv, TypeOK, BufferUnloaded
  <2>2. \A g \in Groups : shown'[g] \subseteq shown[g]
    BY <1>2, ShownLess DEF DiagnosticsInv, BufferUnloaded
  <2>3. ASSUME NEW g \in Groups, g \notin adapters', shown'[g] # {}
        PROVE  g \in flagged'
    <3>1. shown[g] # {}
      BY <2>2, <2>3
    <3> QED
      BY <1>2, <2>3, <3>1 DEF DiagnosticsInv, FlaggedWhileShown, BufferUnloaded, HasDiagnostics
  <2>4. NothingBeforeMade'
    BY <1>2, <2>1, <2>2 DEF DiagnosticsInv, NothingBeforeMade, BufferUnloaded, providerVars, Groups
  <2> QED
    BY <2>3, <2>4 DEF FlaggedWhileShown
<1>3. ASSUME NEW b \in Buffers, BufferChanged(b)
      PROVE  FlaggedWhileShown' /\ NothingBeforeMade'
  <2>1. made <= made' /\ 1..made \subseteq 1..made' /\ made \in Nat /\ made' \in Nat
    BY <1>3, OpenHasFile, FoundOrMade, MadeGrows, DiagnosticsAssumption DEF DiagnosticsInv, TypeOK, BufferChanged
  <2> QED
    BY <1>3, <2>1 DEF DiagnosticsInv, FlaggedWhileShown, NothingBeforeMade, BufferChanged, providerVars, Groups,
                     adapterVars
<1>4. ASSUME NEW b \in Buffers, NEW m \in Languages, BufferLanguage(b, m)
      PROVE  FlaggedWhileShown' /\ NothingBeforeMade'
  <2>1. made <= made' /\ 1..made \subseteq 1..made' /\ made \in Nat /\ made' \in Nat
    BY <1>4, OpenHasFile, FoundOrMade, MadeGrows, DiagnosticsAssumption DEF DiagnosticsInv, TypeOK, BufferLanguage
  <2> QED
    BY <1>4, <2>1 DEF DiagnosticsInv, FlaggedWhileShown, NothingBeforeMade, BufferLanguage, providerVars, Groups
<1>5. ASSUME NEW b \in Buffers, NEW f \in Files, BufferSavedAs(b, f)
      PROVE  FlaggedWhileShown' /\ NothingBeforeMade'
  BY <1>5 DEF DiagnosticsInv, FlaggedWhileShown, NothingBeforeMade, BufferSavedAs, providerVars,
           adapterVars
<1>6. ASSUME NEW g \in Groups, Reload(g)
      PROVE  FlaggedWhileShown' /\ NothingBeforeMade'
  <2> DEFINE gone  == Mismatched(g)
             fresh == NewlyMatched(g)
             Id(q) == born + Cardinality({r \in fresh : r <= q})
             ids   == {Id(q) : q \in fresh}
  <2>1. /\ g \in 1..made /\ fresh \subseteq Plugins /\ born + Cardinality(fresh) <= MaxProviders
        /\ born \in Nat /\ MaxProviders \in Nat /\ Cardinality(fresh) \in Nat
    <3>1. fresh \subseteq Plugins
      BY DEF DiagnosticsInv, TypeOK, NewlyMatched
    <3>2. Cardinality(fresh) \in Nat
      BY <3>1, FS_Subset, FS_CardinalityType, DiagnosticsAssumption
    <3> QED
      <4>1. g \in reloads /\ born + Cardinality(fresh) <= MaxProviders
        BY <1>6 DEF Reload
      <4> HIDE DEF fresh
      <4> QED
        BY <3>1, <3>2, <4>1, DiagnosticsAssumption DEF DiagnosticsInv, TypeOK
  <2>2. ids \subseteq (born + 1)..(born + Cardinality(fresh))
    BY <2>1, FreshIds DEF DiagnosticsInv
  <2>3. /\ made' = made /\ adapters' = adapters /\ flagged' = flagged
        /\ born' = born + Cardinality(fresh)
        /\ group' = [p \in Providers |-> IF p \in ids THEN g ELSE group[p]]
        /\ shown' = ShownWithout(gone)
    BY <1>6 DEF Reload, tableVars
  <2> HIDE DEF gone, fresh, Id
  <2>4. \A h \in Groups : shown'[h] \subseteq shown[h]
    BY <2>3, ShownLess DEF DiagnosticsInv
  <2>5. FlaggedWhileShown'
    BY <2>3, <2>4 DEF DiagnosticsInv, FlaggedWhileShown
  <2>6. ASSUME NEW p \in loaded' \cup asked'
        PROVE  group'[p] \in 1..made
    <3>1. loaded \cup asked \subseteq 1..born /\ MaxProviders \in Nat /\ born \in 0..MaxProviders
      BY <2>1 DEF DiagnosticsInv, TypeOK
    <3>2. CASE p \in ids
      BY <2>1, <2>2, <2>3, <3>1, <3>2 DEF Providers
    <3>3. CASE p \notin ids
      <4>1. p \in loaded \cup asked
        BY <1>6, <3>3 DEF Reload, gone, fresh, Id
      <4>2. p \in Providers
        BY <3>1, <4>1 DEF Providers
      <4> QED
        BY <2>3, <3>3, <4>1, <4>2 DEF DiagnosticsInv, NothingBeforeMade
    <3> QED
      BY <3>2, <3>3
  <2>7. NothingBeforeMade'
    BY <2>3, <2>4, <2>6 DEF DiagnosticsInv, NothingBeforeMade
  <2> QED
    BY <2>5, <2>7
<1>7. ASSUME NEW p \in Providers, ProviderInvalidated(p)
      PROVE  FlaggedWhileShown' /\ NothingBeforeMade'
  BY <1>7 DEF DiagnosticsInv, FlaggedWhileShown, NothingBeforeMade, ProviderInvalidated, providerVars,
           adapterVars, tableVars
<1>8. ASSUME NEW p \in Providers, NEW own \in BOOLEAN, NEW others \in Elsewhere, Answer(p, own, others)
      PROVE  FlaggedWhileShown' /\ NothingBeforeMade'
  <2>1. /\ made \in Nat /\ made' \in Nat /\ made <= made' /\ Told(p, own, others) \subseteq 1..made'
    BY <1>8, AnsweredGroups, DiagnosticsAssumption DEF DiagnosticsInv, TypeOK
  <2>2. /\ shown' = [h \in Groups |-> ShownWithout({p})[h]
                                      \cup {q \in {p} : h \in Told(p, own, others)}]
        /\ flagged' = flagged \cup Told(p, own, others)
        /\ adapters' = adapters /\ born' = born /\ group' = group
    BY <1>8 DEF Answer, Told, adapterVars, providerVars
  <2>3. \A h \in Groups : shown'[h] # {} => shown[h] # {} \/ h \in Told(p, own, others)
    BY <2>2, ShownLess DEF DiagnosticsInv
  <2> QED
    <3>1. FlaggedWhileShown'
      BY <2>2, <2>3 DEF DiagnosticsInv, FlaggedWhileShown
    <3>2. \A h \in Groups : h > made' => h > made /\ h \notin Told(p, own, others)
      BY <2>1 DEF Groups
    <3>3. asked' \subseteq asked /\ loaded' = loaded
      BY <1>8 DEF Answer
    <3>4. \A h \in Groups : h > made' => shown'[h] = {}
      BY <2>3, <3>2 DEF DiagnosticsInv, NothingBeforeMade
    <3>5. \A r \in loaded' \cup asked' : group'[r] \in 1..made'
      BY <2>1, <2>2, <3>3 DEF DiagnosticsInv, NothingBeforeMade
    <3> QED
      BY <3>1, <3>4, <3>5 DEF NothingBeforeMade
<1>9. CASE BeginDiagnose
  BY <1>9 DEF DiagnosticsInv, FlaggedWhileShown, NothingBeforeMade, BeginDiagnose, providerVars,
           adapterVars, tableVars
<1>10. CASE UNCHANGED vars
  BY <1>10 DEF DiagnosticsInv, FlaggedWhileShown, NothingBeforeMade, vars, tableVars, adapterVars,
               providerVars
<1>11. CASE (\E g \in Groups : ReloadUnlisted(g)) \/ ReloadDisposed
  BY <1>11 DEF DiagnosticsInv, FlaggedWhileShown, NothingBeforeMade, ReloadUnlisted, ReloadDisposed, tableVars,
               adapterVars, providerVars
<1> QED
  BY <1>1, <1>2, <1>3, <1>4, <1>5, <1>6, <1>7, <1>8, <1>9, <1>10, <1>11 DEF Next, Answers

LEMMA NeverYet == TypeOK => made + 1 \notin needs
BY DiagnosticsAssumption DEF TypeOK

LEMMA ForgottenStep ==
  ASSUME DiagnosticsInv, [Next]_vars
  PROVE  NothingForgotten'
<1>1. ASSUME NEW b \in Buffers, NEW f \in Files, NEW m \in Languages, BufferLoaded(b, f, m)
      PROVE  NothingForgotten'
  <2>1. /\ Listed' = Listed \cup {GroupFor(f)} /\ asked' = asked /\ group' = group
        /\ GroupFor(f) \in Listed \/ GroupFor(f) = made + 1
        /\ made + 1 \notin needs
    BY <1>1, OpenHasFile, FoundOrMade, NeverYet DEF DiagnosticsInv, BufferLoaded, providerVars
  <2> QED
    BY <1>1, <2>1 DEF DiagnosticsInv, NothingForgotten, InDiagnose, BufferLoaded, Queue
<1>2. ASSUME NEW b \in Buffers, BufferUnloaded(b)
      PROVE  NothingForgotten'
  <2>1. /\ Listed' = Listed \cup {GroupFor(fileOf[b])} /\ asked' = asked /\ group' = group
        /\ GroupFor(fileOf[b]) \in Listed \/ GroupFor(fileOf[b]) = made + 1
        /\ made + 1 \notin needs
    BY <1>2, OpenHasFile, FoundOrMade, NeverYet DEF DiagnosticsInv, BufferUnloaded, providerVars
  <2> QED
    BY <1>2, <2>1 DEF DiagnosticsInv, NothingForgotten, InDiagnose, BufferUnloaded
<1>3. ASSUME NEW b \in Buffers, BufferChanged(b)
      PROVE  NothingForgotten'
  <2>1. /\ Listed' = Listed \cup {GroupFor(fileOf[b])} /\ asked' = asked /\ group' = group
        /\ GroupFor(fileOf[b]) \in Listed \/ GroupFor(fileOf[b]) = made + 1
        /\ made + 1 \notin needs
    BY <1>3, OpenHasFile, FoundOrMade, NeverYet DEF DiagnosticsInv, BufferChanged, providerVars
  <2> QED
    BY <1>3, <2>1 DEF DiagnosticsInv, NothingForgotten, InDiagnose, BufferChanged, Queue, adapterVars
<1>4. ASSUME NEW b \in Buffers, NEW m \in Languages, BufferLanguage(b, m)
      PROVE  NothingForgotten'
  <2>1. /\ Listed' = Listed \cup {GroupFor(fileOf[b])} /\ asked' = asked /\ group' = group
        /\ GroupFor(fileOf[b]) \in Listed \/ GroupFor(fileOf[b]) = made + 1
        /\ made + 1 \notin needs
    BY <1>4, OpenHasFile, FoundOrMade, NeverYet DEF DiagnosticsInv, BufferLanguage, providerVars
  <2> QED
    BY <1>4, <2>1 DEF DiagnosticsInv, NothingForgotten, InDiagnose, BufferLanguage
<1>5. ASSUME NEW b \in Buffers, NEW f \in Files, BufferSavedAs(b, f)
      PROVE  NothingForgotten'
  <2>1. Listed' \subseteq Listed
    <3>1. CASE UNCHANGED <<byFile, file>>
      BY <3>1 DEF Listed
    <3>2. CASE \E g \in Listed : /\ file[g] # f /\ byFile' = Moved(g, f)
                                 /\ file' = [file EXCEPT ![g] = f]
      BY <1>5, <3>2, MovedGroup DEF DiagnosticsInv, BufferSavedAs
    <3> QED
      BY <1>5, <3>1, <3>2 DEF BufferSavedAs
  <2> QED
    BY <1>5, <2>1 DEF DiagnosticsInv, NothingForgotten, InDiagnose, BufferSavedAs, adapterVars,
                     providerVars
<1>6. ASSUME NEW g \in Groups, Reload(g)
      PROVE  NothingForgotten'
  <2> DEFINE fresh == NewlyMatched(g)
             Id(q) == born + Cardinality({r \in fresh : r <= q})
             ids   == {Id(q) : q \in fresh}
  <2>1. /\ fresh \subseteq Plugins /\ born + Cardinality(fresh) <= MaxProviders
        /\ born \in Nat /\ Cardinality(fresh) \in Nat
    <3>1. fresh \subseteq Plugins
      BY DEF DiagnosticsInv, TypeOK, NewlyMatched
    <3>2. Cardinality(fresh) \in Nat
      BY <3>1, FS_Subset, FS_CardinalityType, DiagnosticsAssumption
    <3> QED
      BY <1>6, <3>1, <3>2, DiagnosticsAssumption DEF DiagnosticsInv, TypeOK, Reload
  <2>2. ids \subseteq (born + 1)..(born + Cardinality(fresh))
    BY <2>1, FreshIds DEF DiagnosticsInv
  <2>3. /\ byFile' = byFile /\ adapters' = adapters /\ asked' = asked
        /\ group' = [p \in Providers |-> IF p \in ids THEN g ELSE group[p]]
        /\ UNCHANGED <<needs, timer>> \/ Queue(g)
    BY <1>6 DEF Reload, tableVars
  <2> HIDE DEF fresh, Id, ids
  <2>4. \A p \in asked : group'[p] = group[p]
    <3>1. asked \subseteq 1..born /\ born \in 0..MaxProviders /\ MaxProviders \in Nat
      BY DiagnosticsAssumption DEF DiagnosticsInv, TypeOK
    <3> QED
      BY <2>1, <2>2, <2>3, <3>1 DEF Providers
  <2>5. \A h \in Groups : InDiagnose(h)' = InDiagnose(h)
    BY <2>3, <2>4 DEF InDiagnose
  <2>6. Listed' = Listed
    BY <2>3 DEF Listed
  <2>7. Listed \subseteq Groups
    BY ListedMade DEF DiagnosticsInv
  <2> QED
    <3> SUFFICES ASSUME NEW h \in Listed' \cap needs' \cap adapters', ~timer'
                 PROVE  InDiagnose(h)' # {}
      BY DEF NothingForgotten
    <3>1. CASE UNCHANGED <<needs, timer>>
      BY <2>3, <2>5, <2>6, <2>7, <3>1 DEF DiagnosticsInv, NothingForgotten
    <3>2. CASE Queue(g)
      BY <2>3, <2>5, <2>6, <2>7, <3>2 DEF DiagnosticsInv, NothingForgotten, Queue
    <3> QED
      BY <2>3, <3>1, <3>2
<1>7. ASSUME NEW p \in Providers, ProviderInvalidated(p)
      PROVE  NothingForgotten'
  <2>1. Listed' = Listed /\ adapters' = adapters /\ asked' = asked /\ group' = group
        /\ needs' = needs \cup {group[p]} /\ timer' = (timer \/ InDiagnose(group[p]) = {})
    BY <1>7 DEF ProviderInvalidated, Queue, Listed, tableVars, adapterVars, providerVars
  <2> QED
    BY <2>1 DEF DiagnosticsInv, NothingForgotten, InDiagnose
<1>8. ASSUME NEW p \in Providers, NEW own \in BOOLEAN, NEW others \in Elsewhere, Answer(p, own, others)
      PROVE  NothingForgotten'
  <2>1. /\ Listed' \subseteq Listed \cup {made + 1} /\ made + 1 \notin needs
        /\ needs' = needs /\ adapters' = adapters /\ group' = group
        /\ asked' = asked \ {p} /\ timer' = (timer \/ MustDiagnose(group[p], p))
    BY <1>8, AnsweredTable, NeverYet DEF DiagnosticsInv, Answer, adapterVars, providerVars
  <2> SUFFICES ASSUME NEW h \in Listed' \cap needs' \cap adapters', ~timer'
               PROVE  InDiagnose(h)' # {}
    BY DEF NothingForgotten
  <2>2. h \in Listed /\ h \in needs /\ h \notin removed /\ ~timer
    BY <2>1 DEF DiagnosticsInv, RemovedForGood
  <2>3. InDiagnose(h) # {}
    BY <2>1, <2>2 DEF DiagnosticsInv, NothingForgotten
  <2>4. InDiagnose(h)' = InDiagnose(h) \ {p}
    BY <2>1 DEF InDiagnose
  <2>5. InDiagnose(h) = {p} => h = group[p]
    BY DEF InDiagnose
  <2> QED
    BY <2>1, <2>2, <2>3, <2>4, <2>5 DEF MustDiagnose
<1>9. CASE BeginDiagnose
  <2>1. Listed' = Listed
    BY <1>9 DEF BeginDiagnose, Listed, tableVars
  <2> QED
    BY <1>9, <2>1 DEF BeginDiagnose, NothingForgotten, InDiagnose, adapterVars, providerVars
<1>10. CASE UNCHANGED vars
  BY <1>10 DEF DiagnosticsInv, NothingForgotten, Listed, InDiagnose, vars, tableVars, adapterVars,
               providerVars
<1>11. CASE (\E g \in Groups : ReloadUnlisted(g)) \/ ReloadDisposed
  BY <1>11 DEF DiagnosticsInv, NothingForgotten, Listed, InDiagnose, ReloadUnlisted, ReloadDisposed, tableVars,
               adapterVars, providerVars
<1> QED
  BY <1>1, <1>2, <1>3, <1>4, <1>5, <1>6, <1>7, <1>8, <1>9, <1>10, <1>11 DEF Next, Answers

-----------------------------------------------------------------------------
(* The theorems. *)

LEMMA DiagnosticsInductive ==
  /\ Init => DiagnosticsInv
  /\ DiagnosticsInv /\ [Next]_vars => DiagnosticsInv'
<1>1. Init => DiagnosticsInv
  <2> SUFFICES ASSUME Init PROVE DiagnosticsInv
    OBVIOUS
  <2>1. made = 0 /\ byFile = [f \in Files |-> 0] /\ Listed = {}
    BY DEF Init, Listed
  <2>2. TypeOK
    <3>1. 0 \in 0..made /\ made \in 0..MaxGroups /\ 0 \in 0..MaxProviders
      BY <2>1, DiagnosticsAssumption
    <3>2. /\ byFile \in [Files -> 0..made] /\ group \in [Providers -> 0..made]
          /\ plugin \in [Providers -> Plugins \cup {0}]
          /\ shown \in [Groups -> SUBSET Providers] /\ value \in [Groups -> SUBSET Plugins]
      BY <3>1 DEF Init
    <3>3. /\ fileOf \in [Buffers -> Files \cup {None}] /\ file \in [Groups -> Files \cup {None}]
          /\ buffer \in [Groups -> Buffers \cup {None}] /\ timer \in BOOLEAN
          /\ born = 0 /\ adapters = {} /\ reloads = {} /\ stray = FALSE
          /\ aborted = FALSE /\ needs = {} /\ flagged = {}
          /\ removed = {} /\ loaded = {} /\ asked = {}
      BY DEF Init
    <3> QED
      BY <3>1, <3>2, <3>3 DEF TypeOK
  <2>3. ListedByTheirFile /\ RemovedForGood /\ FlaggedWhileShown /\ NothingBeforeMade
        /\ NothingForgotten
    BY <2>1 DEF Init, ListedByTheirFile, RemovedForGood, FlaggedWhileShown, NothingBeforeMade,
                NothingForgotten
  <2> QED
    BY <2>2, <2>3 DEF DiagnosticsInv
<1>2. DiagnosticsInv /\ [Next]_vars => DiagnosticsInv'
  BY TypesStep, TableStep, FlagsStep, ForgottenStep DEF DiagnosticsInv
<1> QED
  BY <1>1, <1>2

(* The groups, the table and the flags keep their types, whatever the order *)
(* in which buffers are loaded, renamed and closed and providers answer.    *)
THEOREM TypeCorrectness == Spec => []TypeOK
<1>1. DiagnosticsInv => TypeOK
  BY DEF DiagnosticsInv
<1> QED
  BY <1>1, DiagnosticsInductive, PTL DEF Spec

(* The table lists a group under the file it has, and so only once.         *)
THEOREM TableCorrect == Spec => []ListedByTheirFile
<1>1. DiagnosticsInv => ListedByTheirFile
  BY DEF DiagnosticsInv
<1> QED
  BY <1>1, DiagnosticsInductive, PTL DEF Spec

(* A change is never forgotten: either the timeout runs, or a diagnosis is  *)
(* in progress whose last answer starts it.                                 *)
THEOREM ChangesRemembered == Spec => []NothingForgotten
<1>1. DiagnosticsInv => NothingForgotten
  BY DEF DiagnosticsInv
<1> QED
  BY <1>1, DiagnosticsInductive, PTL DEF Spec

(* A step that unloads providers takes their diagnostics out of every group *)
(* that is listed.                                                          *)
LEMMA UnloadingStep ==
  ASSUME DiagnosticsInv, [Next]_vars, NEW h \in Listed', NEW q \in shown'[h] \ loaded'
  PROVE  q \notin loaded /\ (q \in shown[h] \/ q \in asked)
<1> h \in Groups
  BY TypesStep, DiagnosticsAssumption DEF Listed, TypeOK, Groups
<1>1. ASSUME NEW b \in Buffers, NEW f \in Files, NEW m \in Languages, BufferLoaded(b, f, m)
      PROVE  q \notin loaded /\ (q \in shown[h] \/ q \in asked)
  BY <1>1 DEF BufferLoaded
<1>2. ASSUME NEW b \in Buffers, BufferUnloaded(b)
      PROVE  q \notin loaded /\ (q \in shown[h] \/ q \in asked)
  <2> DEFINE g == GroupFor(fileOf[b])
  <2>1. /\ shown' = ShownWithout(Extensions(g)) /\ loaded' = loaded \ Extensions(g)
    BY <1>2 DEF BufferUnloaded
  <2>2. h \in Listed \/ h = made + 1
    BY <1>2, OpenHasFile, FoundOrMade DEF DiagnosticsInv, BufferUnloaded
  <2>3. q \in shown[h]
    BY <2>1, ShownLess DEF DiagnosticsInv
  <2>4. h \in Listed
    BY <2>2, <2>3, DiagnosticsAssumption DEF DiagnosticsInv, NothingBeforeMade, TypeOK
  <2>5. q \notin Extensions(g)
    BY <2>1, <2>4, ShownLess DEF DiagnosticsInv
  <2> QED
    BY <2>1, <2>3, <2>5
<1>3. ASSUME NEW b \in Buffers,
             BufferChanged(b) \/ (\E m \in Languages : BufferLanguage(b, m))
                             \/ \E f \in Files : BufferSavedAs(b, f)
      PROVE  q \notin loaded /\ (q \in shown[h] \/ q \in asked)
  BY <1>3 DEF BufferChanged, BufferLanguage, BufferSavedAs
<1>4. ASSUME NEW g \in Groups, Reload(g)
      PROVE  q \notin loaded /\ (q \in shown[h] \/ q \in asked)
  <2> DEFINE gone == Mismatched(g)
  <2>1. shown' = ShownWithout(gone) /\ loaded \ gone \subseteq loaded' /\ Listed' = Listed
    BY <1>4 DEF Reload, tableVars, Listed
  <2>2. q \in shown[h] \ gone
    BY <2>1, ShownLess DEF DiagnosticsInv
  <2> QED
    BY <2>1, <2>2
<1>5. ASSUME NEW p \in Providers, NEW own \in BOOLEAN, NEW others \in Elsewhere,
             Answer(p, own, others)
      PROVE  q \notin loaded /\ (q \in shown[h] \/ q \in asked)
  <2>1. /\ shown' = [g \in Groups |-> ShownWithout({p})[g]
                                      \cup {r \in {p} : g \in Told(p, own, others)}]
        /\ loaded' = loaded /\ p \in asked
    BY <1>5 DEF Answer, Told
  <2>2. q \in ShownWithout({p})[h] \/ q = p
    BY <2>1
  <2> QED
    BY <2>1, <2>2, ShownLess DEF DiagnosticsInv
<1>6. CASE \/ BeginDiagnose \/ ReloadDisposed \/ UNCHANGED vars
           \/ \E p \in Providers : ProviderInvalidated(p)
           \/ \E g \in Groups : ReloadUnlisted(g)
  BY <1>6 DEF BeginDiagnose, ReloadDisposed, ReloadUnlisted, ProviderInvalidated, vars
<1> QED
  BY <1>1, <1>2, <1>3, <1>4, <1>5, <1>6 DEF Next, Answers

(* Unloading a provider clears what it reported of every listed file; only  *)
(* an answer it still owed can show something of it again.                  *)
THEOREM UnloadingCorrect == Spec => UnloadingClears
<1>1. DiagnosticsInv /\ [Next]_vars
        => [\A g \in Listed' : \A p \in shown'[g] \ loaded' :
              p \notin loaded /\ (p \in shown[g] \/ p \in asked)]_vars
  BY UnloadingStep
<1> QED
  BY <1>1, DiagnosticsInductive, PTL DEF Spec, UnloadingClears

(* The group that an answer disposes of shows nothing. *)
THEOREM DisposalCorrect == Spec => DisposesOfTheEmpty
<1>1. ASSUME DiagnosticsInv, [Next]_vars, NEW h \in removed' \ removed
      PROVE  shown'[h] = {}
  <2>1. PICK p \in Providers, own \in BOOLEAN, others \in Elsewhere : Answer(p, own, others)
    BY <1>1 DEF Next, Answers, BufferLoaded, BufferUnloaded, BufferChanged, BufferLanguage,
                BufferSavedAs, Reload, ReloadUnlisted, ReloadDisposed, ProviderInvalidated, BeginDiagnose, vars
  <2>2. /\ h = group[p] /\ CanDispose(h, flagged \cup Told(p, own, others))
        /\ shown' = [g \in Groups |-> ShownWithout({p})[g]
                                      \cup {r \in {p} : g \in Told(p, own, others)}]
    BY <1>1, <2>1 DEF Answer, Told
  <2>3. h \in Groups
    BY <1>1, <2>1, <2>2, AnsweredGroups
  <2>4. shown[h] = {} /\ h \notin Told(p, own, others)
    BY <1>1, <2>2, <2>3 DEF DiagnosticsInv, FlaggedWhileShown, CanDispose
  <2>5. ShownWithout({p})[h] = {}
    BY <1>1, <2>3, <2>4, ShownLess DEF DiagnosticsInv
  <2> QED
    BY <2>2, <2>3, <2>4, <2>5
<1>2. DiagnosticsInv /\ [Next]_vars => [\A g \in removed' \ removed : shown'[g] = {}]_vars
  BY <1>1
<1> QED
  BY <1>2, DiagnosticsInductive, PTL DEF Spec, DisposesOfTheEmpty
=============================================================================
