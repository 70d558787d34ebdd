------------------------- MODULE CompileCacheProofs -------------------------
(***************************************************************************)
(* Theorems about CompileCache for any number of processes, keys and       *)
(* source versions.                                                        *)
(***************************************************************************)
EXTENDS CompileCache, FiniteSetTheorems, TLAPS

USE CacheAssumption

LEMMA NamesType ==
  Names \subseteq Nat /\ None \notin Names
  BY FS_CardinalityType DEF Names

LEMMA NoEntriesType ==
  NoEntries \in Entries /\ NoEntries \in [Keys -> MaybePayload]
  BY DEF NoEntries, Entries, MaybePayload

-----------------------------------------------------------------------------
(* Every variable keeps its type.  (Cache and dispatcher state.)           *)
THEOREM TypeCorrect == Spec => []TypeOK
<1>1. Init => TypeOK
  BY NamesType, NoEntriesType
  DEF Init, TypeOK, Quiet, NoIndex, PC, MaybePayload
<1>2. TypeOK /\ [Next]_vars => TypeOK'
  <2> SUFFICES ASSUME TypeOK, [Next]_vars PROVE TypeOK'
    OBVIOUS
  <2> USE NamesType, NoEntriesType
  <2>1. CASE EditSource
    BY <2>1 DEF EditSource, TypeOK, Quiet
  <2>2. CASE LoseIndex
    BY <2>2 DEF LoseIndex, TypeOK, Quiet, NoIndex
  <2>3. ASSUME NEW n \in Names, LoseData(n) PROVE TypeOK'
    BY <2>3 DEF LoseData, TypeOK, Quiet, MaybePayload
  <2>4. ASSUME NEW p \in Procs, Import(p) PROVE TypeOK'
    BY <2>4 DEF Import, TypeOK, Quiet, Goto, PC, disk
  <2>5. ASSUME NEW p \in Procs, EnableCaching(p) PROVE TypeOK'
    BY <2>5 DEF EnableCaching, TypeOK, Quiet, Goto, PC, disk
  <2>6. ASSUME NEW p \in Procs, NEW k \in Keys, Existing(p, k) PROVE TypeOK'
    BY <2>6 DEF Existing, TypeOK, Quiet, Goto, PC, disk, local
  <2>7. ASSUME NEW p \in Procs, NEW k \in Keys, Compile(p, k) PROVE TypeOK'
    BY <2>7 DEF Compile, TypeOK, Quiet, Goto, PC, disk, local
  <2>8. ASSUME NEW p \in Procs, LoadIndex(p) PROVE TypeOK'
    BY <2>8
    DEF LoadIndex, LoadedIndex, TypeOK, Quiet, Goto, PC, disk, local, Entries
  <2>9. ASSUME NEW p \in Procs, LoadData(p) PROVE TypeOK'
    <3> DEFINE d == data[name[p]]
    <3>1. d \in MaybePayload /\ pc[p] = "load_data"
      BY <2>9 DEF LoadData, TypeOK
    <3>2. /\ overloads' \in [Procs -> [Keys -> MaybePayload]]
          /\ result' \in [Procs -> MaybePayload]
          /\ \E l \in {"compile", "returning"} : pc' = [pc EXCEPT ![p] = l]
      <4>1. CASE d = None
        BY <2>9, <4>1 DEF LoadData, TypeOK, Goto
      <4>2. CASE d # None
        <5>1. d.key \in Keys
          BY <3>1, <4>2 DEF MaybePayload, Payload
        <5>2. /\ overloads' = [overloads EXCEPT ![p][d.key] = d]
              /\ result' = [result EXCEPT ![p] = d]
              /\ pc' = [pc EXCEPT ![p] = "returning"]
          BY <2>9, <4>2 DEF LoadData, Goto
        <5> HIDE DEF d
        <5>3. QED
          BY <3>1, <5>1, <5>2 DEF TypeOK
      <4>3. QED
        BY <4>1, <4>2
    <3>3. UNCHANGED <<source, index, data, code, stamp, key, entries, name,
                      todo>>
      BY <2>9 DEF LoadData, disk, local
    <3> HIDE DEF d
    <3>4. QED
      BY <3>1, <3>2, <3>3 DEF TypeOK, Quiet, PC
  <2>10. ASSUME NEW p \in Procs, CompileMiss(p) PROVE TypeOK'
    BY <2>10
    DEF CompileMiss, TypeOK, Quiet,
        Goto, PC, disk, local, MaybePayload, Payload
  <2>11. ASSUME NEW p \in Procs, CompileFails(p) PROVE TypeOK'
    BY <2>11
    DEF CompileFails, TypeOK, Quiet,
        Raise, Forget, Goto, PC, disk, local, MaybePayload
  <2>12. ASSUME NEW p \in Procs, Save(p) PROVE TypeOK'
    <3> DEFINE e == LoadedIndex(p)
    <3>1. e \in Entries /\ pc[p] = "save" /\ key[p] \in Keys
      BY <2>12 DEF Save, LoadedIndex, TypeOK, Quiet
    <3>2. PICK n \in Names, f \in Entries, l \in {"save_data", "save_index"} :
            /\ name' = [name EXCEPT ![p] = n]
            /\ entries' = [entries EXCEPT ![p] = f]
            /\ pc' = [pc EXCEPT ![p] = l]
      <4>1. CASE e[key[p]] # None
        BY <2>12, <3>1, <4>1 DEF Save, Goto, Entries
      <4>2. CASE e[key[p]] = None
        <5>1. PICK n \in Names :
                /\ name' = [name EXCEPT ![p] = n]
                /\ entries' = [entries EXCEPT ![p] = [e EXCEPT ![key[p]] = n]]
                /\ Goto(p, "save_index")
          BY <2>12, <3>1, <4>2 DEF Save
        <5>2. [e EXCEPT ![key[p]] = n] \in Entries
          BY <3>1 DEF Entries
        <5>3. QED
          BY <5>1, <5>2 DEF Goto
      <4>3. QED
        BY <4>1, <4>2
    <3>3. UNCHANGED <<source, index, data, code, stamp, key, overloads, result,
                      todo>>
      BY <2>12 DEF Save, disk, local
    <3> HIDE DEF e
    <3>4. QED
      BY <3>1, <3>2, <3>3 DEF TypeOK, Quiet, PC
  <2>13. ASSUME NEW p \in Procs, SaveIndex(p) PROVE TypeOK'
    BY <2>13 DEF SaveIndex, TypeOK, Quiet, Goto, PC, local
  <2>14. ASSUME NEW p \in Procs, SaveData(p) PROVE TypeOK'
    BY <2>14 DEF SaveData, TypeOK, Quiet, Goto, PC, local
  <2>15. ASSUME NEW p \in Procs, SaveFails(p) PROVE TypeOK'
    BY <2>15
    DEF SaveFails, TypeOK, Quiet,
        Raise, Forget, Goto, PC, disk, local, MaybePayload
  <2>16. ASSUME NEW p \in Procs, Return(p) PROVE TypeOK'
    BY <2>16
    DEF Return, TypeOK, Quiet, Forget, Goto, PC, disk, local, MaybePayload
  <2>17. ASSUME NEW p \in Procs, Recompile(p) PROVE TypeOK'
    <3>1. /\ stamp[p] \in Versions
          /\ overloads' = [overloads EXCEPT ![p] = NoEntries]
          /\ UNCHANGED <<source, data, pc, code, stamp, key, entries, name,
                         result>>
      BY <2>17 DEF Recompile, TypeOK, local
    <3>2. /\ index' \in [stamp : Versions \cup {None}, entries : Entries]
          /\ todo' \in [Procs -> SUBSET Keys]
      <4>1. CASE /\ index' = [stamp |-> stamp[p], entries |-> NoEntries]
                 /\ todo' = [todo EXCEPT ![p] =
                               {k \in Keys : overloads[p][k] # None}]
        BY <3>1, <4>1 DEF TypeOK
      <4>2. CASE UNCHANGED <<index, todo>>
        BY <4>2 DEF TypeOK
      <4>3. QED
        BY <2>17, <4>1, <4>2 DEF Recompile
    <3>3. QED
      BY <3>1, <3>2 DEF TypeOK, Quiet
  <2>18. ASSUME NEW p \in Procs, Exit(p) PROVE TypeOK'
    BY <2>18 DEF Exit, TypeOK, Quiet, Forget, Goto, PC, disk, MaybePayload
  <2>19. CASE UNCHANGED vars
    BY <2>19 DEF vars, TypeOK, Quiet
  <2>20. QED
    BY <2>1, <2>2, <2>3, <2>4, <2>5, <2>6, <2>7, <2>8, <2>9, <2>10, <2>11,
       <2>12, <2>13, <2>14, <2>15, <2>16, <2>17, <2>18, <2>19
    DEF Next, CacheStep
<1>3. QED
  BY <1>1, <1>2, PTL DEF Spec

-----------------------------------------------------------------------------
(* The index and every copy of it in a save() under way are injective.     *)
InjectiveInv ==
  Injective(index.entries) /\ \A p \in Procs : Injective(entries[p])

LEMMA NoEntriesInjective == Injective(NoEntries)
  BY DEF Injective, NoEntries

(* A data file number that no entry uses can be given to one more key.     *)
LEMMA FreshNameInjective ==
  ASSUME NEW e \in Entries, Injective(e), NEW k \in Keys, NEW n \in Names,
         FirstFree(n, e)
  PROVE  Injective([e EXCEPT ![k] = n])
  BY DEF Injective, FirstFree, Entries

(* Every copy of the index is injective (IndexDataCacheFile.save).         *)
LEMMA InjectiveAlways == Spec => []InjectiveInv
<1>1. Init => InjectiveInv
  BY NoEntriesInjective DEF Init, InjectiveInv, NoIndex
<1>2. TypeOK /\ InjectiveInv /\ [Next]_vars => InjectiveInv'
  <2> SUFFICES ASSUME TypeOK, InjectiveInv, [Next]_vars PROVE InjectiveInv'
    OBVIOUS
  <2>1. ASSUME UNCHANGED <<index, entries>> PROVE InjectiveInv'
    BY <2>1 DEF InjectiveInv
  <2>2. CASE LoseIndex
    BY <2>2, NoEntriesInjective DEF LoseIndex, NoIndex, InjectiveInv
  <2>3. ASSUME NEW p \in Procs, Forget(p), UNCHANGED index
        PROVE  InjectiveInv'
    BY <2>3, NoEntriesInjective DEF Forget, InjectiveInv, TypeOK
  <2>4. ASSUME NEW p \in Procs, Save(p) PROVE InjectiveInv'
    <3> DEFINE e == LoadedIndex(p)
    <3>1. e \in Entries /\ Injective(e) /\ key[p] \in Keys
      BY <2>4, NoEntriesInjective, NoEntriesType
      DEF Save, LoadedIndex, InjectiveInv, TypeOK, Quiet
    <3>2. PICK f : Injective(f) /\ entries' = [entries EXCEPT ![p] = f]
      <4>1. CASE e[key[p]] # None
        BY <2>4, <3>1, <4>1 DEF Save
      <4>2. CASE e[key[p]] = None
        <5>1. PICK n \in Names :
                /\ FirstFree(n, e)
                /\ entries' = [entries EXCEPT ![p] = [e EXCEPT ![key[p]] = n]]
          BY <2>4, <4>2 DEF Save
        <5>2. QED
          BY <3>1, <5>1, FreshNameInjective
      <4>3. QED
        BY <4>1, <4>2
    <3>3. UNCHANGED index
      BY <2>4 DEF Save, disk
    <3>4. QED
      BY <3>2, <3>3 DEF InjectiveInv, TypeOK
  <2>5. ASSUME NEW p \in Procs, SaveIndex(p) PROVE InjectiveInv'
    BY <2>5 DEF SaveIndex, InjectiveInv
  <2>6. ASSUME NEW p \in Procs, Recompile(p) PROVE InjectiveInv'
    BY <2>6, NoEntriesInjective DEF Recompile, InjectiveInv
  <2>7. QED
    BY <2>1, <2>2, <2>3, <2>4, <2>5, <2>6
    DEF Next, CacheStep, vars, disk, EditSource, LoseData, Import,
        EnableCaching, Existing, Compile, LoadIndex, LoadData, CompileMiss,
        CompileFails, SaveData, Return, SaveFails, Exit, Raise
<1>3. QED
  BY <1>1, <1>2, TypeCorrect, PTL DEF Spec

(* No interleaving, edit, loss or broken save makes the index map two keys *)
(* to one data file (IndexDataCacheFile.save).                             *)
THEOREM IndexInjectiveAlways == Spec => []IndexInjective
<1>1. InjectiveInv => IndexInjective
  BY DEF InjectiveInv, IndexInjective
<1>2. QED
  BY <1>1, InjectiveAlways, PTL

-----------------------------------------------------------------------------
(* Without two processes in the cache at once and without a save that      *)
(* stops halfway the cache returns the code it is asked for.  The          *)
(* invariant: at most one process is inside compile(); every process works *)
(* for the text it imported, unless an edit came between import and        *)
(* decoration; and a data file the index lists is absent or holds what the *)
(* index says, except the one a save has announced in the index and not    *)
(* yet written.                                                            *)
Calm == ~ Overlap /\ ~ SaveBreaks

CodeOf(p, k) == [key |-> k, version |-> code[p]]

(* d is code of the same signature as c and, unless the source may change  *)
(* between import and decoration, of the same text.                        *)
SameCode(d, c) == d.key = c.key /\ (EditRace \/ d.version = c.version)
Fits(n, c) == n # None => data[n] = None \/ SameCode(data[n], c)

OneAtATime == \A p, q \in Procs : p # q => Quiet(p) \/ Quiet(q)

StampIsCode ==
  EditRace \/ \A p \in Procs :
    /\ pc[p] = "imported" => code[p] = source
    /\ pc[p] \notin {"out", "imported"} => stamp[p] = code[p]

OwnCode ==
  \A p \in Procs :
    /\ pc[p] \in {"out", "imported"} => overloads[p] = NoEntries
    /\ Quiet(p) => result[p] = None
    /\ \A k \in Keys : \/ overloads[p][k] = None
                       \/ SameCode(overloads[p][k], CodeOf(p, k))
    /\ result[p] = None \/ SameCode(result[p], CodeOf(p, key[p]))
    /\ pc[p] \in {"save", "save_index", "save_data"} =>
         overloads[p][key[p]] # None

DiskFits ==
  \A k \in Keys :
    \/ Fits(index.entries[k], [key |-> k, version |-> index.stamp])
    \/ \E p \in Procs : pc[p] = "save_data" /\ key[p] = k

CallFitsOf(p) ==
  /\ pc[p] = "load_data" => Fits(name[p], CodeOf(p, key[p]))
  /\ pc[p] = "save_index" =>
       /\ entries[p][key[p]] = name[p]
       /\ \A k \in Keys \ {key[p]} : Fits(entries[p][k], CodeOf(p, k))
  /\ pc[p] = "save_data" =>
       /\ index.entries[key[p]] \in {None, name[p]}
       /\ \A k \in Keys : index.entries[k] = name[p] =>
            k = key[p] /\ index.stamp = stamp[p]
CallFits == \A p \in Procs : CallFitsOf(p)

CalmInv == OneAtATime /\ StampIsCode /\ OwnCode /\ DiskFits /\ CallFits

(* MayStart lets a process into the cache only when no other is inside.     *)
LEMMA OneAtATimeStep ==
  ASSUME Calm, TypeOK, InjectiveInv, CalmInv, [Next]_vars
  PROVE  OneAtATime'
<1>1. OneAtATime'
  <2>1. CASE EditSource
    BY <2>1
    DEF EditSource, TypeOK, CalmInv, Quiet, OneAtATime, Calm
  <2>2. CASE LoseIndex
    BY <2>2
    DEF LoseIndex, NoIndex, NoEntries, TypeOK, CalmInv, Quiet, OneAtATime, Calm
  <2>3. ASSUME NEW n \in Names, LoseData(n) PROVE OneAtATime'
    BY <2>3
    DEF LoseData, TypeOK, CalmInv, Quiet, OneAtATime, Calm
  <2>4. ASSUME NEW p \in Procs, Import(p) PROVE OneAtATime'
    BY <2>4
    DEF Import, Goto, disk, TypeOK, CalmInv, Quiet, OneAtATime, Calm
  <2>5. ASSUME NEW p \in Procs, EnableCaching(p) PROVE OneAtATime'
    BY <2>5
    DEF EnableCaching, Goto, disk, TypeOK, CalmInv, Quiet, OneAtATime, Calm
  <2>6. ASSUME NEW p \in Procs, NEW k \in Keys, Existing(p, k)
        PROVE  OneAtATime'
    BY <2>6
    DEF Existing, Goto, disk, local, MayStart, TypeOK, CalmInv, Quiet,
        OneAtATime, Calm
  <2>7. ASSUME NEW p \in Procs, NEW k \in Keys, Compile(p, k) PROVE OneAtATime'
    BY <2>7
    DEF Compile, Goto, disk, local, MayStart, TypeOK, CalmInv, Quiet,
        OneAtATime, Calm
  <2>8. ASSUME NEW p \in Procs, LoadIndex(p) PROVE OneAtATime'
    BY <2>8
    DEF LoadIndex, LoadedIndex, NoEntries, Goto, disk, local, TypeOK, CalmInv,
        Quiet, OneAtATime, Calm
  <2>9. ASSUME NEW p \in Procs, LoadData(p) PROVE OneAtATime'
    BY <2>9
    DEF LoadData, Goto, disk, local, TypeOK, CalmInv, Quiet, OneAtATime, Calm
  <2>10. ASSUME NEW p \in Procs, CompileMiss(p) PROVE OneAtATime'
    BY <2>10
    DEF CompileMiss, Goto, disk, local, TypeOK, CalmInv, Quiet, OneAtATime,
        Calm
  <2>11. ASSUME NEW p \in Procs, CompileFails(p) PROVE OneAtATime'
    BY <2>11
    DEF CompileFails, Raise, Forget, Goto, disk, local, TypeOK, CalmInv, Quiet,
        OneAtATime, Calm
  <2>12. ASSUME NEW p \in Procs, Save(p) PROVE OneAtATime'
    BY <2>12
    DEF Save, LoadedIndex, NoEntries, Goto, disk, local, TypeOK, CalmInv,
        Quiet, OneAtATime, Calm
  <2>13. ASSUME NEW p \in Procs, SaveIndex(p) PROVE OneAtATime'
    BY <2>13
    DEF SaveIndex, Goto, local, TypeOK, CalmInv, Quiet, OneAtATime, Calm
  <2>14. ASSUME NEW p \in Procs, SaveData(p) PROVE OneAtATime'
    BY <2>14
    DEF SaveData, Goto, local, TypeOK, CalmInv, Quiet, OneAtATime, Calm
  <2>15. ASSUME NEW p \in Procs, SaveFails(p) PROVE OneAtATime'
    BY <2>15
    DEF SaveFails, Raise, Forget, Goto, disk, local, Calm, TypeOK, CalmInv,
        Quiet, OneAtATime
  <2>16. ASSUME NEW p \in Procs, Return(p) PROVE OneAtATime'
    BY <2>16
    DEF Return, Forget, Goto, disk, local, TypeOK, CalmInv, Quiet, OneAtATime,
        Calm
  <2>17. ASSUME NEW p \in Procs, Recompile(p) PROVE OneAtATime'
    BY <2>17
    DEF Recompile, MayStart, NoEntries, local, TypeOK, CalmInv, Quiet,
        OneAtATime, Calm
  <2>18. ASSUME NEW p \in Procs, Exit(p) PROVE OneAtATime'
    BY <2>18
    DEF Exit, Forget, Goto, disk, Calm, NoEntries, TypeOK, CalmInv, Quiet,
        OneAtATime
  <2>19. CASE UNCHANGED vars
    BY <2>19
    DEF vars, TypeOK, CalmInv, Quiet, OneAtATime, Calm
  <2>20. QED
    BY <2>1, <2>2, <2>3, <2>4, <2>5, <2>6, <2>7, <2>8, <2>9, <2>10, <2>11,
        <2>12, <2>13, <2>14, <2>15, <2>16, <2>17, <2>18, <2>19
    DEF Next, CacheStep
<1>2. QED
  BY <1>1

(* The stamp is taken before the source can change under the import.       *)
LEMMA StampIsCodeStep ==
  ASSUME Calm, TypeOK, InjectiveInv, CalmInv, [Next]_vars
  PROVE  StampIsCode'
<1>1. StampIsCode'
  <2>1. CASE EditSource
    BY <2>1
    DEF EditSource, TypeOK, CalmInv, Quiet, StampIsCode, Calm
  <2>2. CASE LoseIndex
    BY <2>2
    DEF LoseIndex, NoIndex, NoEntries, TypeOK, CalmInv, Quiet, StampIsCode,
        Calm
  <2>3. ASSUME NEW n \in Names, LoseData(n) PROVE StampIsCode'
    BY <2>3
    DEF LoseData, TypeOK, CalmInv, Quiet, StampIsCode, Calm
  <2>4. ASSUME NEW p \in Procs, Import(p) PROVE StampIsCode'
    BY <2>4
    DEF Import, Goto, disk, TypeOK, CalmInv, Quiet, StampIsCode, Calm
  <2>5. ASSUME NEW p \in Procs, EnableCaching(p) PROVE StampIsCode'
    BY <2>5
    DEF EnableCaching, Goto, disk, TypeOK, CalmInv, Quiet, StampIsCode, Calm
  <2>6. ASSUME NEW p \in Procs, NEW k \in Keys, Existing(p, k)
        PROVE  StampIsCode'
    BY <2>6
    DEF Existing, Goto, disk, local, MayStart, TypeOK, CalmInv, Quiet,
        StampIsCode, Calm
  <2>7. ASSUME NEW p \in Procs, NEW k \in Keys, Compile(p, k)
        PROVE  StampIsCode'
    BY <2>7
    DEF Compile, Goto, disk, local, MayStart, TypeOK, CalmInv, Quiet,
        StampIsCode, Calm
  <2>8. ASSUME NEW p \in Procs, LoadIndex(p) PROVE StampIsCode'
    BY <2>8
    DEF LoadIndex, LoadedIndex, NoEntries, Goto, disk, local, TypeOK, CalmInv,
        Quiet, StampIsCode, Calm
  <2>9. ASSUME NEW p \in Procs, LoadData(p) PROVE StampIsCode'
    BY <2>9
    DEF LoadData, Goto, disk, local, TypeOK, CalmInv, Quiet, StampIsCode, Calm
  <2>10. ASSUME NEW p \in Procs, CompileMiss(p) PROVE StampIsCode'
    BY <2>10
    DEF CompileMiss, Goto, disk, local, TypeOK, CalmInv, Quiet, StampIsCode,
        Calm
  <2>11. ASSUME NEW p \in Procs, CompileFails(p) PROVE StampIsCode'
    BY <2>11
    DEF CompileFails, Raise, Forget, Goto, disk, local, TypeOK, CalmInv, Quiet,
        StampIsCode, Calm
  <2>12. ASSUME NEW p \in Procs, Save(p) PROVE StampIsCode'
    BY <2>12
    DEF Save, LoadedIndex, NoEntries, Goto, disk, local, TypeOK, CalmInv,
        Quiet, StampIsCode, Calm
  <2>13. ASSUME NEW p \in Procs, SaveIndex(p) PROVE StampIsCode'
    BY <2>13
    DEF SaveIndex, Goto, local, TypeOK, CalmInv, Quiet, StampIsCode, Calm
  <2>14. ASSUME NEW p \in Procs, SaveData(p) PROVE StampIsCode'
    BY <2>14
    DEF SaveData, Goto, local, TypeOK, CalmInv, Quiet, StampIsCode, Calm
  <2>15. ASSUME NEW p \in Procs, SaveFails(p) PROVE StampIsCode'
    BY <2>15
    DEF SaveFails, Raise, Forget, Goto, disk, local, Calm, TypeOK, CalmInv,
        Quiet, StampIsCode
  <2>16. ASSUME NEW p \in Procs, Return(p) PROVE StampIsCode'
    BY <2>16
    DEF Return, Forget, Goto, disk, local, TypeOK, CalmInv, Quiet, StampIsCode,
        Calm
  <2>17. ASSUME NEW p \in Procs, Recompile(p) PROVE StampIsCode'
    BY <2>17
    DEF Recompile, MayStart, NoEntries, local, TypeOK, CalmInv, Quiet,
        StampIsCode, Calm
  <2>18. ASSUME NEW p \in Procs, Exit(p) PROVE StampIsCode'
    BY <2>18
    DEF Exit, Forget, Goto, disk, Calm, NoEntries, TypeOK, CalmInv, Quiet,
        StampIsCode
  <2>19. CASE UNCHANGED vars
    BY <2>19
    DEF vars, TypeOK, CalmInv, Quiet, StampIsCode, Calm
  <2>20. QED
    BY <2>1, <2>2, <2>3, <2>4, <2>5, <2>6, <2>7, <2>8, <2>9, <2>10, <2>11,
        <2>12, <2>13, <2>14, <2>15, <2>16, <2>17, <2>18, <2>19
    DEF Next, CacheStep
<1>2. QED
  BY <1>1

OwnCodeAt(p) ==
  /\ pc[p] \in {"out", "imported"} => overloads[p] = NoEntries
  /\ Quiet(p) => result[p] = None
  /\ \A k \in Keys : \/ overloads[p][k] = None
                     \/ SameCode(overloads[p][k], CodeOf(p, k))
  /\ result[p] = None \/ SameCode(result[p], CodeOf(p, key[p]))
  /\ pc[p] \in {"save", "save_index", "save_data"} => overloads[p][key[p]] # None

LEMMA OwnCodeIs == OwnCode <=> \A p \in Procs : OwnCodeAt(p)
BY Zenon DEF OwnCode, OwnCodeAt

(* A step of p that leaves the other processes' calls as they are.         *)
LEMMA OwnCodeFrame ==
  ASSUME CalmInv, TypeOK, NEW p \in Procs, UNCHANGED code,
         \A q \in Procs \ {p} : /\ pc'[q] = pc[q] /\ overloads'[q] = overloads[q]
                                /\ result'[q] = result[q] /\ key'[q] = key[q],
         OwnCodeAt(p)'
  PROVE  OwnCode'
<1>1. ASSUME NEW q \in Procs PROVE OwnCodeAt(q)'
  <2>1. CASE q = p
    BY <2>1
  <2>2. CASE q # p
    <3>1. OwnCodeAt(q)
      BY OwnCodeIs DEF CalmInv
    <3>2. /\ pc'[q] = pc[q] /\ overloads'[q] = overloads[q] /\ result'[q] = result[q]
          /\ key'[q] = key[q] /\ code'[q] = code[q]
      BY <2>2
    <3>3. QED
      BY <3>1, <3>2 DEF OwnCodeAt, Quiet, CodeOf
  <2>3. QED
    BY <2>1, <2>2
<1>2. QED
  BY <1>1, Zenon DEF OwnCode, OwnCodeAt

(* What a dispatcher holds and returns is code of the text it imported.    *)
LEMMA OwnCodeStep ==
  ASSUME Calm, TypeOK, InjectiveInv, CalmInv, [Next]_vars
  PROVE  OwnCode'
<1>1. OwnCode'
  <2>1. CASE EditSource
    BY <2>1
    DEF EditSource, TypeOK, CalmInv, Quiet, OwnCode, CodeOf, CallFits,
        CallFitsOf, Fits, NoEntries
  <2>2. CASE LoseIndex
    BY <2>2
    DEF LoseIndex, NoIndex, NoEntries, TypeOK, CalmInv, Quiet, OwnCode, CodeOf,
        CallFits, CallFitsOf, Fits
  <2>3. ASSUME NEW n \in Names, LoseData(n) PROVE OwnCode'
    BY <2>3
    DEF LoseData, TypeOK, CalmInv, Quiet, OwnCode, CodeOf, CallFits,
        CallFitsOf, Fits, NoEntries
  <2>4. ASSUME NEW p \in Procs, Import(p) PROVE OwnCode'
    BY <2>4
    DEF SameCode, Import, Goto, disk, TypeOK, CalmInv, Quiet, OwnCode, CodeOf, CallFits,
        CallFitsOf, Fits, NoEntries
  <2>5. ASSUME NEW p \in Procs, EnableCaching(p) PROVE OwnCode'
    BY <2>5
    DEF EnableCaching, Goto, disk, TypeOK, CalmInv, Quiet, OwnCode, CodeOf,
        CallFits, CallFitsOf, Fits, NoEntries
  <2>6. ASSUME NEW p \in Procs, NEW k \in Keys, Existing(p, k) PROVE OwnCode'
    <3>1. /\ pc[p] = "idle" /\ pc' = [pc EXCEPT ![p] = "returning"]
          /\ key' = [key EXCEPT ![p] = k]
          /\ result' = [result EXCEPT ![p] = overloads[p][k]]
          /\ UNCHANGED <<code, overloads>>
      BY <2>6 DEF Existing, Goto, local
    <3>2. OwnCodeAt(p)
      BY OwnCodeIs DEF CalmInv
    <3>3. pc'[p] = "returning" /\ key'[p] = k /\ result'[p] = overloads[p][k]
      BY <3>1 DEF TypeOK
    <3>4. OwnCodeAt(p)'
      BY <3>1, <3>2, <3>3 DEF OwnCodeAt, Quiet, CodeOf
    <3>5. QED
      BY <3>1, <3>4, OwnCodeFrame
  <2>7. ASSUME NEW p \in Procs, NEW k \in Keys, Compile(p, k) PROVE OwnCode'
    <3>1. /\ pc[p] = "idle" /\ pc' = [pc EXCEPT ![p] = "load_index"]
          /\ key' = [key EXCEPT ![p] = k] /\ UNCHANGED <<code, overloads, result>>
      BY <2>7 DEF Compile, Goto, local
    <3>2. OwnCodeAt(p)
      BY OwnCodeIs DEF CalmInv
    <3>3. pc'[p] = "load_index" /\ key'[p] = k /\ result[p] = None
      BY <3>1, <3>2 DEF TypeOK, OwnCodeAt, Quiet
    <3>4. OwnCodeAt(p)'
      BY <3>1, <3>2, <3>3 DEF OwnCodeAt, Quiet, CodeOf
    <3>5. QED
      BY <3>1, <3>4, OwnCodeFrame
  <2>8. ASSUME NEW p \in Procs, LoadIndex(p) PROVE OwnCode'
    BY <2>8
    DEF LoadIndex, LoadedIndex, NoEntries, Goto, disk, local, TypeOK, CalmInv,
        Quiet, OwnCode, CodeOf, CallFits, CallFitsOf, Fits
  <2>9. ASSUME NEW p \in Procs, LoadData(p) PROVE OwnCode'
    <3> DEFINE d == data[name[p]]
    <3>1. pc[p] = "load_data" /\ name[p] \in Names /\ key[p] \in Keys
      BY <2>9 DEF LoadData, TypeOK, Quiet
    <3>2. d = None \/ SameCode(d, CodeOf(p, key[p]))
      BY <2>9, <3>1, NamesType DEF CalmInv, CallFits, CallFitsOf, Fits
    <3>3. CASE d = None
      <4>1. /\ UNCHANGED <<code, key, overloads, result>>
            /\ pc' = [pc EXCEPT ![p] = "compile"]
        BY <2>9, <3>3 DEF LoadData, Goto, local
      <4>2. OwnCodeAt(p)
        BY OwnCodeIs DEF CalmInv
      <4>3. pc'[p] = "compile"
        BY <4>1 DEF TypeOK
      <4>4. OwnCodeAt(p)'
        BY <4>1, <4>2, <4>3 DEF OwnCodeAt, Quiet, CodeOf
      <4>5. QED
        BY <4>1, <4>4, OwnCodeFrame
    <3>4. CASE SameCode(d, CodeOf(p, key[p])) /\ d # None
      <4>1. /\ overloads' = [overloads EXCEPT ![p][key[p]] = d]
            /\ result' = [result EXCEPT ![p] = d]
            /\ pc' = [pc EXCEPT ![p] = "returning"]
            /\ UNCHANGED <<code, key>>
        BY <2>9, <3>4 DEF LoadData, Goto, local, CodeOf, SameCode
      <4> HIDE DEF d
      <4>2. QED
        BY <3>1, <3>4, <4>1
        DEF OwnCode, CalmInv, CodeOf, Quiet, TypeOK, SameCode
    <3>5. QED
      BY <3>2, <3>3, <3>4
  <2>10. ASSUME NEW p \in Procs, CompileMiss(p) PROVE OwnCode'
    BY <2>10
    DEF SameCode, CompileMiss, Goto, disk, local, TypeOK, CalmInv, Quiet, OwnCode,
        CodeOf, CallFits, CallFitsOf, Fits, NoEntries
  <2>11. ASSUME NEW p \in Procs, CompileFails(p) PROVE OwnCode'
    BY <2>11
    DEF CompileFails, Raise, Forget, Goto, disk, local, TypeOK, CalmInv, Quiet,
        OwnCode, CodeOf, CallFits, CallFitsOf, Fits, NoEntries
  <2>12. ASSUME NEW p \in Procs, Save(p) PROVE OwnCode'
    BY <2>12
    DEF SameCode, Save, LoadedIndex, NoEntries, Goto, disk, local, TypeOK, CalmInv,
        Quiet, OwnCode, CodeOf, CallFits, CallFitsOf, Fits
  <2>13. ASSUME NEW p \in Procs, SaveIndex(p) PROVE OwnCode'
    <3>1. /\ pc[p] = "save_index" /\ pc' = [pc EXCEPT ![p] = "save_data"]
          /\ UNCHANGED <<code, key, overloads, result>>
      BY <2>13 DEF SaveIndex, Goto, local
    <3>2. OwnCodeAt(p)
      BY OwnCodeIs DEF CalmInv
    <3>3. pc'[p] = "save_data"
      BY <3>1 DEF TypeOK
    <3>4. OwnCodeAt(p)'
      BY <3>1, <3>2, <3>3 DEF OwnCodeAt, Quiet, CodeOf
    <3>5. QED
      BY <3>1, <3>4, OwnCodeFrame
  <2>14. ASSUME NEW p \in Procs, SaveData(p) PROVE OwnCode'
    <3>1. /\ pc[p] = "save_data" /\ pc' = [pc EXCEPT ![p] = "returning"]
          /\ UNCHANGED <<code, key, overloads, result>>
      BY <2>14 DEF SaveData, Goto, local
    <3>2. OwnCodeAt(p)
      BY OwnCodeIs DEF CalmInv
    <3>3. pc'[p] = "returning"
      BY <3>1 DEF TypeOK
    <3>4. OwnCodeAt(p)'
      BY <3>1, <3>2, <3>3 DEF OwnCodeAt, Quiet, CodeOf
    <3>5. QED
      BY <3>1, <3>4, OwnCodeFrame
  <2>15. ASSUME NEW p \in Procs, SaveFails(p) PROVE OwnCode'
    <3>1. /\ pc[p] \in {"save_index", "save_data"} /\ pc' = [pc EXCEPT ![p] = "idle"]
          /\ key' = [key EXCEPT ![p] = None] /\ result' = [result EXCEPT ![p] = None]
          /\ UNCHANGED <<code, overloads>>
      BY <2>15 DEF SaveFails, Raise, Forget, Goto, local
    <3>2. OwnCodeAt(p)
      BY OwnCodeIs DEF CalmInv
    <3>3. pc'[p] = "idle" /\ result'[p] = None
      BY <3>1 DEF TypeOK
    <3>4. OwnCodeAt(p)'
      BY <3>1, <3>2, <3>3 DEF OwnCodeAt, Quiet, CodeOf
    <3>5. QED
      BY <3>1, <3>4, OwnCodeFrame
  <2>16. ASSUME NEW p \in Procs, Return(p) PROVE OwnCode'
    <3>1. /\ pc[p] = "returning" /\ pc' = [pc EXCEPT ![p] = "idle"]
          /\ key' = [key EXCEPT ![p] = None] /\ result' = [result EXCEPT ![p] = None]
          /\ UNCHANGED <<code, overloads>>
      BY <2>16 DEF Return, Forget, Goto, local
    <3>2. OwnCodeAt(p)
      BY OwnCodeIs DEF CalmInv
    <3>3. pc'[p] = "idle" /\ result'[p] = None
      BY <3>1 DEF TypeOK
    <3>4. OwnCodeAt(p)'
      BY <3>1, <3>2, <3>3 DEF OwnCodeAt, Quiet, CodeOf
    <3>5. QED
      BY <3>1, <3>4, OwnCodeFrame
  <2>17. ASSUME NEW p \in Procs, Recompile(p) PROVE OwnCode'
    BY <2>17
    DEF Recompile, MayStart, NoEntries, local, TypeOK, CalmInv, Quiet, OwnCode,
        CodeOf, CallFits, CallFitsOf, Fits
  <2>18. ASSUME NEW p \in Procs, Exit(p) PROVE OwnCode'
    BY <2>18
    DEF Exit, Forget, Goto, disk, Calm, NoEntries, TypeOK, CalmInv, Quiet,
        OwnCode, CodeOf, CallFits, CallFitsOf, Fits
  <2>19. CASE UNCHANGED vars
    BY <2>19
    DEF vars, TypeOK, CalmInv, Quiet, OwnCode, CodeOf, CallFits, CallFitsOf,
        Fits, NoEntries
  <2>20. QED
    BY <2>1, <2>2, <2>3, <2>4, <2>5, <2>6, <2>7, <2>8, <2>9, <2>10, <2>11,
        <2>12, <2>13, <2>14, <2>15, <2>16, <2>17, <2>18, <2>19
    DEF Next, CacheStep
<1>2. QED
  BY <1>1

(* The data files fit the index.  Only a save may break that, between its  *)
(* two file replacements, and only for its own key.                        *)
LEMMA DiskFitsStep ==
  ASSUME Calm, TypeOK, InjectiveInv, CalmInv, [Next]_vars
  PROVE  DiskFits'
<1>1. ASSUME UNCHANGED <<index, data>>,
             \A q \in Procs : pc[q] = "save_data" =>
               pc'[q] = "save_data" /\ key'[q] = key[q]
      PROVE  DiskFits'
  BY <1>1 DEF DiskFits, CalmInv, Fits
<1>2. CASE LoseIndex
  BY <1>2 DEF LoseIndex, NoIndex, NoEntries, DiskFits, Fits
<1>3. ASSUME NEW n \in Names, LoseData(n) PROVE DiskFits'
  <2>1. UNCHANGED <<index, pc, key>>
        /\ \A m \in Names : data'[m] = None \/ data'[m] = data[m]
    BY <1>3 DEF LoseData, TypeOK
  <2>2. ASSUME NEW k \in Keys,
               Fits(index.entries[k], [key |-> k, version |-> index.stamp])
        PROVE  Fits(index.entries[k], [key |-> k, version |-> index.stamp])'
    <3>1. index.entries[k] \in Names \cup {None}
      BY DEF TypeOK, Entries
    <3>2. QED
      BY <2>1, <2>2, <3>1 DEF Fits, SameCode
  <2>3. QED
    BY <2>1, <2>2 DEF DiskFits, CalmInv
<1>4. ASSUME NEW p \in Procs, Recompile(p) PROVE DiskFits'
  <2>1. CASE index' = [stamp |-> stamp[p], entries |-> NoEntries]
    BY <2>1 DEF NoEntries, DiskFits, Fits
  <2>2. CASE UNCHANGED index
    BY <1>4, <1>1, <2>2 DEF Recompile
  <2>3. QED
    BY <1>4, <2>1, <2>2 DEF Recompile
<1>5. ASSUME NEW p \in Procs, SaveIndex(p) PROVE DiskFits'
  <2>1. /\ pc'[p] = "save_data" /\ key'[p] = key[p]
        /\ index'.entries = entries[p] /\ data' = data
        /\ EditRace \/ index'.stamp = code[p]
    BY <1>5 DEF SaveIndex, Goto, TypeOK, CalmInv, StampIsCode
  <2>2. ASSUME NEW k \in Keys, k # key[p]
        PROVE  Fits(entries[p][k], CodeOf(p, k))
    BY <1>5, <2>2 DEF SaveIndex, CalmInv, CallFits, CallFitsOf
  <2>3. QED
    BY <2>1, <2>2 DEF DiskFits, Fits, CodeOf, SameCode
<1>6. ASSUME NEW p \in Procs, SaveData(p) PROVE DiskFits'
  <2>1. /\ key[p] \in Keys /\ name[p] \in Names
        /\ index' = index /\ pc[p] = "save_data"
        /\ EditRace \/ stamp[p] = code[p]
        /\ \E d : /\ SameCode(d, CodeOf(p, key[p]))
                 /\ data' = [data EXCEPT ![name[p]] = d]
    <3>1. pc[p] = "save_data" /\ index' = index
      BY <1>6 DEF SaveData
    <3>2. key[p] \in Keys /\ name[p] \in Names
      BY <3>1 DEF TypeOK, Quiet
    <3>3. EditRace \/ stamp[p] = code[p]
      BY <3>1 DEF CalmInv, StampIsCode, Quiet
    <3>4. \E d : /\ SameCode(d, CodeOf(p, key[p]))
                /\ data' = [data EXCEPT ![name[p]] = d]
      <4>1. SameCode(overloads[p][key[p]], CodeOf(p, key[p]))
        BY <3>1, <3>2 DEF CalmInv, OwnCode
      <4>2. QED
        BY <1>6, <4>1 DEF SaveData
    <3>5. QED
      BY <3>1, <3>2, <3>3, <3>4
  <2>2. SUFFICES ASSUME NEW k \in Keys, index.entries[k] # None
                 PROVE  \/ data'[index.entries[k]] = None
                        \/ SameCode(data'[index.entries[k]],
                                    [key |-> k, version |-> index.stamp])
    BY <2>1 DEF DiskFits, Fits
  <2>3. index.entries[k] \in Names
    BY <2>2 DEF TypeOK, Entries
  <2>4. CASE index.entries[k] = name[p]
    <3>1. k = key[p] /\ (EditRace \/ index.stamp = code[p])
      BY <2>1, <2>4 DEF CalmInv, CallFits, CallFitsOf
    <3>2. QED
      BY <2>1, <2>3, <2>4, <3>1 DEF TypeOK, CodeOf, SameCode
  <2>5. CASE index.entries[k] # name[p]
    <3>1. k # key[p]
      BY <2>1, <2>2, <2>5 DEF CalmInv, CallFits, CallFitsOf
    <3>2. ~ \E q \in Procs : pc[q] = "save_data" /\ key[q] = k
      BY <2>1, <3>1 DEF CalmInv, OneAtATime, Quiet
    <3>3. Fits(index.entries[k], [key |-> k, version |-> index.stamp])
      BY <3>2 DEF CalmInv, DiskFits
    <3>4. QED
      BY <2>1, <2>2, <2>3, <2>5, <3>3 DEF Fits, TypeOK
  <2>6. QED
    BY <2>4, <2>5
<1>7. CASE EditSource
  BY <1>1, <1>7 DEF EditSource
<1>8. CASE UNCHANGED vars
  BY <1>1, <1>8 DEF vars
<1>9. ASSUME NEW p \in Procs, pc[p] # "save_data", UNCHANGED <<index, data>>,
             \A q \in Procs \ {p} : pc'[q] = pc[q] /\ key'[q] = key[q]
      PROVE  DiskFits'
  BY <1>1, <1>9
<1>10. ASSUME NEW p \in Procs,
              \/ Import(p) \/ EnableCaching(p) \/ LoadIndex(p) \/ LoadData(p)
              \/ CompileMiss(p) \/ CompileFails(p) \/ Save(p) \/ Return(p)
              \/ SaveFails(p) \/ Exit(p)
              \/ \E k \in Keys : Existing(p, k) \/ Compile(p, k)
       PROVE  DiskFits'
  <2>1. pc[p] # "save_data"
    BY <1>10
    DEF Calm, Import, EnableCaching, LoadIndex, LoadData, CompileMiss,
        CompileFails, Save, Return, SaveFails, Exit, Existing, Compile
  <2>2. \A q \in Procs \ {p} : pc'[q] = pc[q] /\ key'[q] = key[q]
    BY <1>10
    DEF TypeOK, Goto, Forget, Raise, Import, EnableCaching, LoadIndex,
        LoadData, CompileMiss, CompileFails, Save, Return, SaveFails, Exit,
        Existing, Compile
  <2>3. UNCHANGED <<index, data>>
    BY <1>10
    DEF disk, Import, EnableCaching, LoadIndex, LoadData, CompileMiss,
        CompileFails, Save, Return, SaveFails, Exit, Existing, Compile
  <2>4. QED
    BY <1>9, <2>1, <2>2, <2>3
<1>11. QED
  BY <1>2, <1>3, <1>4, <1>5, <1>6, <1>7, <1>8, <1>10 DEF Next, CacheStep

(* The data files fit what a call under way knows of the index.            *)
LEMMA CallFitsStep ==
  ASSUME Calm, TypeOK, InjectiveInv, CalmInv, [Next]_vars
  PROVE  CallFits'
<1>1. ASSUME NEW q \in Procs, Quiet(q)' PROVE CallFitsOf(q)'
  BY <1>1 DEF CallFitsOf, Quiet
<1>2. ASSUME NEW q \in Procs, pc'[q] \in {"load_index", "compile", "save",
                                          "returning"}
      PROVE  CallFitsOf(q)'
  BY <1>2 DEF CallFitsOf
<1>3. ASSUME NEW q \in Procs, UNCHANGED <<index, data>>, pc'[q] = pc[q],
             key'[q] = key[q], name'[q] = name[q], entries'[q] = entries[q],
             code'[q] = code[q], stamp'[q] = stamp[q]
      PROVE  CallFitsOf(q)'
  BY <1>3 DEF CallFitsOf, CalmInv, CallFits, Fits, CodeOf
<1>4. CASE EditSource
  BY <1>3, <1>4 DEF EditSource, CallFits
<1>5. CASE UNCHANGED vars
  BY <1>3, <1>5 DEF vars, CallFits
<1>6. CASE LoseIndex
  <2>1. /\ index' = NoIndex /\ UNCHANGED <<data, pc, key, name, entries, code, stamp>>
    BY <1>6 DEF LoseIndex
  <2>2. ASSUME NEW k \in Keys PROVE index'.entries[k] = None
    BY <2>1 DEF NoIndex, NoEntries
  <2>3. ASSUME NEW q \in Procs PROVE CallFitsOf(q)'
    <3>1. CallFitsOf(q)
      BY DEF CalmInv, CallFits
    <3>2. pc[q] = "load_data" => Fits(name[q], CodeOf(q, key[q]))'
      BY <2>1, <3>1 DEF CallFitsOf, Fits, CodeOf
    <3>3. pc[q] = "save_index" =>
            /\ entries[q][key[q]] = name[q]
            /\ \A k \in Keys \ {key[q]} : Fits(entries[q][k], CodeOf(q, k))'
      BY <2>1, <3>1 DEF CallFitsOf, Fits, CodeOf
    <3>4. pc[q] = "save_data" => key[q] \in Keys /\ name[q] # None
      BY NamesType DEF TypeOK, Quiet
    <3>5. QED
      BY <2>1, <2>2, <3>2, <3>3, <3>4 DEF CallFitsOf
  <2>4. QED
    BY <2>3, Zenon DEF CallFits
<1>7. ASSUME NEW n \in Names, LoseData(n) PROVE CallFits'
  BY <1>7 DEF LoseData, CallFits, CallFitsOf, CalmInv, Fits, CodeOf, TypeOK
<1>8. ASSUME NEW p \in Procs, ~ Quiet(p) \/ MayStart(p),
             NEW q \in Procs, q # p, pc'[q] = pc[q]
      PROVE  CallFitsOf(q)'
  BY <1>1, <1>8 DEF Calm, MayStart, CalmInv, OneAtATime, Quiet
<1>9. ASSUME NEW p \in Procs, Save(p) PROVE CallFits'
  <2> DEFINE e == LoadedIndex(p)
  <2>1. /\ pc[p] = "save" /\ key[p] \in Keys
        /\ EditRace \/ stamp[p] = code[p]
        /\ \A q \in Procs \ {p} : pc'[q] = pc[q]
        /\ UNCHANGED <<index, data, key, code, stamp>>
    BY <1>9 DEF Save, disk, local, Goto, TypeOK, Quiet, CalmInv, StampIsCode
  <2>2. ~ \E q \in Procs : pc[q] = "save_data"
    BY <2>1 DEF CalmInv, OneAtATime, Quiet
  <2>3. /\ e \in Entries /\ Injective(e)
        /\ \A k \in Keys : Fits(e[k], CodeOf(p, k))
    BY <2>1, <2>2, NoEntriesInjective, NoEntriesType
    DEF LoadedIndex, TypeOK, InjectiveInv, CalmInv, DiskFits, NoEntries, Fits,
        CodeOf, SameCode
  <2>4. CallFitsOf(p)'
    <3>1. CASE e[key[p]] # None
      <4>1. /\ pc'[p] = "save_data" /\ name'[p] = e[key[p]]
        BY <1>9, <3>1 DEF Save, Goto, TypeOK
      <4>2. index.stamp = stamp[p] /\ e = index.entries
        BY <2>1, <3>1 DEF LoadedIndex, NoEntries
      <4>3. QED
        BY <2>1, <2>3, <3>1, <4>1, <4>2 DEF CallFitsOf, Injective
    <3>2. CASE e[key[p]] = None
      <4>1. PICK n \in Names :
              /\ pc'[p] = "save_index" /\ name'[p] = n
              /\ entries'[p] = [e EXCEPT ![key[p]] = n]
        BY <1>9, <3>2 DEF Save, Goto, TypeOK
      <4> HIDE DEF e
      <4>2. QED
        BY <2>1, <2>3, <4>1 DEF CallFitsOf, Fits, CodeOf, Entries
    <3>3. QED
      BY <3>1, <3>2
  <2>5. QED
    BY <1>8, <2>1, <2>4 DEF CallFits, Quiet
<1>10. ASSUME NEW p \in Procs, LoadIndex(p) PROVE CallFits'
  <2>1. /\ pc[p] = "load_index" /\ key[p] \in Keys
        /\ EditRace \/ stamp[p] = code[p]
        /\ \A q \in Procs \ {p} : pc'[q] = pc[q]
        /\ UNCHANGED <<index, data, key, code, stamp>>
    BY <1>10
    DEF LoadIndex, disk, local, Goto, TypeOK, Quiet, CalmInv, StampIsCode
  <2>2. ~ \E q \in Procs : pc[q] = "save_data"
    BY <2>1 DEF CalmInv, OneAtATime, Quiet
  <2>3. Fits(LoadedIndex(p)[key[p]], CodeOf(p, key[p]))
    BY <2>1, <2>2
    DEF LoadedIndex, CalmInv, DiskFits, NoEntries, Fits, CodeOf, SameCode
  <2>4. CallFitsOf(p)'
    BY <1>10, <2>1, <2>3 DEF LoadIndex, Goto, TypeOK, CallFitsOf, Fits, CodeOf
  <2>5. QED
    BY <1>8, <2>1, <2>4 DEF CallFits, Quiet
<1>11. ASSUME NEW p \in Procs, SaveIndex(p) PROVE CallFits'
  <2>1. /\ pc[p] = "save_index" /\ key[p] \in Keys /\ name[p] \in Names
        /\ pc' = [pc EXCEPT ![p] = "save_data"]
        /\ index' = [stamp |-> stamp[p], entries |-> entries[p]]
        /\ UNCHANGED <<key, name, stamp>>
    BY <1>11 DEF SaveIndex, local, Goto, TypeOK, Quiet
  <2>2. entries[p][key[p]] = name[p] /\ Injective(entries[p])
    BY <2>1 DEF CalmInv, CallFits, CallFitsOf, InjectiveInv
  <2>3. CallFitsOf(p)'
    BY <2>1, <2>2, NamesType DEF CallFitsOf, Injective, TypeOK
  <2>4. QED
    BY <1>8, <2>1, <2>3 DEF CallFits, Quiet, TypeOK
<1>12. ASSUME NEW p \in Procs,
              ~ Quiet(p) \/ MayStart(p),
              \A q \in Procs \ {p} : pc'[q] = pc[q],
              pc'[p] \notin {"load_data", "save_index", "save_data"}
       PROVE  CallFits'
  <2>1. CallFitsOf(p)'
    BY <1>12 DEF CallFitsOf
  <2>2. QED
    BY <1>8, <1>12, <2>1 DEF CallFits
<1>13. ASSUME NEW p \in Procs,
              \/ SaveData(p) \/ Recompile(p) \/ LoadData(p) \/ CompileFails(p)
              \/ SaveFails(p) \/ Return(p)
              \/ \E k \in Keys : Existing(p, k) \/ Compile(p, k)
       PROVE  CallFits'
  <2>1. ~ Quiet(p) \/ MayStart(p)
    BY <1>13
    DEF Quiet, SaveData, Recompile, LoadData, CompileFails, SaveFails, Return,
        Existing, Compile
  <2>2. /\ \A q \in Procs \ {p} : pc'[q] = pc[q]
        /\ pc'[p] \notin {"load_data", "save_index", "save_data"}
    BY <1>13
    DEF TypeOK, Goto, Raise, SaveData, Recompile, LoadData, CompileFails,
        SaveFails, Return, Existing, Compile
  <2>3. QED
    BY <1>12, <2>1, <2>2
<1>14. ASSUME NEW p \in Procs, CompileMiss(p) PROVE CallFits'
  <2>1. pc[p] = "compile" /\ \/ pc' = [pc EXCEPT ![p] = "save"]
                             \/ pc' = [pc EXCEPT ![p] = "returning"]
    BY <1>14 DEF CompileMiss, Goto
  <2>2. QED
    BY <1>12, <2>1 DEF Quiet, TypeOK
<1>15. ASSUME NEW p \in Procs, Import(p) \/ EnableCaching(p) \/ Exit(p)
       PROVE  CallFits'
  <2>1. ASSUME NEW q \in Procs, q # p PROVE CallFitsOf(q)'
    BY <1>3, <1>15, <2>1
    DEF Import, EnableCaching, Exit, Forget, Goto, disk, TypeOK
  <2>2. CallFitsOf(p)'
    BY <1>1, <1>15 DEF Import, EnableCaching, Exit, Goto, TypeOK, Quiet
  <2>3. QED
    BY <2>1, <2>2 DEF CallFits
<1>16. QED
  BY <1>4, <1>5, <1>6, <1>7, <1>9, <1>10, <1>11, <1>13, <1>14, <1>15
  DEF Next, CacheStep

(* The invariant holds as long as no two processes are in the cache at once *)
(* and every save ends (IndexDataCacheFile).                               *)
LEMMA CalmInvAlways ==
  ASSUME Calm
  PROVE  Spec => []CalmInv
<1>1. Init => CalmInv
  BY NoEntriesType
  DEF Init, CalmInv, OneAtATime, StampIsCode, OwnCode, DiskFits, CallFits,
      CallFitsOf, Fits, CodeOf, Quiet, NoIndex, NoEntries
<1>2. TypeOK /\ InjectiveInv /\ CalmInv /\ [Next]_vars => CalmInv'
  BY OneAtATimeStep, StampIsCodeStep, OwnCodeStep, DiskFitsStep, CallFitsStep
  DEF CalmInv
<1>3. QED
  BY <1>1, <1>2, TypeCorrect, InjectiveAlways, PTL DEF Spec

(* compile(sig) returns code of sig, even when the source is edited between *)
(* import and decoration: a data file may then hold another text's code,   *)
(* but the index still names it under its own signature.                   *)
THEOREM SignatureAlwaysRight ==
  ASSUME Calm
  PROVE  Spec => []RightSignature
<1>1. CalmInv => RightSignature
  BY DEF CalmInv, OwnCode, CodeOf, SameCode, RightSignature
<1>2. QED
  BY <1>1, CalmInvAlways, PTL

(* A cache that no second process, broken save or edit race disturbs is    *)
(* transparent: compile(sig) returns code compiled from the text the       *)
(* process imported, whatever is edited, lost, flushed or killed between   *)
(* the calls.                                                              *)
THEOREM CacheTransparent ==
  ASSUME Calm, ~ EditRace
  PROVE  Spec => [](RightSignature /\ FreshCode)
<1>1. CalmInv => RightSignature /\ FreshCode
  BY DEF CalmInv, OwnCode, CodeOf, SameCode, RightSignature, FreshCode
<1>2. QED
  BY <1>1, CalmInvAlways, PTL

-----------------------------------------------------------------------------
(* The copy of the index that a save() under way will write back still has *)
(* everything that the index of the same source lists for other keys.      *)
CopyKept ==
  \A p \in Procs :
    pc[p] = "save_index" /\ index.stamp = stamp[p] =>
      \A k \in Keys \ {key[p]} : index.entries[k] \in {None, entries[p][k]}

(* Nobody writes the index between the reading and the writing of save():  *)
(* a second process is not in the cache, and what an editor or a clean-up  *)
(* does to the directory only takes entries away.                          *)
LEMMA CopyKeptStep ==
  ASSUME Calm, TypeOK, CalmInv, CopyKept, [Next]_vars
  PROVE  CopyKept'
<1>1. ASSUME UNCHANGED index,
             \A q \in Procs : pc'[q] = "save_index" =>
               /\ pc[q] = "save_index" /\ stamp'[q] = stamp[q]
               /\ key'[q] = key[q] /\ entries'[q] = entries[q]
      PROVE  CopyKept'
  BY <1>1 DEF CopyKept
<1>2. CASE EditSource \/ (\E n \in Names : LoseData(n)) \/ UNCHANGED vars
  BY <1>1, <1>2 DEF EditSource, LoseData, vars
<1>3. CASE LoseIndex
  BY <1>3 DEF LoseIndex, NoIndex, NoEntries, CopyKept
<1>4. ASSUME NEW p \in Procs,
             \A q \in Procs : pc'[q] # "save_index"
      PROVE  CopyKept'
  BY <1>4 DEF CopyKept
<1>5. ASSUME NEW p \in Procs, Save(p) PROVE CopyKept'
  <2>1. /\ pc[p] = "save" /\ key[p] \in Keys /\ p \in Procs
        /\ \A q \in Procs \ {p} : pc'[q] = pc[q]
        /\ UNCHANGED <<index, key, stamp>>
    BY <1>5 DEF Save, disk, local, Goto, TypeOK, Quiet
  <2>2. \A q \in Procs \ {p} : pc'[q] # "save_index"
    BY <2>1 DEF CalmInv, OneAtATime, Quiet
  <2>3. ASSUME pc'[p] = "save_index", index.stamp = stamp[p],
               NEW k \in Keys, k # key[p]
        PROVE  index.entries[k] = entries'[p][k]
    <3>1. LoadedIndex(p) = index.entries /\ index.entries \in Entries
      BY <2>3 DEF LoadedIndex, TypeOK
    <3>2. PICK n \in Names :
            entries' = [entries EXCEPT ![p] =
                          [index.entries EXCEPT ![key[p]] = n]]
      BY <1>5, <2>1, <2>3, <3>1 DEF Save, Goto, TypeOK
    <3>3. QED
      BY <2>3, <3>1, <3>2 DEF TypeOK, Entries
  <2>4. QED
    BY <2>1, <2>2, <2>3 DEF CopyKept
<1>6. ASSUME NEW p \in Procs, SaveIndex(p) \/ Recompile(p)
      PROVE  CopyKept'
  <2>1. ASSUME NEW q \in Procs PROVE pc'[q] # "save_index"
    <3>1. CASE SaveIndex(p)
      BY <3>1 DEF SaveIndex, Goto, TypeOK, CalmInv, OneAtATime, Quiet
    <3>2. CASE Recompile(p)
      BY <3>2 DEF Recompile, MayStart, Calm, TypeOK, Quiet
    <3>3. QED
      BY <1>6, <3>1, <3>2
  <2>2. QED
    BY <1>4, <1>6, <2>1
<1>7. ASSUME NEW p \in Procs, UNCHANGED index, pc'[p] # "save_index",
             \A q \in Procs \ {p} :
               /\ pc'[q] = pc[q] /\ stamp'[q] = stamp[q]
               /\ key'[q] = key[q] /\ entries'[q] = entries[q]
      PROVE  CopyKept'
  BY <1>7 DEF CopyKept
<1>8. ASSUME NEW p \in Procs,
             \/ Import(p) \/ EnableCaching(p) \/ LoadIndex(p) \/ LoadData(p)
             \/ CompileMiss(p) \/ CompileFails(p) \/ SaveData(p) \/ Return(p)
             \/ SaveFails(p) \/ Exit(p)
             \/ \E k \in Keys : Existing(p, k) \/ Compile(p, k)
      PROVE  CopyKept'
  <2>1. UNCHANGED index
    BY <1>8
    DEF disk, Import, EnableCaching, LoadIndex, LoadData, CompileMiss,
        CompileFails, SaveData, Return, SaveFails, Exit, Existing, Compile
  <2>2. pc'[p] # "save_index"
    BY <1>8
    DEF TypeOK, Goto, Raise, Import, EnableCaching, LoadIndex, LoadData,
        CompileMiss, CompileFails, SaveData, Return, SaveFails, Exit,
        Existing, Compile
  <2>3. \A q \in Procs \ {p} :
          /\ pc'[q] = pc[q] /\ stamp'[q] = stamp[q]
          /\ key'[q] = key[q] /\ entries'[q] = entries[q]
    BY <1>8
    DEF TypeOK, Goto, Forget, Raise, local, Import, EnableCaching, LoadIndex,
        LoadData, CompileMiss, CompileFails, SaveData, Return, SaveFails,
        Exit, Existing, Compile
  <2>4. QED
    BY <1>7, <2>1, <2>2, <2>3
<1>9. QED
  BY <1>2, <1>3, <1>5, <1>6, <1>8 DEF Next, CacheStep

(* In a calm cache directory a save that ends is on disk, under the data   *)
(* file the index names, and replacing the index loses no other overload   *)
(* (IndexDataCacheFile.save).                                              *)
THEOREM SavesAlwaysKept ==
  ASSUME Calm
  PROVE  Spec => SavesKept
<1>1. Init => CopyKept
  BY DEF Init, CopyKept
<1>2. Spec => []CalmInv
  BY CalmInvAlways
<1>3. TypeOK /\ CalmInv /\ CopyKept /\ [Next]_vars => CopyKept'
  BY CopyKeptStep
<1>4. TypeOK /\ CalmInv /\ CopyKept /\ [Next]_vars =>
        [\A p \in Procs :
           SaveIndex(p) /\ index.stamp = stamp[p] =>
             \A k \in Keys \ {key[p]} :
               index.entries[k] # None => index'.entries[k] = index.entries[k]]_vars
  BY DEF SaveIndex, CopyKept
<1>5. TypeOK /\ CalmInv /\ CopyKept /\ [Next]_vars =>
        [\A p \in Procs :
           SaveData(p) /\ index.stamp = stamp[p]
             /\ index.entries[key[p]] # None =>
               data'[index.entries[key[p]]] = overloads[p][key[p]]]_vars
  <2>1. ASSUME TypeOK, CalmInv, NEW p \in Procs, SaveData(p),
               index.entries[key[p]] # None
        PROVE  data'[index.entries[key[p]]] = overloads[p][key[p]]
    BY <2>1
    DEF SaveData, CalmInv, CallFits, CallFitsOf, TypeOK
  <2>2. QED
    BY <2>1
<1>6. QED
  BY <1>1, <1>2, <1>3, <1>4, <1>5, TypeCorrect, PTL
  DEF Spec, SavesKept, EntriesKept, SaveLands

=============================================================================
