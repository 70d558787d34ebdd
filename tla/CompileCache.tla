---------------------------- MODULE CompileCache ----------------------------
(***************************************************************************)
(* The on-disk cache of compiled functions (numba/core/caching.py) as the  *)
(* dispatchers of several processes use it (numba/core/dispatcher.py).     *)
(*                                                                         *)
(* One cached function is modelled: its source file, its index file        *)
(* (.nbi) and its numbered data files (.nbc).  Every file-system step is   *)
(* an action of its own, because nothing locks the directory: each         *)
(* os.replace is atomic and everything between two of them interleaves.    *)
(*                                                                         *)
(* A key stands for the whole tuple of Cache._index_key: signature, target *)
(* and the hashes of the bytecode and of the closure.  A version stands    *)
(* for a text of the source file; versions that share a key differ in what *)
(* the bytecode hash leaves out (constants, names).                        *)
(***************************************************************************)
EXTENDS Naturals, FiniteSets

CONSTANTS
  Procs,        \* processes that share the cache directory
  Keys,         \* the index keys of the function's overloads
  Versions,     \* the texts the source file goes through
  None,         \* "no file", "no entry", "not compiled"
  Overlap,      \* may two processes use the cache at the same time?
  SaveBreaks,   \* may a save stop between its two file replacements?
  EditRace      \* may the source change between import and decoration?

ASSUME CacheAssumption ==
  /\ IsFiniteSet(Keys)
  /\ None \notin Versions
  /\ None \notin Nat
  /\ None \notin [key : Keys, version : Versions]
  /\ {Overlap, SaveBreaks, EditRace} \subseteq BOOLEAN

(* The data file numbers.  save() takes the first number no other entry of *)
(* its index uses, so it never needs more of them than there are keys.     *)
Names == 1 .. Cardinality(Keys)

(* What a data file holds: the object code of one overload.                *)
Payload == [key : Keys, version : Versions]
Entries == [Keys -> Names \cup {None}]
NoEntries == [k \in Keys |-> None]

VARIABLES
  source,     \* the version in the source file
  index,      \* the index file: its stamp and its entries, key -> data file
  data,       \* the data files
  pc,         \* where each process is
  code,       \* the version each process imported
  stamp,      \* the source stamp its Cache object took
  key,        \* the key its compile() call is about
  entries,    \* the copy of the index that save() works on
  name,       \* the data file the call reads or writes
  overloads,  \* the overloads in its dispatcher
  result,     \* what its last compile() returned
  todo        \* the signatures recompile() still has to compile

disk  == <<source, index, data>>
local == <<code, stamp>>
vars  == <<source, index, data, pc, code, stamp, key, entries, name,
           overloads, result, todo>>

(* A missing index, and one whose version or stamp is not the reader's,    *)
(* both read as an empty dictionary.                                       *)
NoIndex == [stamp |-> None, entries |-> NoEntries]

PC == {"out", "imported", "idle", "load_index", "load_data", "compile",
       "save", "save_index", "save_data", "returning"}

Init ==
  /\ source \in Versions
  /\ index = NoIndex
  /\ data = [n \in Names |-> None]
  /\ pc = [p \in Procs |-> "out"]
  /\ code = [p \in Procs |-> None]
  /\ stamp = [p \in Procs |-> None]
  /\ key = [p \in Procs |-> None]
  /\ entries = [p \in Procs |-> NoEntries]
  /\ name = [p \in Procs |-> None]
  /\ overloads = [p \in Procs |-> NoEntries]
  /\ result = [p \in Procs |-> None]
  /\ todo = [p \in Procs |-> {}]

-----------------------------------------------------------------------------
(* Mutant of LoadedIndex: the stamp is not compared.                       *)
LoadedIndexAnyStamp(p) == index.entries

(* IndexDataCacheFile._load_index as process p sees it.                    *)
LoadedIndex(p) ==
  IF index.stamp = stamp[p] THEN index.entries ELSE NoEntries

(* Mutant of FirstFree: the numbers in use are not looked at.              *)
FirstNumber(n, e) == n = 1

(* The first data file number that entries e leave free.                   *)
FirstFree(n, e) ==
  /\ \A k \in Keys : e[k] # n
  /\ \A m \in Names : m < n => \E k \in Keys : e[k] = m

Goto(p, l) == pc' = [pc EXCEPT ![p] = l]

(* The call of compile() is over and its locals are gone.                  *)
Forget(p) ==
  /\ key' = [key EXCEPT ![p] = None]
  /\ entries' = [entries EXCEPT ![p] = NoEntries]
  /\ name' = [name EXCEPT ![p] = None]
  /\ result' = [result EXCEPT ![p] = None]
Raise(p) ==
  /\ todo' = [todo EXCEPT ![p] = {}]
  /\ Goto(p, "idle")
  /\ Forget(p)

(* The process is not inside a cache operation.                            *)
Quiet(p) == pc[p] \in {"out", "imported", "idle"}
MayStart(p) == Overlap \/ \A q \in Procs \ {p} : Quiet(q)

-----------------------------------------------------------------------------
(* The editor saves another version of the source file.                    *)
EditSource ==
  /\ EditRace \/ \A p \in Procs : pc[p] # "imported"
  /\ \E v \in Versions \ {source} : source' = v
  /\ UNCHANGED <<index, data, pc, code, stamp, key, entries, name,
                 overloads, result, todo>>

(* Somebody removes the index or a data file from the cache directory.     *)
LoseIndex ==
  /\ index' = NoIndex
  /\ UNCHANGED <<source, data, pc, code, stamp, key, entries, name,
                 overloads, result, todo>>

LoseData(n) ==
  /\ data' = [data EXCEPT ![n] = None]
  /\ UNCHANGED <<source, index, pc, code, stamp, key, entries, name,
                 overloads, result, todo>>

(* A process starts and imports the module that holds the function.        *)
Import(p) ==
  /\ pc[p] = "out"
  /\ code' = [code EXCEPT ![p] = source]
  /\ Goto(p, "imported")
  /\ UNCHANGED <<disk, stamp, key, entries, name, overloads, result, todo>>

(* The @jit decorator runs: Cache.__init__ hashes the file it finds now.   *)
EnableCaching(p) ==
  /\ pc[p] = "imported"
  /\ stamp' = [stamp EXCEPT ![p] = source]
  /\ Goto(p, "idle")
  /\ UNCHANGED <<disk, code, key, entries, name, overloads, result, todo>>

(* compile(sig) where an overload is already filed: it is returned.        *)
(* Inside recompile() only the signatures it saved are asked for.          *)
Existing(p, k) ==
  /\ pc[p] = "idle"
  /\ MayStart(p)
  /\ overloads[p][k] # None
  /\ todo[p] = {} \/ k \in todo[p]
  /\ key' = [key EXCEPT ![p] = k]
  /\ result' = [result EXCEPT ![p] = overloads[p][k]]
  /\ todo' = [todo EXCEPT ![p] = @ \ {k}]
  /\ Goto(p, "returning")
  /\ UNCHANGED <<disk, local, entries, name, overloads>>

(* compile(sig) where there is none yet; the compiler lock lets one call   *)
(* per process through.                                                    *)
Compile(p, k) ==
  /\ pc[p] = "idle"
  /\ MayStart(p)
  /\ overloads[p][k] = None
  /\ todo[p] = {} \/ k \in todo[p]
  /\ key' = [key EXCEPT ![p] = k]
  /\ todo' = [todo EXCEPT ![p] = @ \ {k}]
  /\ Goto(p, "load_index")
  /\ UNCHANGED <<disk, local, entries, name, overloads, result>>

(* load(): read the index; a key it does not list is a cache miss.         *)
LoadIndex(p) ==
  /\ pc[p] = "load_index"
  /\ LET n == LoadedIndex(p)[key[p]] IN
       /\ name' = [name EXCEPT ![p] = n]
       /\ Goto(p, IF n = None THEN "compile" ELSE "load_data")
  /\ UNCHANGED <<disk, local, key, entries, overloads, result, todo>>

(* load(): read the data file; an OSError is a miss.  add_overload files   *)
(* the loaded object under the signature it carries, and compile() returns *)
(* its entry point whatever that signature is.                             *)
LoadData(p) ==
  /\ pc[p] = "load_data"
  /\ LET d == data[name[p]] IN
       IF d = None
       THEN /\ Goto(p, "compile")
            /\ UNCHANGED <<overloads, result>>
       ELSE /\ overloads' = [overloads EXCEPT ![p][d.key] = d]
            /\ result' = [result EXCEPT ![p] = d]
            /\ Goto(p, "returning")
  /\ UNCHANGED <<disk, local, key, entries, name, todo>>

(* The code the process has in memory is compiled and added; an object the *)
(* cache cannot hold (check_cachable) is not saved.                        *)
CompileMiss(p) ==
  /\ pc[p] = "compile"
  /\ LET c == [key |-> key[p], version |-> code[p]] IN
       /\ overloads' = [overloads EXCEPT ![p][key[p]] = c]
       /\ result' = [result EXCEPT ![p] = c]
  /\ Goto(p, "save") \/ Goto(p, "returning")
  /\ UNCHANGED <<disk, local, key, entries, name, todo>>

(* The compilation raises; recompile(), if it is running, is left.         *)
CompileFails(p) ==
  /\ pc[p] = "compile"
  /\ Raise(p)
  /\ UNCHANGED <<disk, local, overloads>>

(* Mutant of Save: the index is not read again, so other keys drop out.    *)
SaveOnlyThisKey(p) ==
  /\ pc[p] = "save"
  /\ \E n \in Names :
       /\ FirstFree(n, LoadedIndex(p))
       /\ name' = [name EXCEPT ![p] = n]
       /\ entries' = [entries EXCEPT ![p] = [NoEntries EXCEPT ![key[p]] = n]]
  /\ Goto(p, "save_index")
  /\ UNCHANGED <<disk, local, key, overloads, result, todo>>

(* save(): read the index again and choose the data file.                  *)
Save(p) ==
  /\ pc[p] = "save"
  /\ LET e == LoadedIndex(p) IN
     \/ /\ e[key[p]] # None
        /\ name' = [name EXCEPT ![p] = e[key[p]]]
        /\ entries' = [entries EXCEPT ![p] = e]
        /\ Goto(p, "save_data")
     \/ /\ e[key[p]] = None
        /\ \E n \in Names :
             /\ FirstFree(n, e)
             /\ name' = [name EXCEPT ![p] = n]
             /\ entries' = [entries EXCEPT ![p] = [e EXCEPT ![key[p]] = n]]
        /\ Goto(p, "save_index")
  /\ UNCHANGED <<disk, local, key, overloads, result, todo>>

(* _save_index: a temporary file replaces the index.                       *)
SaveIndex(p) ==
  /\ pc[p] = "save_index"
  /\ index' = [stamp |-> stamp[p], entries |-> entries[p]]
  /\ Goto(p, "save_data")
  /\ UNCHANGED <<source, data, local, key, entries, name, overloads, result,
                 todo>>

(* _save_data: a temporary file replaces the data file.                    *)
SaveData(p) ==
  /\ pc[p] = "save_data"
  /\ data' = [data EXCEPT ![name[p]] = overloads[p][key[p]]]
  /\ Goto(p, "returning")
  /\ UNCHANGED <<source, index, local, key, entries, name, overloads, result,
                 todo>>

(* compile() hands its result to the caller.                               *)
Return(p) ==
  /\ pc[p] = "returning"
  /\ Goto(p, "idle")
  /\ Forget(p)
  /\ UNCHANGED <<disk, local, overloads, todo>>

(* Writing the temporary file fails (disk full, permission): it is removed *)
(* and the error leaves compile(), after the overload was added.           *)
SaveFails(p) ==
  /\ pc[p] \in {"save_index", "save_data"}
  /\ SaveBreaks \/ pc[p] = "save_index"
  /\ Raise(p)
  /\ UNCHANGED <<disk, local, overloads>>

(* recompile(): forget the overloads and flush the cache, then compile the *)
(* signatures there were (the following Compile steps).  When the flush    *)
(* raises, the overloads are gone and nothing is compiled again.           *)
Recompile(p) ==
  /\ pc[p] = "idle"
  /\ MayStart(p)
  /\ todo[p] = {}
  /\ overloads' = [overloads EXCEPT ![p] = NoEntries]
  /\ \/ /\ index' = [stamp |-> stamp[p], entries |-> NoEntries]
        /\ todo' = [todo EXCEPT ![p] = {k \in Keys : overloads[p][k] # None}]
     \/ UNCHANGED <<index, todo>>
  /\ UNCHANGED <<source, data, pc, local, key, entries, name, result>>

(* The process ends or is killed; what it had replaced stays on disk.      *)
Exit(p) ==
  /\ pc[p] # "out"
  /\ SaveBreaks \/ pc[p] # "save_data"
  /\ code' = [code EXCEPT ![p] = None]
  /\ stamp' = [stamp EXCEPT ![p] = None]
  /\ overloads' = [overloads EXCEPT ![p] = NoEntries]
  /\ todo' = [todo EXCEPT ![p] = {}]
  /\ Goto(p, "out")
  /\ Forget(p)
  /\ UNCHANGED disk

CacheStep(p) ==
  \/ LoadIndex(p) \/ LoadData(p) \/ CompileMiss(p) \/ CompileFails(p)
  \/ Save(p) \/ SaveIndex(p) \/ SaveData(p) \/ SaveFails(p)
  \/ Return(p)

Next ==
  \/ EditSource
  \/ LoseIndex
  \/ \E n \in Names : LoseData(n)
  \/ \E p \in Procs :
       \/ Import(p) \/ EnableCaching(p)
       \/ \E k \in Keys : Existing(p, k) \/ Compile(p, k)
       \/ CacheStep(p)
       \/ Recompile(p) \/ Exit(p)

Spec == Init /\ [][Next]_vars

-----------------------------------------------------------------------------
(* Properties                                                              *)

MaybePayload == Payload \cup {None}

TypeOK ==
  /\ source \in Versions
  /\ index \in [stamp : Versions \cup {None}, entries : Entries]
  /\ data \in [Names -> MaybePayload]
  /\ pc \in [Procs -> PC]
  /\ code \in [Procs -> Versions \cup {None}]
  /\ stamp \in [Procs -> Versions \cup {None}]
  /\ key \in [Procs -> Keys \cup {None}]
  /\ entries \in [Procs -> Entries]
  /\ name \in [Procs -> Names \cup {None}]
  /\ overloads \in [Procs -> [Keys -> MaybePayload]]
  /\ result \in [Procs -> MaybePayload]
  /\ todo \in [Procs -> SUBSET Keys]
  /\ \A p \in Procs :
       /\ pc[p] # "out" => code[p] \in Versions
       /\ ~ Quiet(p) => key[p] \in Keys
       /\ pc[p] \notin {"out", "imported"} => stamp[p] \in Versions
       /\ pc[p] \in {"load_data", "save_index", "save_data"} => name[p] \in Names

Injective(e) ==
  \A j, k \in Keys : e[j] = e[k] /\ e[j] # None => j = k

(* The index never maps two keys to one data file, whatever processes,     *)
(* edits, losses and broken saves do: "one data file per function,         *)
(* function signature" (class Cache).                                      *)
IndexInjective == Injective(index.entries)

(* A finished compile(sig) returned code for sig.                          *)
RightSignature ==
  \A p \in Procs : result[p] # None => result[p].key = key[p]

(* A finished compile(sig) returned code of the text the process imported, *)
(* never code an older or newer text left in the cache.                    *)
FreshCode ==
  \A p \in Procs : result[p] # None => result[p].version = code[p]

(* Replacing the index keeps what the index of the same source lists for   *)
(* every other key: saving one overload does not lose another.             *)
EntriesKept ==
  [][\A p \in Procs :
       SaveIndex(p) /\ index.stamp = stamp[p] =>
         \A k \in Keys \ {key[p]} :
           index.entries[k] # None => index'.entries[k] = index.entries[k]]_vars

(* When save() ends, a load of the same key by a process with the same     *)
(* stamp finds what was saved, unless the index was lost meanwhile.        *)
SaveLands ==
  [][\A p \in Procs :
       SaveData(p) /\ index.stamp = stamp[p]
         /\ index.entries[key[p]] # None =>
           data'[index.entries[key[p]]] = overloads[p][key[p]]]_vars

(* A save that ends is on disk, and nothing another save put there is gone.*)
SavesKept == EntriesKept /\ SaveLands

=============================================================================
