------------------------------- MODULE Storer -------------------------------
(***************************************************************************)
(* storer_lib.c over one chunk partition of the filesystem: the request    *)
(* handler looks for the chunks since a timestamp and takes them one by    *)
(* one, while the processing code goes on storing.                         *)
(*                                                                         *)
(* tb_encode and tb_decode are inverse to each other on chunks; the data   *)
(* of an element is its number, Stamp its timestamp.  Each call runs to    *)
(* its end before the other context gets to the partition: both are run    *)
(* by the scheduler.                                                       *)
(***************************************************************************)
EXTENDS Filesystem, FiniteSetsExt

CONSTANTS
  Stamp,      \* the timestamp of each chunk: the hub may set the clock back
  Requested   \* bound: the timestamps that are asked for

VARIABLES
  found_timestamp,  \* the iterator is on a chunk that was not taken yet
  from,             \* the first chunk this reading is about, 0 if there is none
  got,              \* the chunks taken in this reading
  answer            \* what the last call of the reader returned

reader == <<found_timestamp, from, got, answer>>
storervars == <<vars, reader>>

Depth == partition_size \div HdrLen

StorerInit ==
  /\ Init
  /\ found_timestamp = FALSE
  /\ from = 0
  /\ got = << >>
  /\ answer = "none"
-----------------------------------------------------------------------------
(* find_chunk_from_timestamp: back from the latest chunk to the first that *)
(* is older than the timestamp, then one forward.                          *)
Ended(ret, found, s) == [ret |-> ret, found |-> found, s |-> s]
Aborted(r) == Ended(r.ret, FALSE, Invalidated(r.s))

(* Mutant: a chunk that is exactly as old as asked for counts as older. *)
OlderMut(v, stamp) == Stamp[v] <= stamp

(* storer_compare_timestamps *)
Older(v, stamp) == Stamp[v] < stamp

(* The loop runs on while ret is "NONE". *)
FindStep(stamp, c) ==
  LET Forward(n) ==
        CASE n.ret = "SUCCESS" -> Ended("SUCCESS", TRUE, n.s)
          [] n.ret = "NOT_FOUND" -> Ended("SUCCESS", FALSE, n.s)
          [] OTHER -> Aborted(n)
      Back(p) ==
        CASE p.ret = "SUCCESS" -> Ended("NONE", FALSE, p.s)
          [] p.ret = "NOT_FOUND" -> Ended("SUCCESS", TRUE, p.s)
          [] OTHER -> Aborted(p)
      At(r) ==
        IF r.ret \notin {"SUCCESS", "INVALID_DATA"} THEN Aborted(r)
        ELSE IF r.ret = "SUCCESS" /\ Older(r.val, stamp)
          THEN Forward(IteratorNext(r.s)) ELSE Back(IteratorPrevious(r.s))
  IN  IF c.ret # "NONE" THEN c ELSE At(IteratorRead(c.s))

Search(stamp, start) ==
  LET at[k \in 0 .. Depth] == IF k = 0 THEN start ELSE FindStep(stamp, at[k - 1])
  IN  at

FindChunk(s, stamp) ==
  LET From(i) == IF i.ret # "SUCCESS" THEN Aborted(i)
                 ELSE Search(stamp, Ended("NONE", FALSE, i.s))[Depth]
  IN  From(IteratorInit(s))

(* Mutant: found_timestamp is not taken back, the same chunk comes again. *)
TakenMut(r) == [ret |-> r.ret, found |-> TRUE, val |-> r.val, s |-> r.s]

Taken(r) == [ret |-> r.ret, found |-> FALSE, val |-> r.val, s |-> r.s]

(* get_next_chunk: chunks whose data is not valid are passed over. *)
NextStep(c) ==
  LET At(r) ==
        CASE r.ret = "SUCCESS" -> Taken(r)
          [] r.ret = "INVALID_DATA" -> Ended("NONE", FALSE, r.s)
          [] OTHER -> Aborted(r)
      To(n) == IF n.ret = "SUCCESS" THEN At(IteratorRead(n.s)) ELSE Aborted(n)
  IN  IF c.ret # "NONE" THEN c
      ELSE IF c.found THEN At(IteratorRead(c.s)) ELSE To(IteratorNext(c.s))

Skip(start) ==
  LET at[k \in 0 .. Depth] == IF k = 0 THEN start ELSE NextStep(at[k - 1])
  IN  at

GetNextChunk(s, found) == Skip(Ended("NONE", found, s))[Depth]
-----------------------------------------------------------------------------
(* From this chunk on none that was given to the storer is older.          *)
FirstWanted(stamp) ==
  LET given == attempts + Flag(retry # 0)
  IN  Min({k \in 1 .. given + 1 : \A v \in k .. given : Stamp[v] >= stamp})

StopReading == from' = 0 /\ got' = << >>

(* storer_find_..._chunk_from_timestamp *)
FindChunkFromTimestamp(stamp) ==
  /\ mode = "up"
  /\ \E f \in {FindChunk(Now, stamp)} :
       /\ Become(f.s)
       /\ found_timestamp' = f.found
       /\ answer' = f.ret
       /\ from' = IF f.ret = "SUCCESS" THEN FirstWanted(stamp) ELSE 0
  /\ got' = << >>
  /\ UNCHANGED <<mode, ghosts, bounds>>

(* storer_get_next_..._chunk *)
GetNextChunkCall ==
  /\ mode = "up"
  /\ from # 0
  /\ \E n \in {GetNextChunk(Now, found_timestamp)} :
       /\ Become(n.s)
       /\ found_timestamp' = n.found
       /\ answer' = n.ret
       /\ IF n.ret = "SUCCESS" THEN got' = Append(got, n.val) /\ UNCHANGED from
                               ELSE StopReading
  /\ UNCHANGED <<mode, ghosts, bounds>>

(* storer_invalidate_iterators *)
InvalidateIterators ==
  /\ mode = "up"
  /\ Become(Invalidated(Now))
  /\ answer' = "none"
  /\ StopReading
  /\ UNCHANGED <<mode, ghosts, bounds, found_timestamp>>

StorerNext ==
  \/ \E stamp \in Requested : FindChunkFromTimestamp(stamp)
  \/ GetNextChunkCall
  \/ InvalidateIterators
  \/ /\ \E len \in Lens : Store(len) \/ StoreFails(len)
     /\ answer' = "none"
     /\ UNCHANGED <<found_timestamp, from, got>>
  \/ /\ Clear
     /\ answer' = "none"
     /\ StopReading
     /\ UNCHANGED found_timestamp
  \/ /\ Register \/ RegisterCrash \/ ClearCrash \/ \E len \in Lens : StoreCrash(len)
     /\ answer' = "none"
     /\ StopReading
     /\ found_timestamp' = FALSE

StorerSpec == StorerInit /\ [][StorerNext]_storervars
-----------------------------------------------------------------------------
(* Properties. *)

(* A reading delivers chunks in the order in which they were stored, none  *)
(* twice, and only chunks of this partition's present contents             *)
(* (find_chunk_from_timestamp, get_next_chunk), whatever is stored while   *)
(* it goes on.                                                             *)
DeliveredInOrder ==
  /\ \A i, j \in DOMAIN got : i < j => got[i] < got[j]
  /\ \A i \in DOMAIN got : base < got[i] /\ got[i] <= attempts + Flag(retry # 0)

(* When a reading ends because there is no next chunk, every chunk it is   *)
(* about and that was not overwritten has been delivered, those stored     *)
(* since it began included.                                                *)
NoneSkipped ==
  [][from # 0 /\ answer' = "NOT_FOUND" =>
       \A e \in Promised : e.v >= from => e.v \in ToSet(got)]_storervars

(* A reading that has begun is not cut short: the storage never takes the  *)
(* element from under its iterator, and both loops come to their end.      *)
ReadingGoesOn ==
  /\ from # 0 => CheckValidity(Now).ret = "SUCCESS"
  /\ answer # "NONE"
=============================================================================
