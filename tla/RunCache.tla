------------------------------- MODULE RunCache -------------------------------
(***************************************************************************)
(* runScopedCache of core/go/workflow/cache.go: the read-through and       *)
(* write-through memory of one invocation, shared by the branches of a     *)
(* fan-out.  The lock protects the maps and is not held across a store     *)
(* call, so a call is a lookup, an operation of the store and a            *)
(* write-back, with the other branches' calls in between.  An entry is one *)
(* record of the run: an activity, a timer, an event or the workflow       *)
(* record itself.  Other processes write the store meanwhile, and a write  *)
(* may fail with its effect.                                               *)
(***************************************************************************)
EXTENDS Naturals

CONSTANTS
  Branches,   \* concurrent branches of the invocation
  Entries,    \* the records of the run
  KindOfEntry,\* the kind of each
  Values,     \* versions of a record
  NoRecord,   \* a record that does not exist
  Unknown,    \* an entry the maps do not hold
  MaxMishaps  \* bound on failed writes and writes of other processes

(* Activities, timers and events are listed; only the first two are ever     *)
(* refreshed, and only timers are listed by status.                          *)
Listable == {"activity", "timer", "event"}
Refreshable == {"activity", "timer"}

ASSUME KindsOfEntries == KindOfEntry \in [Entries -> Listable \cup {"workflow"}]
ASSUME UnknownIsNoVersion == Unknown \notin Values \cup {NoRecord}
ASSUME MaxMishapsIsNat == MaxMishaps \in Nat

VARIABLES
  inner,    \* the authoritative store
  cached,   \* the maps; NoRecord is a remembered miss
  listed,   \* the kinds whose entries are all in the maps
  access,   \* the store call of each branch
  suspect,  \* history: entries whose memory a write has overtaken
  mishaps   \* failed writes and foreign writes so far

cacheVars == <<inner, cached, listed, access, suspect, mishaps>>

Contents == Values \cup {NoRecord}

(* A branch's store call: at rest, to be made, or made and to be written      *)
(* back.  It covers some entries; got is what it writes, or what it read;     *)
(* overtaken are the covered entries written behind its back since.           *)
Call(at, do, S, f) ==
  [at |-> at, do |-> do, covers |-> S,
   got |-> [e \in Entries |-> IF e \in S THEN f[e] ELSE NoRecord], overtaken |-> {}]

All(v) == [e \in Entries |-> v]

AtRest == Call("rest", "read", {}, All(NoRecord))

OfKind(k) == {e \in Entries : KindOfEntry[e] = k}

CacheInit ==
  /\ inner \in [Entries -> Contents]
  /\ cached = All(Unknown)
  /\ listed = {}
  /\ access = [b \in Branches |-> AtRest]
  /\ suspect = {}
  /\ mishaps = 0

(* The memory holds something about e, and what it says. *)
Known(e) == cached[e] # Unknown \/ KindOfEntry[e] \in listed

View(e) == IF cached[e] # Unknown THEN cached[e] ELSE NoRecord

Begin(b, o) ==
  /\ access[b] = AtRest
  /\ access' = [access EXCEPT ![b] = o]
  /\ UNCHANGED <<inner, cached, listed, suspect, mishaps>>

-----------------------------------------------------------------------------
(* The lookups: a Get or a List that the memory does not answer, a refresh,  *)
(* and the writes, which always go to the store.                             *)

GetMiss(b, e) == ~ Known(e) /\ Begin(b, Call("ready", "read", {e}, All(NoRecord)))

Refresh(b, e) ==
  KindOfEntry[e] \in Refreshable /\ Begin(b, Call("ready", "read", {e}, All(NoRecord)))

ListMiss(b, k) == k \notin listed /\ Begin(b, Call("ready", "list", OfKind(k), All(NoRecord)))

(* ListTimers by status: v is the version its filter lets through, if any. *)
FilterMiss(b, v) ==
  "timer" \notin listed /\ Begin(b, Call("ready", "filter", OfKind("timer"), All(v)))

Put(b, e, v) == Begin(b, Call("ready", "write", {e}, All(v)))

Delete(b, e) == Begin(b, Call("ready", "write", {e}, All(NoRecord)))

-----------------------------------------------------------------------------
(* The store *)

(* Every call that has been made and covers an entry of S is overtaken there. *)
Overtake(S) ==
  [c \in Branches |->
     IF access[c].at = "back"
       THEN [access[c] EXCEPT !.overtaken = @ \cup (S \cap access[c].covers)] ELSE access[c]]

StoreWrite(S, f) == inner' = [e \in Entries |-> IF e \in S THEN f[e] ELSE inner[e]]

(* What a listing by status sees of a record. *)
Filtered(b) == [e \in Entries |-> IF inner[e] = access[b].got[e] THEN inner[e] ELSE NoRecord]

ReadStore(b) ==
  /\ access[b].at = "ready" /\ access[b].do # "write"
  /\ access' = [access EXCEPT ![b] =
              Call("back", access[b].do, access[b].covers,
                   IF access[b].do = "filter" THEN Filtered(b) ELSE inner)]
  /\ UNCHANGED <<inner, cached, listed, suspect, mishaps>>

WriteStore(b) ==
  /\ access[b].at = "ready" /\ access[b].do = "write"
  /\ StoreWrite(access[b].covers, access[b].got)
  /\ access' = [Overtake(access[b].covers) EXCEPT ![b] =
              Call("back", "write", access[b].covers, access[b].got)]
  /\ UNCHANGED <<cached, listed, suspect, mishaps>>

Mishap == mishaps < MaxMishaps /\ mishaps' = mishaps + 1

(* A read or a listing fails: nothing is remembered. *)
ReadFails(b) ==
  /\ Mishap
  /\ access[b].at = "ready" /\ access[b].do # "write"
  /\ access' = [access EXCEPT ![b] = AtRest]
  /\ UNCHANGED <<inner, cached, listed, suspect>>

(* A write fails: the memory keeps what it had, which is only right when the *)
(* write had no effect.                                                      *)
WriteFails(b) ==
  /\ Mishap
  /\ access[b].at = "ready" /\ access[b].do = "write"
  /\ \/ access' = [access EXCEPT ![b] = AtRest] /\ UNCHANGED <<inner, suspect>>
     \/ /\ StoreWrite(access[b].covers, access[b].got)
        /\ access' = [Overtake(access[b].covers) EXCEPT ![b] = AtRest]
        /\ suspect' = suspect \cup access[b].covers
  /\ UNCHANGED <<cached, listed>>

(* Another process, or an operator, writes the store. *)
Outside(e, v) ==
  /\ Mishap
  /\ StoreWrite({e}, All(v))
  /\ access' = Overtake({e})
  /\ suspect' = suspect \cup {e}
  /\ UNCHANGED <<cached, listed>>

-----------------------------------------------------------------------------
(* The write-back, under the lock *)

(* A point read or a write: the entry is what the store returned or took,   *)
(* a miss included, except that a miss of the workflow record leaves one    *)
(* that is in memory.                                                       *)
Kept(b) ==
  {e \in access[b].covers : /\ access[b].do = "read" /\ KindOfEntry[e] = "workflow"
                        /\ access[b].got[e] = NoRecord /\ cached[e] # Unknown}

Taken(b) == access[b].covers \ Kept(b)

RememberEntry(b) ==
  /\ access[b].at = "back" /\ access[b].do \in {"read", "write"}
  /\ cached' = [e \in Entries |-> IF e \in Taken(b) THEN access[b].got[e] ELSE cached[e]]
  /\ suspect' = (suspect \ Taken(b)) \cup (access[b].overtaken \cap Taken(b))
  /\ access' = [access EXCEPT ![b] = AtRest]
  /\ UNCHANGED <<inner, listed, mishaps>>

(* A listing adds the records it found and marks the kind listed.  It takes *)
(* nothing away: an entry it did not find keeps what the maps say of it.    *)
Found(b) == {e \in access[b].covers : access[b].got[e] # NoRecord}

Settled(b) == Found(b) \cup {e \in access[b].covers : ~ Known(e)}

RememberList(b) ==
  /\ access[b].at = "back" /\ access[b].do = "list"
  /\ cached' = [e \in Entries |-> IF e \in Found(b) THEN access[b].got[e] ELSE cached[e]]
  /\ listed' = listed \cup {k \in Listable : access[b].covers = OfKind(k)}
  /\ suspect' = (suspect \ Settled(b)) \cup (access[b].overtaken \cap Settled(b))
  /\ access' = [access EXCEPT ![b] = AtRest]
  /\ UNCHANGED <<inner, mishaps>>

(* Mutant of HandOutFiltered: a filtered listing is remembered as complete. *)
HandOutFilteredRemembers(b) ==
  /\ access[b].at = "back" /\ access[b].do = "filter"
  /\ cached' = [e \in Entries |-> IF e \in Found(b) THEN access[b].got[e] ELSE cached[e]]
  /\ listed' = listed \cup {"timer"}
  /\ access' = [access EXCEPT ![b] = AtRest]
  /\ UNCHANGED <<inner, suspect, mishaps>>

(* A filtered listing is handed out and not remembered: it would hide the   *)
(* records it left out.                                                     *)
HandOutFiltered(b) ==
  /\ access[b].at = "back" /\ access[b].do = "filter"
  /\ access' = [access EXCEPT ![b] = AtRest]
  /\ UNCHANGED <<inner, cached, listed, suspect, mishaps>>

-----------------------------------------------------------------------------
CacheNext ==
  \/ \E b \in Branches, e \in Entries :
        \/ GetMiss(b, e) \/ Refresh(b, e) \/ Delete(b, e)
        \/ \E v \in Values : Put(b, e, v)
  \/ \E b \in Branches, k \in Listable : ListMiss(b, k)
  \/ \E b \in Branches, v \in Contents : FilterMiss(b, v)
  \/ \E b \in Branches :
        \/ ReadStore(b) \/ WriteStore(b) \/ ReadFails(b) \/ WriteFails(b)
        \/ RememberEntry(b) \/ RememberList(b) \/ HandOutFiltered(b)
  \/ \E e \in Entries, v \in Contents : Outside(e, v)

CacheSpec == CacheInit /\ [][CacheNext]_cacheVars

-----------------------------------------------------------------------------
(* Properties *)

Calls ==
  [at : {"rest", "ready", "back"}, do : {"read", "write", "list", "filter"},
   covers : SUBSET Entries, got : [Entries -> Contents], overtaken : SUBSET Entries]

(* The maps hold versions, remembered misses or nothing, and a call in       *)
(* flight covers entries of the run.                                         *)
CacheTypeOK ==
  /\ inner \in [Entries -> Contents]
  /\ cached \in [Entries -> Contents \cup {Unknown}]
  /\ listed \subseteq Listable
  /\ access \in [Branches -> Calls]
  /\ suspect \subseteq Entries
  /\ mishaps \in 0..MaxMishaps

(* A write to e has reached the store and not yet the memory. *)
WritingThrough(e) ==
  \E b \in Branches : /\ access[b].at = "back" /\ access[b].do = "write"
                       /\ e \in access[b].covers \ access[b].overtaken

(* cache.go 25-26: "The cache is safe under concurrent use".  What the       *)
(* memory answers is what the store holds, for every interleaving of the     *)
(* branches' lookups, store calls and write-backs, except while a write is   *)
(* between the store and the memory, and for an entry whose last write-back  *)
(* a later write had overtaken, whose write failed with its effect, or that  *)
(* another process wrote; a refresh, a write or a listing that finds it      *)
(* ends the exception.                                                       *)
CacheCoherent ==
  \A e \in Entries :
    Known(e) /\ e \notin suspect /\ ~ WritingThrough(e) => View(e) = inner[e]
=============================================================================
