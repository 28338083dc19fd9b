------------------------- MODULE MeetingTablesProofs -------------------------
(***************************************************************************)
(* Proofs about MeetingTables, for every set of users, of meetings and of  *)
(* slots and every bound on the failed requests.  The inductive invariant  *)
(* says of every call what it may rely on across its requests: rows are    *)
(* never removed and never change their key, so that the first row that    *)
(* matches stays the first, a row that appears after a search is at a      *)
(* later place than the search saw, and a row whose version is still the   *)
(* one that was read still has the participants that were read.            *)
(*                                                                         *)
(* What the invariant says of a call and of the tables is stated of any    *)
(* two sequences, so that the lemmas are about constants.                  *)
(***************************************************************************)
EXTENDS MeetingTables, FiniteSetTheorems, SequenceTheorems, TLAPS

UserHits(u, us) == {i \in 1..Len(us) : us[i].uuid = u}

MeetingHits(m, ms) == {i \in 1..Len(ms) : Matches(ms[i], m)}

\* The repository's own search finds every user; an upsert's, those whose
\* uuid it can be sent.
Finds(k) == k.step = "find" \/ Searchable(UserOf(k))

HitsIn(k, us, ms) ==
    IF k.at = "meeting" THEN MeetingHits(k.meeting, ms)
    ELSE IF Finds(k) THEN UserHits(UserOf(k), us)
    ELSE {}

LengthIn(k, us, ms) == IF k.at = "meeting" THEN Len(ms) ELSE Len(us)

Least(i, hits) == i \in hits /\ \A j \in hits : i <= j

TwinsIn(us, ms) ==
    /\ \A i, j \in 1..Len(us) :
          /\ i < j /\ us[i].uuid = us[j].uuid
          /\ Searchable(us[i].uuid)
          => us[j].seen < i
    /\ \A i, j \in 1..Len(ms) :
          i < j /\ ms[i].meeting = ms[j].meeting => ms[j].seen < i

RowsOK(us, ms) ==
    /\ us \in Seq(UserRow)
    /\ ms \in Seq(MeetingRow)
    /\ \A i \in 1..Len(ms) :
          /\ ms[i].people \subseteq 1..Len(us)
          /\ ms[i].version > 0 => ms[i].owner \in ms[i].people
          /\ ms[i].version = 0 => ms[i].people = {}
    /\ TwinsIn(us, ms)

\* What the search of a call saw is what was there, and is still first.
SearchOK(k, us, ms) ==
    /\ k.step = "update" => Least(k.row, HitsIn(k, us, ms))
    /\ k.step # "create" => k.seen = 0
    /\ k.step = "create" => /\ k.seen <= LengthIn(k, us, ms)
                            /\ \A i \in HitsIn(k, us, ms) : k.seen < i

PeopleOK(k, us) ==
    /\ k.people \subseteq 1..Len(us)
    /\ k.kind = "people" /\ k.at = "meeting" /\ k.step # "read" =>
          k.owner \in k.people

\* A meeting's row whose version is the one read has the people read.
SnapshotOK(k, ms) ==
    /\ k.step = "read" => k.base = 0
    /\ k.kind = "people" /\ k.step # "read" =>
          /\ k.base > 0 => MeetingHits(k.meeting, ms) # {}
          /\ \A i \in 1..Len(ms) : Least(i, MeetingHits(k.meeting, ms)) =>
                /\ ms[i].version >= k.base
                /\ ms[i].version = k.base => ms[i].people \subseteq k.people

CallInv(k, us, ms) ==
    /\ k \in CallRecord
    /\ CallOK(k)
    /\ SearchOK(k, us, ms)
    /\ PeopleOK(k, us)
    /\ SnapshotOK(k, ms)

\* What a request does to the tables.
Grown(us, ms, us2, ms2) ==
    /\ Len(us) <= Len(us2)
    /\ Len(ms) <= Len(ms2)
    /\ \A i \in 1..Len(us) : us2[i] = us[i]
    /\ \A i \in 1..Len(ms) :
          /\ ms2[i].meeting = ms[i].meeting
          /\ ms2[i].version >= ms[i].version
          /\ ms2[i].version = ms[i].version => ms2[i].people = ms[i].people

TablesInv ==
    /\ RowsOK(userRows, meetingRows)
    /\ call \in [Calls -> CallRecord]
    /\ \A c \in Calls : CallInv(call[c], userRows, meetingRows)
    /\ tableFaults \in 0..MaxTableFaults

-----------------------------------------------------------------------------
(* The first of several hits *)

\* Of the intervals 1..i that end at a hit, one contains no other.
LEMMA FirstIsLeast ==
  ASSUME NEW n \in Nat, NEW hits \in SUBSET (1..n), hits # {}
  PROVE  Least(First(hits), hits)
  <1> DEFINE ends == {1..i : i \in hits}
  <1>1. ends \subseteq FiniteSubsetsOf(Nat)
    <2> SUFFICES ASSUME NEW i \in hits PROVE 1..i \in FiniteSubsetsOf(Nat)
      OBVIOUS
    <2>1. i \in Int /\ 1..i \subseteq Nat
      OBVIOUS
    <2>2. IsFiniteSet(1..i)
      BY <2>1, FS_Interval
    <2> QED BY <2>1, <2>2 DEF FiniteSubsetsOf
  <1>2. PICK e \in ends : \A d \in ends : <<d, e>> \notin StrictSubsetOrdering(Nat)
    <2>1. ends # {}
      OBVIOUS
    <2> HIDE DEF ends
    <2> QED BY <1>1, <2>1, FS_StrictSubsetOrderingWellFounded, WFMin
  <1>3. PICK i \in hits : e = 1..i
    OBVIOUS
  <1>4. ASSUME NEW j \in hits PROVE i <= j
    <2> SUFFICES ASSUME j < i PROVE FALSE
      OBVIOUS
    <2>1. <<1..j, 1..i>> \notin StrictSubsetOrdering(Nat)
      BY <1>2, <1>3
    <2>2. 1..j \subseteq 1..i /\ i \in 1..i /\ i \notin 1..j
      OBVIOUS
    <2>3. 1..j \subseteq Nat /\ 1..i \subseteq Nat
      OBVIOUS
    <2> QED BY <2>1, <2>2, <2>3 DEF StrictSubsetOrdering
  <1> HIDE DEF ends
  <1> QED BY <1>4 DEF First, Least

LEMMA Lengths ==
  ASSUME NEW us, NEW ms, RowsOK(us, ms)
  PROVE  /\ Len(us) \in Nat /\ Len(ms) \in Nat
         /\ \A i \in 1..Len(us) : us[i] \in UserRow
         /\ \A i \in 1..Len(ms) : ms[i] \in MeetingRow
  BY DEF RowsOK

\* Hits stay, and new ones are at new places.
LEMMA HitsGrow ==
  ASSUME NEW us, NEW ms, NEW us2, NEW ms2,
         RowsOK(us, ms), RowsOK(us2, ms2), Grown(us, ms, us2, ms2)
  PROVE  /\ \A u : UserHits(u, us) = UserHits(u, us2) \cap 1..Len(us)
         /\ \A m : MeetingHits(m, ms) = MeetingHits(m, ms2) \cap 1..Len(ms)
  <1>1. Len(us) \in Nat /\ Len(ms) \in Nat /\ Len(us2) \in Nat /\ Len(ms2) \in Nat
    BY Lengths
  <1>2. ASSUME NEW u
        PROVE  UserHits(u, us) = UserHits(u, us2) \cap 1..Len(us)
    BY <1>1 DEF UserHits, Grown
  <1>3. ASSUME NEW m
        PROVE  MeetingHits(m, ms) = MeetingHits(m, ms2) \cap 1..Len(ms)
    BY <1>1 DEF MeetingHits, Grown, Matches
  <1> QED BY <1>2, <1>3

LEMMA LeastStays ==
  ASSUME NEW us, NEW ms, NEW us2, NEW ms2,
         RowsOK(us, ms), RowsOK(us2, ms2), Grown(us, ms, us2, ms2)
  PROVE  /\ \A u, i : Least(i, UserHits(u, us)) => Least(i, UserHits(u, us2))
         /\ \A m, i : Least(i, MeetingHits(m, ms)) => Least(i, MeetingHits(m, ms2))
  <1>1. Len(us) \in Nat /\ Len(ms) \in Nat /\ Len(us2) \in Nat /\ Len(ms2) \in Nat
    BY Lengths
  <1>2. ASSUME NEW u, NEW i, Least(i, UserHits(u, us))
        PROVE  Least(i, UserHits(u, us2))
    <2>1. UserHits(u, us) = UserHits(u, us2) \cap 1..Len(us)
      BY HitsGrow
    <2>2. UserHits(u, us2) \subseteq 1..Len(us2)
      BY DEF UserHits
    <2> QED BY <1>1, <1>2, <2>1, <2>2 DEF Least
  <1>3. ASSUME NEW m, NEW i, Least(i, MeetingHits(m, ms))
        PROVE  Least(i, MeetingHits(m, ms2))
    <2>1. MeetingHits(m, ms) = MeetingHits(m, ms2) \cap 1..Len(ms)
      BY HitsGrow
    <2>2. MeetingHits(m, ms2) \subseteq 1..Len(ms2)
      BY DEF MeetingHits
    <2> QED BY <1>1, <1>3, <2>1, <2>2 DEF Least
  <1> QED BY <1>2, <1>3

-----------------------------------------------------------------------------
(* A call that waits keeps what it relies on *)

LEMMA SearchKept ==
  ASSUME NEW us, NEW ms, NEW us2, NEW ms2, NEW k \in CallRecord,
         RowsOK(us, ms), RowsOK(us2, ms2), Grown(us, ms, us2, ms2),
         SearchOK(k, us, ms)
  PROVE  SearchOK(k, us2, ms2)
  <1>1. Len(us) \in Nat /\ Len(ms) \in Nat /\ Len(us2) \in Nat /\ Len(ms2) \in Nat
    BY Lengths
  <1>2. k.seen \in Nat
    BY DEF CallRecord
  <1>3. /\ Least(k.row, HitsIn(k, us, ms)) => Least(k.row, HitsIn(k, us2, ms2))
        /\ HitsIn(k, us, ms) = HitsIn(k, us2, ms2) \cap 1..LengthIn(k, us, ms)
        /\ HitsIn(k, us2, ms2) \subseteq 1..LengthIn(k, us2, ms2)
    <2>1. CASE k.at = "meeting"
      <3>1. MeetingHits(k.meeting, ms2) \subseteq 1..Len(ms2)
        BY DEF MeetingHits
      <3>2. MeetingHits(k.meeting, ms) = MeetingHits(k.meeting, ms2) \cap 1..Len(ms)
        BY HitsGrow
      <3>3. Least(k.row, MeetingHits(k.meeting, ms)) => Least(k.row, MeetingHits(k.meeting, ms2))
        BY LeastStays
      <3> QED BY <2>1, <3>1, <3>2, <3>3 DEF HitsIn, LengthIn
    <2>2. CASE k.at # "meeting"
      <3> DEFINE u == UserOf(k)
      <3>1. UserHits(u, us2) \subseteq 1..Len(us2)
        BY DEF UserHits
      <3>2. UserHits(u, us) = UserHits(u, us2) \cap 1..Len(us)
        BY HitsGrow
      <3>3. Least(k.row, UserHits(u, us)) => Least(k.row, UserHits(u, us2))
        BY LeastStays
      <3> QED BY <2>2, <3>1, <3>2, <3>3 DEF HitsIn, Least, LengthIn
    <2> QED BY <2>1, <2>2
  <1>4. /\ LengthIn(k, us, ms) \in Nat /\ LengthIn(k, us2, ms2) \in Nat
        /\ LengthIn(k, us, ms) <= LengthIn(k, us2, ms2)
    BY <1>1 DEF LengthIn, Grown
  <1>5. k.step = "create" => \A i \in HitsIn(k, us2, ms2) : k.seen < i
    <2> SUFFICES ASSUME k.step = "create", NEW i \in HitsIn(k, us2, ms2)
                 PROVE  k.seen < i
      OBVIOUS
    <2>1. CASE i \in 1..LengthIn(k, us, ms)
      BY <1>3, <2>1 DEF SearchOK
    <2>2. CASE i \notin 1..LengthIn(k, us, ms)
      <3>1. i \in Nat /\ i > LengthIn(k, us, ms)
        BY <1>3, <1>4, <2>2
      <3>2. k.seen <= LengthIn(k, us, ms)
        BY DEF SearchOK
      <3> QED BY <1>2, <1>4, <3>1, <3>2
    <2> QED BY <2>1, <2>2
  <1> QED BY <1>2, <1>3, <1>4, <1>5 DEF SearchOK

LEMMA SnapshotKept ==
  ASSUME NEW us, NEW ms, NEW us2, NEW ms2, NEW k \in CallRecord,
         RowsOK(us, ms), RowsOK(us2, ms2), Grown(us, ms, us2, ms2),
         SnapshotOK(k, ms)
  PROVE  SnapshotOK(k, ms2)
  <1> SUFFICES ASSUME k.kind = "people", k.step # "read"
               PROVE  /\ k.base > 0 => MeetingHits(k.meeting, ms2) # {}
                      /\ \A i \in 1..Len(ms2) : Least(i, MeetingHits(k.meeting, ms2)) =>
                            /\ ms2[i].version >= k.base
                            /\ ms2[i].version = k.base => ms2[i].people \subseteq k.people
    BY DEF SnapshotOK
  <1>1. /\ Len(ms) \in Nat /\ Len(ms2) \in Nat /\ k.base \in Nat
        /\ \A i \in 1..Len(ms) : ms[i].version \in Nat
        /\ \A i \in 1..Len(ms2) : ms2[i].version \in Nat
    BY Lengths DEF MeetingRow, CallRecord
  <1>2. MeetingHits(k.meeting, ms) = MeetingHits(k.meeting, ms2) \cap 1..Len(ms)
    BY HitsGrow
  <1>3. k.base > 0 => MeetingHits(k.meeting, ms) # {}
    BY DEF SnapshotOK
  <1>4. ASSUME NEW i \in 1..Len(ms2), Least(i, MeetingHits(k.meeting, ms2))
        PROVE  /\ ms2[i].version >= k.base
               /\ ms2[i].version = k.base => ms2[i].people \subseteq k.people
    <2>1. CASE i \in 1..Len(ms)
      <3>1. Least(i, MeetingHits(k.meeting, ms))
        BY <1>2, <1>4, <2>1 DEF Least
      <3>2. /\ ms[i].version >= k.base
            /\ ms[i].version = k.base => ms[i].people \subseteq k.people
        BY <2>1, <3>1 DEF SnapshotOK
      <3>3. /\ ms2[i].version >= ms[i].version
            /\ ms2[i].version = ms[i].version => ms2[i].people = ms[i].people
        BY <2>1 DEF Grown
      <3> QED BY <1>1, <2>1, <3>2, <3>3
    <2>2. CASE i \notin 1..Len(ms)
      <3>1. MeetingHits(k.meeting, ms) = {}
        <4> SUFFICES ASSUME NEW j \in MeetingHits(k.meeting, ms) PROVE FALSE
          OBVIOUS
        <4>1. j \in MeetingHits(k.meeting, ms2) /\ j \in 1..Len(ms)
          BY <1>2
        <4>2. i <= j
          BY <1>4, <4>1 DEF Least
        <4> QED BY <1>1, <2>2, <4>1, <4>2
      <3>2. k.base = 0
        BY <1>1, <1>3, <3>1
      <3>3. ms2[i].version = 0 => ms2[i].people = {}
        BY DEF RowsOK
      <3> QED BY <1>1, <3>2, <3>3
    <2> QED BY <2>1, <2>2
  <1> QED BY <1>2, <1>3, <1>4

LEMMA CallKept ==
  ASSUME NEW us, NEW ms, NEW us2, NEW ms2, NEW k,
         RowsOK(us, ms), RowsOK(us2, ms2), Grown(us, ms, us2, ms2),
         CallInv(k, us, ms)
  PROVE  CallInv(k, us2, ms2)
  <1>1. k \in CallRecord
    BY DEF CallInv
  <1>2. SearchOK(k, us2, ms2)
    BY <1>1, SearchKept DEF CallInv
  <1>3. SnapshotOK(k, ms2)
    BY <1>1, SnapshotKept DEF CallInv
  <1>4. PeopleOK(k, us2)
    <2>1. Len(us) \in Nat /\ Len(us2) \in Nat /\ Len(us) <= Len(us2)
      BY Lengths DEF Grown
    <2> QED BY <2>1 DEF CallInv, PeopleOK
  <1> QED BY <1>2, <1>3, <1>4 DEF CallInv
-----------------------------------------------------------------------------
(* Each request, for the call that sends it *)

LEMMA HitsAreRows ==
  ASSUME NEW us, NEW ms, RowsOK(us, ms), NEW k
  PROVE  /\ LengthIn(k, us, ms) \in Nat
         /\ HitsIn(k, us, ms) \subseteq 1..LengthIn(k, us, ms)
  <1>1. /\ UserHits(UserOf(k), us) \subseteq 1..Len(us)
        /\ MeetingHits(k.meeting, ms) \subseteq 1..Len(ms)
    BY DEF UserHits, MeetingHits
  <1> QED BY <1>1, Lengths DEF LengthIn, HitsIn

LEMMA IdleOK ==
  ASSUME NEW us, NEW ms
  PROVE  CallInv(NoCall, us, ms)
  BY DEF CallInv, CallOK, SearchOK, PeopleOK, SnapshotOK, NoCall, CallRecord

LEMMA StartOK ==
  ASSUME NEW us, NEW ms, RowsOK(us, ms), NEW k \in FirstSteps
  PROVE  CallInv(k, us, ms)
  <1>1. /\ k \in CallRecord /\ CallOK(k)
        /\ k.people = {} /\ k.base = 0 /\ k.seen = 0
        /\ k.step # "update" /\ k.step # "create"
        /\ k.kind = "people" => k.step = "read"
    <2>0. NoCall \in CallRecord
      BY DEF NoCall, CallRecord
    <2>1. CASE \E u \in Users : k = UserCall(u)
      <3>1. k \in CallRecord
        BY <2>1, <2>0 DEF UserCall, CallRecord
      <3>2. CallOK(k)
        BY <2>1 DEF UserCall, NoCall, CallOK
      <3>3. /\ k.people = {} /\ k.base = 0 /\ k.seen = 0
            /\ k.step # "update" /\ k.step # "create"
            /\ k.kind = "people" => k.step = "read"
        BY <2>1 DEF UserCall, NoCall
      <3> QED BY <3>1, <3>2, <3>3
    <2>2. CASE \E m \in Meetings : k = BareCall(m)
      <3>1. k \in CallRecord
        BY <2>2, <2>0 DEF BareCall, CallRecord
      <3>2. CallOK(k)
        BY <2>2 DEF BareCall, NoCall, CallOK
      <3>3. /\ k.people = {} /\ k.base = 0 /\ k.seen = 0
            /\ k.step # "update" /\ k.step # "create"
            /\ k.kind = "people" => k.step = "read"
        BY <2>2 DEF BareCall, NoCall
      <3> QED BY <3>1, <3>2, <3>3
    <2>3. CASE \E m \in Meetings, u \in Users, v \in Users : k = PeopleCall(m, u, v)
      <3>1. k \in CallRecord
        BY <2>3, <2>0 DEF PeopleCall, CallRecord
      <3>2. CallOK(k)
        BY <2>3 DEF PeopleCall, NoCall, CallOK
      <3>3. /\ k.people = {} /\ k.base = 0 /\ k.seen = 0
            /\ k.step # "update" /\ k.step # "create"
            /\ k.kind = "people" => k.step = "read"
        BY <2>3 DEF PeopleCall, NoCall
      <3> QED BY <3>1, <3>2, <3>3
    <2> QED BY <2>1, <2>2, <2>3 DEF FirstSteps
  <1> QED BY <1>1 DEF CallInv, SearchOK, PeopleOK, SnapshotOK

LEMMA ReadOK ==
  ASSUME NEW us, NEW ms, RowsOK(us, ms), NEW k, CallInv(k, us, ms),
         k.step = "read", NEW P \in SUBSET (1..Len(us)), NEW B \in Nat,
         B > 0 => MeetingHits(k.meeting, ms) # {},
         \A i \in 1..Len(ms) : Least(i, MeetingHits(k.meeting, ms)) =>
            ms[i].version >= B /\ (ms[i].version = B => ms[i].people \subseteq P)
  PROVE  CallInv([k EXCEPT !.people = P, !.base = B,
                           !.at = "operator", !.step = "find"], us, ms)
  <1> DEFINE n == [k EXCEPT !.people = P, !.base = B,
                            !.at = "operator", !.step = "find"]
  <1>1. k \in CallRecord /\ CallOK(k) /\ SearchOK(k, us, ms)
    BY DEF CallInv
  <1>2. Len(us) \in Nat
    BY Lengths
  <1>3. n \in CallRecord
    <2>1. P \in SUBSET Nat
      BY <1>2
    <2> QED BY <1>1, <2>1 DEF CallRecord
  <1>4. /\ n.kind = k.kind /\ n.meeting = k.meeting /\ n.operator = k.operator
        /\ n.creator = k.creator /\ n.people = P /\ n.base = B /\ n.at = "operator"
        /\ n.step = "find" /\ n.seen = k.seen
    BY <1>1 DEF CallRecord
  <1> HIDE DEF n
  <1>5. k.kind = "people"
    BY <1>1 DEF CallOK, NoCall
  <1>6. CallOK(n)
    BY <1>1, <1>4, <1>5 DEF CallOK, NoCall
  <1>7. SearchOK(n, us, ms)
    BY <1>1, <1>4 DEF SearchOK
  <1>8. PeopleOK(n, us)
    BY <1>4 DEF PeopleOK
  <1>9. SnapshotOK(n, ms)
    BY <1>4 DEF SnapshotOK
  <1> QED BY <1>3, <1>6, <1>7, <1>8, <1>9 DEF CallInv, n

LEMMA ResolvedOK ==
  ASSUME NEW us, NEW ms, RowsOK(us, ms), NEW k, CallInv(k, us, ms),
         k.step \in {"find", "update", "create"}, NEW id,
         k.at # "meeting" => id \in 1..Len(us)
  PROVE  CallInv(Resolved(k, id), us, ms)
  <1>1. k \in CallRecord /\ CallOK(k) /\ PeopleOK(k, us) /\ SnapshotOK(k, ms)
    BY DEF CallInv
  <1>2. Len(us) \in Nat
    BY Lengths
  <1>3. CASE k.kind = "user" \/ k.at = "meeting"
    BY <1>3, IdleOK DEF Resolved
  <1>4. CASE k.kind # "user" /\ k.at = "operator"
    <2> DEFINE n == [k EXCEPT !.people = @ \cup {id}, !.at = "creator",
                              !.step = "find", !.row = 0, !.seen = 0]
    <2>1. Resolved(k, id) = n
      BY <1>4 DEF Resolved
    <2>2. n \in CallRecord
      <3>1. id \in Nat
        BY <1>2, <1>4
      <3>2. k.people \cup {id} \in SUBSET Nat
        BY <1>1, <3>1 DEF CallRecord
      <3> QED BY <1>1, <3>1, <3>2 DEF CallRecord
    <2>3. /\ n.kind = k.kind /\ n.meeting = k.meeting /\ n.operator = k.operator
          /\ n.creator = k.creator /\ n.people = k.people \cup {id}
          /\ n.base = k.base /\ n.at = "creator" /\ n.step = "find" /\ n.seen = 0
      BY <1>1 DEF CallRecord
    <2> HIDE DEF n
    <2>4. CallOK(n)
      BY <1>1, <1>4, <2>3 DEF CallOK, NoCall
    <2>5. SearchOK(n, us, ms)
      BY <2>3 DEF SearchOK
    <2>6. PeopleOK(n, us)
      BY <1>1, <1>4, <2>3 DEF PeopleOK
    <2>7. SnapshotOK(n, ms)
      BY <1>1, <2>3 DEF SnapshotOK
    <2> QED BY <2>1, <2>2, <2>4, <2>5, <2>6, <2>7 DEF CallInv
  <1>5. CASE k.kind # "user" /\ k.at \notin {"operator", "meeting"}
    <2> DEFINE n == [k EXCEPT !.people = @ \cup {id}, !.owner = id, !.at = "meeting",
                              !.step = "search", !.row = 0, !.seen = 0]
    <2>1. Resolved(k, id) = n
      BY <1>5 DEF Resolved
    <2>2. n \in CallRecord
      <3>1. id \in Nat
        BY <1>2, <1>5
      <3>2. k.people \cup {id} \in SUBSET Nat
        BY <1>1, <3>1 DEF CallRecord
      <3> QED BY <1>1, <3>1, <3>2 DEF CallRecord
    <2>3. /\ n.kind = k.kind /\ n.meeting = k.meeting /\ n.operator = k.operator
          /\ n.creator = k.creator /\ n.people = k.people \cup {id} /\ n.owner = id
          /\ n.base = k.base /\ n.at = "meeting" /\ n.step = "search" /\ n.seen = 0
      BY <1>1 DEF CallRecord
    <2> HIDE DEF n
    <2>4. CallOK(n)
      BY <1>1, <1>5, <2>3 DEF CallOK, NoCall
    <2>5. SearchOK(n, us, ms)
      BY <2>3 DEF SearchOK
    <2>6. PeopleOK(n, us)
      BY <1>1, <1>5, <2>3 DEF PeopleOK
    <2>7. SnapshotOK(n, ms)
      BY <1>1, <2>3 DEF SnapshotOK
    <2> QED BY <2>1, <2>2, <2>4, <2>5, <2>6, <2>7 DEF CallInv
  <1> QED BY <1>3, <1>4, <1>5

\* A call that goes on to another request of the same upsert.
LEMMA StepOnOK ==
  ASSUME NEW us, NEW ms, RowsOK(us, ms), NEW k, CallInv(k, us, ms),
         NEW s \in {"search", "update", "create"}, NEW r \in Nat, NEW seen \in Nat,
         \/ k.step = "find" /\ s = "search"
         \/ k.step = "search" /\ s \in {"update", "create"}
         \/ k.step = "update" /\ s = "create",
         s = "update" => Least(r, HitsIn(k, us, ms)),
         s # "create" => seen = 0,
         s = "create" => /\ seen <= LengthIn(k, us, ms)
                         /\ \A i \in HitsIn(k, us, ms) : seen < i
  PROVE  CallInv([k EXCEPT !.step = s, !.row = r, !.seen = seen], us, ms)
  <1> DEFINE n == [k EXCEPT !.step = s, !.row = r, !.seen = seen]
  <1>1. /\ k \in CallRecord /\ CallOK(k) /\ PeopleOK(k, us) /\ SnapshotOK(k, ms)
    BY DEF CallInv
  <1>2. n \in CallRecord
    BY <1>1 DEF CallRecord
  <1>3. /\ n.kind = k.kind /\ n.meeting = k.meeting /\ n.operator = k.operator
        /\ n.creator = k.creator /\ n.people = k.people /\ n.owner = k.owner
        /\ n.base = k.base /\ n.at = k.at /\ n.step = s /\ n.row = r /\ n.seen = seen
    BY <1>1 DEF CallRecord
  <1> HIDE DEF n
  <1>4. CallOK(n)
    BY <1>1, <1>3 DEF CallOK, NoCall
  <1>5. /\ s # "search" => HitsIn(n, us, ms) = HitsIn(k, us, ms)
        /\ LengthIn(n, us, ms) = LengthIn(k, us, ms)
    BY <1>3 DEF HitsIn, Finds, LengthIn, UserOf
  <1>6. SearchOK(n, us, ms)
    BY <1>3, <1>5 DEF SearchOK
  <1>7. PeopleOK(n, us)
    BY <1>1, <1>3 DEF PeopleOK
  <1>8. SnapshotOK(n, ms)
    BY <1>1, <1>3 DEF SnapshotOK
  <1> QED BY <1>2, <1>4, <1>6, <1>7, <1>8 DEF CallInv, n
-----------------------------------------------------------------------------
(* The writes *)

LEMMA WrittenRow ==
  ASSUME NEW row \in MeetingRow, NEW k \in CallRecord
  PROVE  /\ Written(row, k) \in MeetingRow
         /\ Written(row, k).meeting = row.meeting
         /\ Written(row, k).seen = row.seen
         /\ k.kind # "people" => Written(row, k) = row
         /\ k.kind = "people" => /\ Written(row, k).people = k.people
                                 /\ Written(row, k).owner = k.owner
                                 /\ Written(row, k).version = row.version + 1
  <1>1. k.people \in SUBSET Nat /\ k.owner \in Nat /\ row.version + 1 \in Nat
    BY DEF CallRecord, MeetingRow
  <1> QED BY <1>1 DEF Written, MeetingRow

LEMMA MeetingUpdated ==
  ASSUME NEW us, NEW ms, RowsOK(us, ms), NEW k, CallInv(k, us, ms),
         k.step = "update", k.at = "meeting", NEW ms2,
         ms2 = [ms EXCEPT ![k.row] = Written(@, k)]
  PROVE  RowsOK(us, ms2) /\ Grown(us, ms, us, ms2)
  <1> DEFINE r == k.row
  <1> DEFINE w == Written(ms[r], k)
  <1>1. k \in CallRecord /\ r \in 1..Len(ms)
    BY DEF CallInv, SearchOK, HitsIn, MeetingHits, Least
  <1>2. /\ ms \in Seq(MeetingRow) /\ Len(ms) \in Nat /\ Len(us) \in Nat
        /\ \A i \in 1..Len(ms) : ms[i] \in MeetingRow
    BY Lengths DEF RowsOK
  <1>3. /\ w \in MeetingRow /\ w.meeting = ms[r].meeting /\ w.seen = ms[r].seen
        /\ k.kind # "people" => w = ms[r]
        /\ k.kind = "people" => /\ w.people = k.people /\ w.owner = k.owner
                                /\ w.version = ms[r].version + 1
    BY <1>1, <1>2, WrittenRow
  <1>4. k.kind = "people" => k.people \subseteq 1..Len(us) /\ k.owner \in k.people
    BY DEF CallInv, PeopleOK
  <1>5. ms[r].version \in Nat
    BY <1>1, <1>2 DEF MeetingRow
  <1>6. /\ ms2 \in Seq(MeetingRow) /\ Len(ms2) = Len(ms)
        /\ ms2[r] = w
        /\ \A i \in 1..Len(ms) : i # r => ms2[i] = ms[i]
    <2> HIDE DEF w
    <2>1. ms2 = [ms EXCEPT ![r] = w]
      BY DEF w
    <2>2. r \in 1..Len(ms) /\ w \in MeetingRow
      BY <1>1, <1>3
    <2> HIDE DEF r
    <2>3. ms \in [1..Len(ms) -> MeetingRow]
      BY <1>2
    <2>4. ms2 \in [1..Len(ms) -> MeetingRow]
      BY <2>1, <2>2, <2>3
    <2>5. ms2 \in Seq(MeetingRow) /\ Len(ms2) = Len(ms)
      BY <1>2, <2>4
    <2>6. ms2[r] = w /\ \A i \in 1..Len(ms) : i # r => ms2[i] = ms[i]
      BY <2>1, <2>2, <2>3
    <2> QED BY <2>5, <2>6
  <1> HIDE DEF w, r
  <1>7. \A i \in 1..Len(ms) :
           /\ ms[i].people \subseteq 1..Len(us)
           /\ ms[i].version > 0 => ms[i].owner \in ms[i].people
           /\ ms[i].version = 0 => ms[i].people = {}
    BY DEF RowsOK
  <1>8. \A i \in 1..Len(ms2) :
           /\ ms2[i].people \subseteq 1..Len(us)
           /\ ms2[i].version > 0 => ms2[i].owner \in ms2[i].people
           /\ ms2[i].version = 0 => ms2[i].people = {}
    <2> SUFFICES ASSUME NEW i \in 1..Len(ms)
                 PROVE  /\ ms2[i].people \subseteq 1..Len(us)
                        /\ ms2[i].version > 0 => ms2[i].owner \in ms2[i].people
                        /\ ms2[i].version = 0 => ms2[i].people = {}
      BY <1>6
    <2>1. CASE i # r
      BY <1>6, <1>7, <2>1
    <2>2. CASE i = r /\ k.kind # "people"
      BY <1>3, <1>6, <1>7, <2>2
    <2>3. CASE i = r /\ k.kind = "people"
      BY <1>3, <1>4, <1>5, <1>6, <2>3
    <2> QED BY <2>1, <2>2, <2>3
  <1>9. \A i \in 1..Len(ms) : ms2[i].meeting = ms[i].meeting /\ ms2[i].seen = ms[i].seen
    BY <1>3, <1>6
  <1>10. TwinsIn(us, ms2)
    BY <1>6, <1>9 DEF RowsOK, TwinsIn
  <1>11. \A i \in 1..Len(ms) :
            /\ ms2[i].version >= ms[i].version
            /\ ms2[i].version = ms[i].version => ms2[i].people = ms[i].people
    <2> SUFFICES ASSUME NEW i \in 1..Len(ms)
                 PROVE  /\ ms2[i].version >= ms[i].version
                        /\ ms2[i].version = ms[i].version => ms2[i].people = ms[i].people
      OBVIOUS
    <2>0. ms[i].version \in Nat
      BY <1>2 DEF MeetingRow
    <2>1. CASE i # r
      BY <1>6, <2>0, <2>1
    <2>2. CASE i = r /\ k.kind # "people"
      BY <1>3, <1>6, <2>0, <2>2
    <2>3. CASE i = r /\ k.kind = "people"
      BY <1>3, <1>5, <1>6, <2>3
    <2> QED BY <2>1, <2>2, <2>3
  <1>12. RowsOK(us, ms2)
    BY <1>6, <1>8, <1>10 DEF RowsOK
  <1>13. Grown(us, ms, us, ms2)
    BY <1>2, <1>6, <1>9, <1>11 DEF Grown
  <1> QED BY <1>12, <1>13

LEMMA MeetingCreated ==
  ASSUME NEW us, NEW ms, RowsOK(us, ms), NEW k, CallInv(k, us, ms),
         k.step = "create", k.at = "meeting", NEW ms2,
         ms2 = Append(ms, Written([meeting |-> k.meeting, people |-> {}, owner |-> 0,
                                   version |-> 0, seen |-> k.seen], k))
  PROVE  RowsOK(us, ms2) /\ Grown(us, ms, us, ms2)
  <1> DEFINE new == [meeting |-> k.meeting, people |-> {}, owner |-> 0,
                     version |-> 0, seen |-> k.seen]
  <1> DEFINE w == Written(new, k)
  <1>1. k \in CallRecord /\ k.meeting \in Meetings /\ k.seen \in Nat
    BY DEF CallInv, CallOK, CallRecord, NoCall
  <1>2. /\ ms \in Seq(MeetingRow) /\ Len(ms) \in Nat /\ Len(us) \in Nat
        /\ \A i \in 1..Len(ms) : ms[i] \in MeetingRow
    BY Lengths DEF RowsOK
  <1>3. /\ new \in MeetingRow /\ new.meeting = k.meeting /\ new.seen = k.seen
        /\ new.version = 0 /\ new.people = {}
    BY <1>1 DEF MeetingRow
  <1>4. /\ w \in MeetingRow /\ w.meeting = k.meeting /\ w.seen = k.seen
        /\ k.kind # "people" => w.version = 0 /\ w.people = {}
        /\ k.kind = "people" => /\ w.people = k.people /\ w.owner = k.owner
                                /\ w.version = 1
    <2> HIDE DEF new
    <2> QED BY <1>1, <1>3, WrittenRow
  <1>5. k.kind = "people" => k.people \subseteq 1..Len(us) /\ k.owner \in k.people
    BY DEF CallInv, PeopleOK
  <1>6. \A i \in MeetingHits(k.meeting, ms) : k.seen < i
    BY DEF CallInv, SearchOK, HitsIn
  <1>7. ms2 = Append(ms, w)
    OBVIOUS
  <1> HIDE DEF w, new
  <1>8. /\ ms2 \in Seq(MeetingRow) /\ Len(ms2) = Len(ms) + 1
        /\ ms2[Len(ms) + 1] = w
        /\ \A i \in 1..Len(ms) : ms2[i] = ms[i]
    BY <1>2, <1>4, <1>7
  <1>9. \A i \in 1..Len(ms2) : i \in 1..Len(ms) \/ i = Len(ms) + 1
    BY <1>2, <1>8
  <1>10. \A i \in 1..Len(ms2) :
            /\ ms2[i].people \subseteq 1..Len(us)
            /\ ms2[i].version > 0 => ms2[i].owner \in ms2[i].people
            /\ ms2[i].version = 0 => ms2[i].people = {}
    <2> SUFFICES ASSUME NEW i \in 1..Len(ms2)
                 PROVE  /\ ms2[i].people \subseteq 1..Len(us)
                        /\ ms2[i].version > 0 => ms2[i].owner \in ms2[i].people
                        /\ ms2[i].version = 0 => ms2[i].people = {}
      OBVIOUS
    <2>1. CASE i \in 1..Len(ms)
      BY <1>8, <2>1 DEF RowsOK
    <2>2. CASE i = Len(ms) + 1
      <3>1. ms2[i] = w
        BY <1>8, <2>2
      <3>2. CASE k.kind = "people"
        <4>1. w.people \subseteq 1..Len(us) /\ w.owner \in w.people /\ w.version # 0
          BY <1>4, <1>5, <3>2
        <4> QED BY <3>1, <4>1
      <3>3. CASE k.kind # "people"
        <4>1. w.people = {} /\ ~(w.version > 0)
          BY <1>4, <3>3
        <4> QED BY <3>1, <4>1
      <3> QED BY <3>2, <3>3
    <2> QED BY <1>9, <2>1, <2>2
  <1>11. TwinsIn(us, ms2)
    <2>1. ASSUME NEW i \in 1..Len(ms2), NEW j \in 1..Len(ms2),
                 i < j, ms2[i].meeting = ms2[j].meeting
          PROVE  ms2[j].seen < i
      <3>1. i \in 1..Len(ms)
        BY <1>2, <1>8, <2>1
      <3>2. CASE j \in 1..Len(ms)
        BY <1>8, <2>1, <3>1, <3>2 DEF RowsOK, TwinsIn
      <3>3. CASE j = Len(ms) + 1
        <4>1. ms[i].meeting = k.meeting
          BY <1>4, <1>8, <2>1, <3>1, <3>3
        <4>2. i \in MeetingHits(k.meeting, ms)
          BY <3>1, <4>1 DEF MeetingHits, Matches
        <4> QED BY <1>4, <1>6, <1>8, <3>3, <4>2
      <3> QED BY <1>9, <3>2, <3>3
    <2> QED BY <2>1 DEF RowsOK, TwinsIn
  <1>12. RowsOK(us, ms2)
    BY <1>8, <1>10, <1>11 DEF RowsOK
  <1>13. Grown(us, ms, us, ms2)
    <2>1. \A i \in 1..Len(ms) : ms[i].version \in Nat
      BY <1>2 DEF MeetingRow
    <2> QED BY <1>2, <1>8, <2>1 DEF Grown
  <1> QED BY <1>12, <1>13

LEMMA UserCreated ==
  ASSUME NEW us, NEW ms, RowsOK(us, ms), NEW k, CallInv(k, us, ms),
         k.step = "create", k.at # "meeting", NEW us2,
         us2 = Append(us, [uuid |-> UserOf(k), seen |-> k.seen])
  PROVE  RowsOK(us2, ms) /\ Grown(us, ms, us2, ms) /\ Len(us2) = Len(us) + 1
  <1> DEFINE w == [uuid |-> UserOf(k), seen |-> k.seen]
  <1>1. UserOf(k) \in Users /\ k.seen \in Nat
    BY DEF CallInv, CallOK, CallRecord, NoCall, UserOf
  <1>2. /\ us \in Seq(UserRow) /\ Len(ms) \in Nat /\ Len(us) \in Nat
        /\ \A i \in 1..Len(ms) : ms[i] \in MeetingRow
    BY Lengths DEF RowsOK
  <1>3. w \in UserRow /\ w.uuid = UserOf(k) /\ w.seen = k.seen
    BY <1>1 DEF UserRow
  <1>4. Searchable(UserOf(k)) => \A i \in UserHits(UserOf(k), us) : k.seen < i
    BY DEF CallInv, SearchOK, HitsIn, Finds
  <1>5. us2 = Append(us, w)
    OBVIOUS
  <1> HIDE DEF w
  <1>6. /\ us2 \in Seq(UserRow) /\ Len(us2) = Len(us) + 1
        /\ us2[Len(us) + 1] = w
        /\ \A i \in 1..Len(us) : us2[i] = us[i]
    BY <1>2, <1>3, <1>5
  <1>7. \A i \in 1..Len(us2) : i \in 1..Len(us) \/ i = Len(us) + 1
    BY <1>2, <1>6
  <1>8. TwinsIn(us2, ms)
    <2>1. ASSUME NEW i \in 1..Len(us2), NEW j \in 1..Len(us2),
                 i < j, us2[i].uuid = us2[j].uuid, Searchable(us2[i].uuid)
          PROVE  us2[j].seen < i
      <3>1. i \in 1..Len(us)
        BY <1>2, <1>6, <2>1
      <3>2. CASE j \in 1..Len(us)
        BY <1>6, <2>1, <3>1, <3>2 DEF RowsOK, TwinsIn
      <3>3. CASE j = Len(us) + 1
        <4>1. us[i].uuid = UserOf(k)
          BY <1>3, <1>6, <2>1, <3>1, <3>3
        <4>2. i \in UserHits(UserOf(k), us)
          BY <3>1, <4>1 DEF UserHits
        <4>3. Searchable(UserOf(k))
          BY <1>6, <2>1, <3>1, <4>1
        <4> QED BY <1>3, <1>4, <1>6, <3>3, <4>2, <4>3
      <3> QED BY <1>7, <3>2, <3>3
    <2> QED BY <2>1 DEF RowsOK, TwinsIn
  <1>9. RowsOK(us2, ms)
    <2>1. 1..Len(us) \subseteq 1..Len(us2)
      BY <1>2, <1>6
    <2>2. \A i \in 1..Len(ms) : /\ ms[i].people \subseteq 1..Len(us2)
                                /\ ms[i].version > 0 => ms[i].owner \in ms[i].people
                                /\ ms[i].version = 0 => ms[i].people = {}
      BY <2>1 DEF RowsOK
    <2> QED BY <1>6, <1>8, <2>2 DEF RowsOK
  <1>10. Grown(us, ms, us2, ms)
    <2>1. \A i \in 1..Len(ms) : ms[i].version \in Nat
      BY <1>2 DEF MeetingRow
    <2> QED BY <1>2, <1>6, <2>1 DEF Grown
  <1> QED BY <1>6, <1>9, <1>10
-----------------------------------------------------------------------------
(* The invariant *)

\* No two users are one in lower case, so that a search finds the rows of the
\* user it is for, or, sent in lower case, none.
LEMMA UserFound ==
  ASSUME TablesAssumptions, NEW u \in Users, NEW v \in Users, NEW k
  PROVE  Is(v, u, Sent(k, u)) <=> v = u /\ (k.step = "find" \/ Searchable(u))
  <1>1. /\ Lower[v] \in {u, Lower[u]} => u = v
        /\ Lower[u] \in {v, Lower[v]} => v = u
    BY DEF TablesAssumptions
  <1>2. CASE k.step = "find"
    BY <1>1, <1>2 DEF Is, Sent
  <1>3. CASE k.step # "find"
    BY <1>1, <1>3 DEF Is, Sent, Searchable
  <1> QED BY <1>2, <1>3

LEMMA SameHits ==
  ASSUME TablesAssumptions, RowsOK(userRows, meetingRows), NEW k,
         k.at # "meeting" => UserOf(k) \in Users
  PROVE  /\ Hits(k) = HitsIn(k, userRows, meetingRows)
         /\ TableLength(k) = LengthIn(k, userRows, meetingRows)
  <1>1. CASE k.at = "meeting"
    BY <1>1 DEF Hits, HitsIn, FoundMeetings, MeetingHits, TableLength, LengthIn
  <1>2. CASE k.at # "meeting"
    <2> DEFINE u == UserOf(k)
    <2>1. \A i \in 1..Len(userRows) : userRows[i].uuid \in Users
      <3>1. \A i \in 1..Len(userRows) : userRows[i] \in UserRow
        BY DEF RowsOK
      <3> QED BY <3>1 DEF UserRow
    <2>2. u \in Users
      BY <1>2
    <2> HIDE DEF u
    <2>3. \A i \in 1..Len(userRows) :
             Is(userRows[i].uuid, u, Sent(k, u)) <=>
                userRows[i].uuid = u /\ (k.step = "find" \/ Searchable(u))
      BY <2>1, <2>2, UserFound
    <2>4. FoundUsers(k, u) = IF k.step = "find" \/ Searchable(u)
                             THEN UserHits(u, userRows) ELSE {}
      BY <2>3 DEF FoundUsers, UserHits
    <2> QED BY <1>2, <2>4 DEF Hits, HitsIn, Finds, TableLength, LengthIn, u
  <1> QED BY <1>1, <1>2

\* The users of a call that is at one.
LEMMA UserOfCall ==
  ASSUME NEW k, CallOK(k), k.step # "none"
  PROVE  k.at # "meeting" => UserOf(k) \in Users
  BY DEF CallOK, NoCall, UserOf

LEMMA FirstHit ==
  ASSUME TablesAssumptions, RowsOK(userRows, meetingRows), NEW k, Hits(k) # {},
         k.at # "meeting" => UserOf(k) \in Users
  PROVE  /\ Least(First(Hits(k)), HitsIn(k, userRows, meetingRows))
         /\ First(Hits(k)) \in 1..LengthIn(k, userRows, meetingRows)
  <1>1. /\ LengthIn(k, userRows, meetingRows) \in Nat
        /\ Hits(k) \in SUBSET (1..LengthIn(k, userRows, meetingRows))
    BY HitsAreRows, SameHits
  <1>2. Least(First(Hits(k)), Hits(k))
    BY <1>1, FirstIsLeast
  <1> QED BY <1>1, <1>2, SameHits DEF Least

LEMMA NothingGrown ==
  ASSUME RowsOK(userRows, meetingRows), UNCHANGED <<userRows, meetingRows>>
  PROVE  /\ RowsOK(userRows', meetingRows')
         /\ Grown(userRows, meetingRows, userRows', meetingRows')
  <1>1. /\ Len(userRows) \in Nat /\ Len(meetingRows) \in Nat
        /\ \A i \in 1..Len(meetingRows) : meetingRows[i].version \in Nat
    BY Lengths DEF MeetingRow
  <1>2. userRows' = userRows /\ meetingRows' = meetingRows
    OBVIOUS
  <1>3. Grown(userRows, meetingRows, userRows, meetingRows)
    BY <1>1 DEF Grown
  <1> QED BY <1>2, <1>3

\* A step of one call: the others keep what they rely on.
LEMMA OneCallMoves ==
  ASSUME TablesInv, NEW c \in Calls, NEW k, Become(c, k),
         RowsOK(userRows', meetingRows'),
         Grown(userRows, meetingRows, userRows', meetingRows'),
         CallInv(k, userRows', meetingRows'), tableFaults' \in 0..MaxTableFaults
  PROVE  TablesInv'
  <1>1. /\ RowsOK(userRows, meetingRows) /\ call \in [Calls -> CallRecord]
        /\ \A d \in Calls : CallInv(call[d], userRows, meetingRows)
    BY DEF TablesInv
  <1>2. call' = [call EXCEPT ![c] = k]
    BY DEF Become
  <1>3. k \in CallRecord
    BY DEF CallInv
  <1>4. call' \in [Calls -> CallRecord]
    BY <1>1, <1>2, <1>3
  <1>5. ASSUME NEW d \in Calls
        PROVE  CallInv(call'[d], userRows', meetingRows')
    <2>1. CASE d = c
      BY <1>1, <1>2, <2>1
    <2>2. CASE d # c
      <3>1. call'[d] = call[d] /\ CallInv(call[d], userRows, meetingRows)
        BY <1>1, <1>2, <2>2
      <3>2. CallInv(call[d], userRows', meetingRows')
        BY <1>1, <3>1, CallKept
      <3> QED BY <3>1, <3>2
    <2> QED BY <2>1, <2>2
  <1> QED BY <1>4, <1>5 DEF TablesInv

LEMMA SameRow ==
  ASSUME NEW k \in CallRecord, NEW s
  PROVE  /\ [k EXCEPT !.step = s] = [k EXCEPT !.step = s, !.row = k.row, !.seen = k.seen]
         /\ \A r : [k EXCEPT !.step = s, !.row = r]
                     = [k EXCEPT !.step = s, !.row = r, !.seen = k.seen]
         /\ \A n : [k EXCEPT !.step = s, !.seen = n]
                     = [k EXCEPT !.step = s, !.row = k.row, !.seen = n]
  BY DEF CallRecord

LEMMA ReadStep ==
  ASSUME TablesAssumptions, RowsOK(userRows, meetingRows), NEW k, CallInv(k, userRows, meetingRows),
         k.step = "read"
  PROVE  CallInv([k EXCEPT !.people = Snapshot(k).people,
                           !.base = Snapshot(k).version,
                           !.at = "operator", !.step = "find"], userRows, meetingRows)
  <1>1. k.at = "meeting"
    BY DEF CallInv, CallOK, NoCall
  <1>2. Hits(k) = MeetingHits(k.meeting, meetingRows)
    BY <1>1, SameHits DEF HitsIn
  <1>3. /\ Len(meetingRows) \in Nat
        /\ \A i \in 1..Len(meetingRows) : /\ meetingRows[i].version \in Nat
                                          /\ meetingRows[i].people \subseteq 1..Len(userRows)
                                          /\ meetingRows[i].version = 0 =>
                                                meetingRows[i].people = {}
    BY Lengths DEF MeetingRow, RowsOK
  <1> DEFINE P == Snapshot(k).people
  <1> DEFINE B == Snapshot(k).version
  <1>4. CASE Hits(k) = {}
    <2>1. P = {} /\ B = 0
      BY <1>4 DEF Snapshot
    <2> HIDE DEF P, B
    <2>2. /\ P \in SUBSET (1..Len(userRows)) /\ B \in Nat /\ ~(B > 0)
          /\ \A i \in 1..Len(meetingRows) :
                Least(i, MeetingHits(k.meeting, meetingRows)) =>
                   /\ meetingRows[i].version >= B
                   /\ (meetingRows[i].version = B => meetingRows[i].people \subseteq P)
      BY <1>3, <2>1
    <2>3. CallInv([k EXCEPT !.people = P, !.base = B,
                            !.at = "operator", !.step = "find"], userRows, meetingRows)
      BY <2>2, ReadOK
    <2> QED BY <2>3 DEF P, B
  <1>5. CASE Hits(k) # {}
    <2> DEFINE f == First(Hits(k))
    <2>1. P = meetingRows[f].people /\ B = meetingRows[f].version
      BY <1>5 DEF Snapshot
    <2>2. f \in 1..Len(meetingRows) /\ Least(f, MeetingHits(k.meeting, meetingRows))
      BY <1>1, <1>2, <1>5, FirstHit, SameHits DEF LengthIn
    <2> HIDE DEF P, B, f
    <2>3. \A i \in 1..Len(meetingRows) :
             Least(i, MeetingHits(k.meeting, meetingRows)) => i = f
      BY <1>3, <2>2 DEF Least
    <2>4. \A i \in 1..Len(meetingRows) :
             Least(i, MeetingHits(k.meeting, meetingRows)) =>
                /\ meetingRows[i].version >= B
                /\ (meetingRows[i].version = B => meetingRows[i].people \subseteq P)
      BY <1>3, <2>1, <2>2, <2>3
    <2>5. P \in SUBSET (1..Len(userRows)) /\ B \in Nat
      BY <1>3, <2>1, <2>2
    <2>6. MeetingHits(k.meeting, meetingRows) # {}
      BY <1>2, <1>5
    <2>7. CallInv([k EXCEPT !.people = P, !.base = B,
                            !.at = "operator", !.step = "find"], userRows, meetingRows)
      BY <2>4, <2>5, <2>6, ReadOK
    <2> QED BY <2>7 DEF P, B
  <1> QED BY <1>4, <1>5

LEMMA BlindReadStep ==
  ASSUME RowsOK(userRows, meetingRows), NEW k, CallInv(k, userRows, meetingRows),
         k.step = "read"
  PROVE  CallInv([k EXCEPT !.at = "operator", !.step = "find"], userRows, meetingRows)
  <1>1. /\ k \in CallRecord /\ k.people \subseteq 1..Len(userRows) /\ k.base = 0
    BY DEF CallInv, PeopleOK, SnapshotOK
  <1>2. \A i \in 1..Len(meetingRows) : meetingRows[i].version \in Nat
                  /\ (meetingRows[i].version = 0 => meetingRows[i].people = {})
    BY Lengths DEF MeetingRow, RowsOK
  <1>3. [k EXCEPT !.at = "operator", !.step = "find"]
          = [k EXCEPT !.people = k.people, !.base = k.base,
                      !.at = "operator", !.step = "find"]
    BY <1>1 DEF CallRecord
  <1>4. CallInv([k EXCEPT !.people = k.people, !.base = k.base,
                          !.at = "operator", !.step = "find"], userRows, meetingRows)
    <2> DEFINE P == k.people
    <2> DEFINE B == k.base
    <2>1. P \in SUBSET (1..Len(userRows)) /\ B \in Nat /\ ~(B > 0)
      BY <1>1
    <2>2. \A i \in 1..Len(meetingRows) : meetingRows[i].version >= B
             /\ (meetingRows[i].version = B => meetingRows[i].people \subseteq P)
      BY <1>1, <1>2
    <2> HIDE DEF P, B
    <2>3. CallInv([k EXCEPT !.people = P, !.base = B,
                            !.at = "operator", !.step = "find"], userRows, meetingRows)
      BY <2>1, <2>2, ReadOK
    <2> QED BY <2>3 DEF P, B
  <1> QED BY <1>3, <1>4
\* A search with hits, a search without, and a request answered without data.
LEMMA SearchStep ==
  ASSUME TablesAssumptions, RowsOK(userRows, meetingRows), NEW k, CallInv(k, userRows, meetingRows)
  PROVE  /\ k.step = "find" =>
               CallInv([k EXCEPT !.step = "search"], userRows, meetingRows)
         /\ k.step = "search" /\ Hits(k) # {} =>
               CallInv([k EXCEPT !.step = "update", !.row = First(Hits(k))],
                       userRows, meetingRows)
         /\ k.step = "search" /\ Hits(k) = {} =>
               CallInv([k EXCEPT !.step = "create", !.seen = TableLength(k)],
                       userRows, meetingRows)
         /\ k.step \in {"search", "update"} =>
               CallInv([k EXCEPT !.step = "create", !.row = 0], userRows, meetingRows)
  <1> DEFINE n == LengthIn(k, userRows, meetingRows)
  <1>1. /\ k \in CallRecord /\ k.row \in Nat /\ k.seen \in Nat
        /\ k.step # "create" => k.seen = 0
    BY DEF CallInv, SearchOK, CallRecord
  <1>2. /\ n \in Nat /\ HitsIn(k, userRows, meetingRows) \subseteq 1..n
    BY HitsAreRows
  <1>3. k.step = "search" /\ k.at # "meeting" => UserOf(k) \in Users
    BY UserOfCall DEF CallInv
  <1>4. ASSUME k.step = "find"
        PROVE  CallInv([k EXCEPT !.step = "search"], userRows, meetingRows)
    <2>1. CallInv([k EXCEPT !.step = "search", !.row = k.row, !.seen = k.seen],
                  userRows, meetingRows)
      BY <1>1, <1>4, StepOnOK
    <2> QED BY <1>1, <2>1, SameRow
  <1>5. ASSUME k.step = "search", Hits(k) # {}
        PROVE  CallInv([k EXCEPT !.step = "update", !.row = First(Hits(k))],
                       userRows, meetingRows)
    <2> DEFINE f == First(Hits(k))
    <2>1. f \in Nat /\ Least(f, HitsIn(k, userRows, meetingRows))
      BY <1>2, <1>3, <1>5, FirstHit
    <2> HIDE DEF f
    <2>2. CallInv([k EXCEPT !.step = "update", !.row = f, !.seen = k.seen],
                  userRows, meetingRows)
      BY <1>1, <1>5, <2>1, StepOnOK
    <2>3. CallInv([k EXCEPT !.step = "update", !.row = f], userRows, meetingRows)
      BY <1>1, <2>2, SameRow
    <2> QED BY <2>3 DEF f
  <1>6. ASSUME k.step = "search", Hits(k) = {}
        PROVE  CallInv([k EXCEPT !.step = "create", !.seen = TableLength(k)],
                       userRows, meetingRows)
    <2>1. HitsIn(k, userRows, meetingRows) = {} /\ TableLength(k) = n
      BY <1>3, <1>6, SameHits
    <2> HIDE DEF n
    <2>2. n <= n /\ \A i \in HitsIn(k, userRows, meetingRows) : n < i
      BY <1>2, <2>1
    <2>3. CallInv([k EXCEPT !.step = "create", !.row = k.row, !.seen = n],
                  userRows, meetingRows)
      BY <1>1, <1>2, <1>6, <2>2, StepOnOK DEF n
    <2>4. CallInv([k EXCEPT !.step = "create", !.seen = n], userRows, meetingRows)
      BY <1>1, <2>3, SameRow
    <2> QED BY <2>1, <2>4
  <1>7. ASSUME k.step \in {"search", "update"}
        PROVE  CallInv([k EXCEPT !.step = "create", !.row = 0], userRows, meetingRows)
    <2>1. k.seen = 0
      BY <1>1, <1>7
    <2>2. k.seen <= n /\ \A i \in HitsIn(k, userRows, meetingRows) : k.seen < i
      BY <1>2, <2>1
    <2>3. CallInv([k EXCEPT !.step = "create", !.row = 0, !.seen = k.seen],
                  userRows, meetingRows)
      BY <1>1, <1>7, <2>2, StepOnOK
    <2> QED BY <1>1, <2>3, SameRow
  <1> QED BY <1>4, <1>5, <1>6, <1>7

\* The requests that write no row.
LEMMA QuietStep ==
  ASSUME TablesAssumptions, RowsOK(userRows, meetingRows), NEW c \in Calls,
         CallInv(call[c], userRows, meetingRows),
         \/ ReadMeeting(c) \/ FindUser(c) \/ SearchRecord(c)
         \/ RequestThrows(c) \/ RequestWithoutData(c)
  PROVE  \E k : Become(c, k) /\ CallInv(k, userRows, meetingRows)
  <1> DEFINE k == call[c]
  <1>1. CASE ReadMeeting(c)
    <2>1. CallInv([k EXCEPT !.people = Snapshot(k).people,
                            !.base = Snapshot(k).version,
                            !.at = "operator", !.step = "find"], userRows, meetingRows)
      <3>1. k.step = "read"
        BY <1>1 DEF ReadMeeting
      <3> HIDE DEF k
      <3> QED BY <3>1, ReadStep DEF k
    <2> QED BY <1>1, <2>1 DEF ReadMeeting
  <1>2. CASE FindUser(c)
    <2>1. CASE Hits(k) # {}
      <3>1. First(Hits(k)) \in 1..LengthIn(k, userRows, meetingRows)
        <4>1. k.step = "find" /\ CallOK(k)
          BY <1>2 DEF CallInv, FindUser
        <4> HIDE DEF k
        <4> QED BY <2>1, <4>1, UserOfCall, FirstHit
      <3>2. k.step = "find" /\ Become(c, Resolved(k, First(Hits(k))))
        BY <1>2, <2>1 DEF FindUser
      <3>3. CallInv(Resolved(k, First(Hits(k))), userRows, meetingRows)
        <4> HIDE DEF k
        <4>1. k.at # "meeting" => First(Hits(k)) \in 1..Len(userRows)
          BY <3>1 DEF LengthIn
        <4> QED BY <3>2, <4>1, ResolvedOK DEF k
      <3> QED BY <3>2, <3>3
    <2>2. CASE Hits(k) = {}
      <3>1. k.step = "find" /\ Become(c, [k EXCEPT !.step = "search"])
        BY <1>2, <2>2 DEF FindUser
      <3>2. CallInv([k EXCEPT !.step = "search"], userRows, meetingRows)
        BY <3>1, SearchStep
      <3> QED BY <3>1, <3>2
    <2> QED BY <2>1, <2>2
  <1>3. CASE SearchRecord(c)
    <2>1. CASE Hits(k) # {}
      <3>1. k.step = "search"
              /\ Become(c, [k EXCEPT !.step = "update", !.row = First(Hits(k))])
        BY <1>3, <2>1 DEF SearchRecord
      <3>2. CallInv([k EXCEPT !.step = "update", !.row = First(Hits(k))],
                    userRows, meetingRows)
        BY <2>1, <3>1, SearchStep
      <3> QED BY <3>1, <3>2
    <2>2. CASE Hits(k) = {}
      <3>1. k.step = "search"
              /\ Become(c, [k EXCEPT !.step = "create", !.seen = TableLength(k)])
        BY <1>3, <2>2 DEF SearchRecord
      <3>2. CallInv([k EXCEPT !.step = "create", !.seen = TableLength(k)],
                    userRows, meetingRows)
        BY <2>2, <3>1, SearchStep
      <3> QED BY <3>1, <3>2
    <2> QED BY <2>1, <2>2
  <1>4. CASE RequestThrows(c)
    BY <1>4, IdleOK DEF RequestThrows
  <1>5. CASE RequestWithoutData(c)
    <2>1. CASE k.step = "read"
                 /\ Become(c, [k EXCEPT !.at = "operator", !.step = "find"])
      BY <2>1, BlindReadStep
    <2>2. CASE k.step = "find" /\ Become(c, [k EXCEPT !.step = "search"])
      BY <2>2, SearchStep
    <2>3. CASE k.step \in {"search", "update"}
                 /\ Become(c, [k EXCEPT !.step = "create", !.row = 0])
      BY <2>3, SearchStep
    <2>4. CASE k.step = "create" /\ Become(c, NoCall)
      BY <2>4, IdleOK
    <2> QED BY <1>5, <2>1, <2>2, <2>3, <2>4 DEF RequestWithoutData
  <1> QED BY <1>1, <1>2, <1>3, <1>4, <1>5

\* The requests that write one.
LEMMA RowsWritten ==
  ASSUME RowsOK(userRows, meetingRows), NEW c \in Calls,
         CallInv(call[c], userRows, meetingRows), UpdatesRow(c) \/ CreatesRow(c)
  PROVE  /\ RowsOK(userRows', meetingRows')
         /\ Grown(userRows, meetingRows, userRows', meetingRows')
         /\ CreatesRow(c) /\ call[c].at # "meeting" =>
               Len(userRows') = Len(userRows) + 1
  <1> DEFINE k == call[c]
  <1>1. CASE UpdatesRow(c) /\ k.at = "meeting"
    <2>1. /\ k.step = "update" /\ userRows' = userRows
          /\ meetingRows' = [meetingRows EXCEPT ![k.row] = Written(@, k)]
      BY <1>1 DEF UpdatesRow
    <2>2. /\ RowsOK(userRows, meetingRows')
          /\ Grown(userRows, meetingRows, userRows, meetingRows')
      BY <1>1, <2>1, MeetingUpdated
    <2> QED BY <1>1, <2>1, <2>2
  <1>2. CASE UpdatesRow(c) /\ k.at # "meeting"
    BY <1>2, NothingGrown DEF UpdatesRow, CreatesRow
  <1>3. CASE CreatesRow(c) /\ k.at = "meeting"
    <2>1. /\ k.step = "create" /\ userRows' = userRows
          /\ meetingRows' = Append(meetingRows,
                Written([meeting |-> k.meeting, people |-> {}, owner |-> 0,
                         version |-> 0, seen |-> k.seen], k))
      BY <1>3 DEF CreatesRow
    <2>2. /\ RowsOK(userRows, meetingRows')
          /\ Grown(userRows, meetingRows, userRows, meetingRows')
      BY <1>3, <2>1, MeetingCreated
    <2> QED BY <1>3, <2>1, <2>2
  <1>4. CASE CreatesRow(c) /\ k.at # "meeting"
    <2>1. /\ k.step = "create" /\ meetingRows' = meetingRows
          /\ userRows' = Append(userRows, [uuid |-> UserOf(k), seen |-> k.seen])
      BY <1>4 DEF CreatesRow
    <2>2. /\ RowsOK(userRows', meetingRows)
          /\ Grown(userRows, meetingRows, userRows', meetingRows)
          /\ Len(userRows') = Len(userRows) + 1
      BY <1>4, <2>1, UserCreated
    <2> QED BY <2>1, <2>2
  <1> QED BY <1>1, <1>2, <1>3, <1>4
LEMMA WriteStep ==
  ASSUME RowsOK(userRows, meetingRows), NEW c \in Calls,
         CallInv(call[c], userRows, meetingRows),
         UpdateRecord(c) \/ CreateRecord(c) \/ AnswerLost(c)
  PROVE  /\ RowsOK(userRows', meetingRows')
         /\ Grown(userRows, meetingRows, userRows', meetingRows')
         /\ \E k : Become(c, k) /\ CallInv(k, userRows', meetingRows')
  <1> DEFINE k == call[c]
  <1>1. UpdatesRow(c) \/ CreatesRow(c)
    BY DEF UpdateRecord, CreateRecord, AnswerLost
  <1>2. /\ RowsOK(userRows', meetingRows')
        /\ Grown(userRows, meetingRows, userRows', meetingRows')
    BY <1>1, RowsWritten
  <1>3. CallInv(call[c], userRows', meetingRows')
    BY <1>2, CallKept
  <1>4. CASE UpdateRecord(c)
    <2>1. k.step = "update" /\ Become(c, Resolved(k, k.row))
      BY <1>4 DEF UpdateRecord, UpdatesRow
    <2>2. k.at # "meeting" => k.row \in 1..Len(userRows')
      BY <1>3, <2>1 DEF CallInv, SearchOK, Least, HitsIn, UserHits
    <2>3. CallInv(Resolved(k, k.row), userRows', meetingRows')
      BY <1>2, <1>3, <2>1, <2>2, ResolvedOK
    <2> QED BY <1>2, <2>1, <2>3
  <1>5. CASE CreateRecord(c)
    <2> DEFINE id == TableLength(k) + 1
    <2>1. k.step = "create" /\ CreatesRow(c) /\ Become(c, Resolved(k, id))
      BY <1>5 DEF CreateRecord, CreatesRow
    <2>2. k.at # "meeting" => id \in 1..Len(userRows')
      <3>1. Len(userRows) \in Nat
        BY Lengths
      <3>2. k.at # "meeting" => Len(userRows') = Len(userRows) + 1
        BY <2>1, RowsWritten
      <3> QED BY <3>1, <3>2 DEF TableLength
    <2> HIDE DEF id
    <2>3. CallInv(Resolved(k, id), userRows', meetingRows')
      BY <1>2, <1>3, <2>1, <2>2, ResolvedOK
    <2> QED BY <1>2, <2>1, <2>3
  <1>6. CASE AnswerLost(c)
    BY <1>2, <1>6, IdleOK DEF AnswerLost
  <1> QED BY <1>4, <1>5, <1>6

LEMMA InitInv ==
  ASSUME TablesAssumptions, TablesInit
  PROVE  TablesInv
  <1>1. RowsOK(userRows, meetingRows)
    <2>1. userRows = << >> /\ meetingRows = << >>
      BY DEF TablesInit
    <2>2. << >> \in Seq(UserRow) /\ << >> \in Seq(MeetingRow) /\ Len(<< >>) = 0
      OBVIOUS
    <2>3. 1..0 = {}
      OBVIOUS
    <2> QED BY <2>1, <2>2, <2>3 DEF RowsOK, TwinsIn
  <1>2. NoCall \in CallRecord
    BY DEF NoCall, CallRecord
  <1>3. call = [c \in Calls |-> NoCall]
    BY DEF TablesInit
  <1>4. call \in [Calls -> CallRecord] /\ \A c \in Calls : call[c] = NoCall
    BY <1>2, <1>3
  <1>5. \A c \in Calls : CallInv(call[c], userRows, meetingRows)
    BY <1>4, IdleOK
  <1>6. tableFaults \in 0..MaxTableFaults
    BY DEF TablesInit, TablesAssumptions
  <1> QED BY <1>1, <1>4, <1>5, <1>6 DEF TablesInv

LEMMA StepInv ==
  ASSUME TablesAssumptions, TablesInv, [TablesNext]_tableVars
  PROVE  TablesInv'
  <1>1. /\ RowsOK(userRows, meetingRows) /\ call \in [Calls -> CallRecord]
        /\ \A c \in Calls : CallInv(call[c], userRows, meetingRows)
        /\ tableFaults \in 0..MaxTableFaults /\ MaxTableFaults \in Nat
    BY DEF TablesInv, TablesAssumptions
  <1>2. CASE CallsStart
    <2>1. /\ userRows' = userRows /\ meetingRows' = meetingRows
          /\ tableFaults' = tableFaults /\ call' \in [Calls -> CallRecord]
      BY <1>2 DEF CallsStart
    <2>2. ASSUME NEW c \in Calls
          PROVE  CallInv(call'[c], userRows, meetingRows)
      <3>1. call'[c] = call[c] \/ call'[c] \in FirstSteps
        BY <1>2 DEF CallsStart
      <3>2. CASE call'[c] = call[c]
        BY <1>1, <3>2
      <3>3. CASE call'[c] \in FirstSteps
        BY <1>1, <3>3, StartOK
      <3> QED BY <3>1, <3>2, <3>3
    <2> QED BY <1>1, <2>1, <2>2 DEF TablesInv
  <1>3. CASE LoseCalls
    <2>1. /\ userRows' = userRows /\ meetingRows' = meetingRows
          /\ tableFaults' = tableFaults /\ call' = [c \in Calls |-> NoCall]
      BY <1>3 DEF LoseCalls
    <2>2. NoCall \in CallRecord
      BY DEF NoCall, CallRecord
    <2>3. \A c \in Calls : CallInv(call'[c], userRows, meetingRows)
      BY <2>1, IdleOK
    <2> QED BY <1>1, <2>1, <2>2, <2>3 DEF TablesInv
  <1>4. ASSUME NEW c \in Calls,
               \/ ReadMeeting(c) \/ FindUser(c) \/ SearchRecord(c)
               \/ RequestThrows(c) \/ RequestWithoutData(c),
               UNCHANGED <<userRows, meetingRows>>,
               tableFaults' \in 0..MaxTableFaults
        PROVE  TablesInv'
    <2>1. PICK k : Become(c, k) /\ CallInv(k, userRows, meetingRows)
      BY <1>1, <1>4, QuietStep
    <2>2. CallInv(k, userRows', meetingRows')
      BY <1>4, <2>1
    <2>3. /\ RowsOK(userRows', meetingRows')
          /\ Grown(userRows, meetingRows, userRows', meetingRows')
      BY <1>1, <1>4, NothingGrown
    <2> QED BY <1>4, <2>1, <2>2, <2>3, OneCallMoves
  <1>5. ASSUME NEW c \in Calls, UpdateRecord(c) \/ CreateRecord(c) \/ AnswerLost(c),
               tableFaults' \in 0..MaxTableFaults
        PROVE  TablesInv'
    <2>1. /\ RowsOK(userRows', meetingRows')
          /\ Grown(userRows, meetingRows, userRows', meetingRows')
          /\ \E k : Become(c, k) /\ CallInv(k, userRows', meetingRows')
      BY <1>1, <1>5, WriteStep
    <2> QED BY <1>5, <2>1, OneCallMoves
  <1>6. ASSUME NEW c \in Calls, TableStep(c)
        PROVE  TablesInv'
    <2>1. tableFaults' = tableFaults
      BY <1>6 DEF TableStep, ReadMeeting, FindUser, SearchRecord, UpdateRecord, CreateRecord
    <2>2. CASE ReadMeeting(c) \/ FindUser(c) \/ SearchRecord(c)
      <3>1. UNCHANGED <<userRows, meetingRows>>
        BY <2>2 DEF ReadMeeting, FindUser, SearchRecord
      <3> QED BY <1>1, <1>4, <2>1, <2>2, <3>1
    <2>3. CASE UpdateRecord(c) \/ CreateRecord(c)
      BY <1>1, <1>5, <2>1, <2>3
    <2> QED BY <1>6, <2>2, <2>3 DEF TableStep
  <1>7. ASSUME NEW c \in Calls, RequestFails(c)
        PROVE  TablesInv'
    <2>1. tableFaults' \in 0..MaxTableFaults
      BY <1>1, <1>7 DEF RequestFails
    <2>2. CASE /\ RequestThrows(c) \/ RequestWithoutData(c)
               /\ UNCHANGED <<userRows, meetingRows>>
      BY <1>4, <2>1, <2>2
    <2>3. CASE AnswerLost(c)
      BY <1>5, <2>1, <2>3
    <2> QED BY <1>7, <2>2, <2>3 DEF RequestFails
  <1>8. CASE UNCHANGED tableVars
    BY <1>8 DEF tableVars, TablesInv
  <1> QED BY <1>2, <1>3, <1>6, <1>7, <1>8 DEF TablesNext

\* TablesInv is an inductive invariant of the tables.
THEOREM TablesInvariant == TablesAssumptions => (TablesSpec => []TablesInv)
  <1> SUFFICES ASSUME TablesAssumptions PROVE TablesSpec => []TablesInv
    OBVIOUS
  <1>1. TablesInit => TablesInv
    BY InitInv
  <1>2. TablesInv /\ [TablesNext]_tableVars => TablesInv'
    BY StepInv
  <1> QED BY <1>1, <1>2, PTL DEF TablesSpec

-----------------------------------------------------------------------------
(* What follows from it *)

LEMMA InvTypeOK ==
  ASSUME TablesAssumptions, TablesInv
  PROVE  TablesTypeOK
  <1>1. ASSUME NEW c \in Calls
        PROVE  /\ CallOK(call[c])
               /\ call[c].step = "update" => call[c].row \in 1..TableLength(call[c])
    <2> DEFINE k == call[c]
    <2>1. CallOK(k) /\ SearchOK(k, userRows, meetingRows)
      BY DEF TablesInv, CallInv
    <2>2. HitsIn(k, userRows, meetingRows) \subseteq 1..TableLength(k)
      BY HitsAreRows DEF TablesInv, LengthIn, TableLength
    <2> QED BY <2>1, <2>2 DEF SearchOK, Least
  <1> QED BY <1>1 DEF TablesTypeOK, TablesInv, RowsOK

\* The rows and the calls always have the shapes that the code relies on, and
\* the row a call is about to update is there (BitableService.upsertRecord).
THEOREM TablesTypes == TablesAssumptions => (TablesSpec => []TablesTypeOK)
  <1> SUFFICES ASSUME TablesAssumptions PROVE TablesSpec => []TablesTypeOK
    OBVIOUS
  <1>1. TablesInv => TablesTypeOK
    BY InvTypeOK
  <1> QED BY <1>1, TablesInvariant, PTL

\* No two rows are made for a meeting, or for a user whose uuid the upsert's
\* lower-cased search can find, by searches that both could have seen the
\* other's row (BitableService.upsertRecord, buildSearchFilter).
THEOREM TwinsOnlyOverlap == TablesAssumptions => (TablesSpec => []TwinsOverlap)
  <1>1. TablesInv => TwinsOverlap
    BY DEF TablesInv, RowsOK, TwinsIn, TwinsOverlap
  <1> QED BY <1>1, TablesInvariant, PTL

\* What a meeting's participants link to is a row of the user table
\* (MeetingBitableService.updateMeetingParticipants).
THEOREM PeopleLinkToRows == TablesAssumptions => (TablesSpec => []PeopleAreRows)
  <1>1. TablesInv => PeopleAreRows
    BY DEF TablesInv, RowsOK, CallInv, PeopleOK, PeopleAreRows
  <1> QED BY <1>1, TablesInvariant, PTL

\* A row of the meeting table is changed by the update of a call that ends.
UpdatedBy(c, i) ==
    /\ call[c].at = "meeting" /\ call[c].step = "update" /\ call[c].row = i
    /\ meetingRows'[i] = Written(meetingRows[i], call[c])
    /\ call'[c] = NoCall

LEMMA OnlyUpdatesChange ==
  ASSUME TablesInv, [TablesNext]_tableVars, NEW i \in 1..Len(meetingRows)
  PROVE  meetingRows'[i] = meetingRows[i] \/ \E c \in Calls : UpdatedBy(c, i)
  <1>1. /\ meetingRows \in Seq(MeetingRow) /\ Len(meetingRows) \in Nat
        /\ call \in [Calls -> CallRecord]
    BY Lengths DEF TablesInv, RowsOK
  <1>2. ASSUME NEW c \in Calls, UpdatesRow(c), \E k : Become(c, k),
               call[c].at = "meeting" => Become(c, NoCall)
        PROVE  meetingRows'[i] = meetingRows[i] \/ UpdatedBy(c, i)
    <2>1. CASE call[c].at # "meeting"
      BY <1>2, <2>1 DEF UpdatesRow
    <2>2. CASE call[c].at = "meeting"
      <3>1. meetingRows' = [meetingRows EXCEPT ![call[c].row] = Written(@, call[c])]
        BY <1>2, <2>2 DEF UpdatesRow
      <3>2. CASE call[c].row = i
        <4>1. meetingRows'[i] = Written(meetingRows[i], call[c])
          BY <1>1, <3>1, <3>2
        <4>2. call'[c] = NoCall
          BY <1>1, <1>2, <2>2 DEF Become
        <4> QED BY <1>2, <2>2, <3>2, <4>1, <4>2 DEF UpdatedBy, UpdatesRow
      <3>3. CASE call[c].row # i
        BY <1>1, <3>1, <3>3
      <3> QED BY <3>2, <3>3
    <2> QED BY <2>1, <2>2
  <1>3. ASSUME NEW c \in Calls, CreatesRow(c)
        PROVE  meetingRows'[i] = meetingRows[i]
    <2>1. CASE call[c].at # "meeting"
      BY <1>3, <2>1 DEF CreatesRow
    <2>2. CASE call[c].at = "meeting"
      <3> DEFINE w == Written([meeting |-> call[c].meeting, people |-> {}, owner |-> 0,
                               version |-> 0, seen |-> call[c].seen], call[c])
      <3>1. meetingRows' = Append(meetingRows, w)
        BY <1>3, <2>2 DEF CreatesRow
      <3> HIDE DEF w
      <3> QED BY <1>1, <3>1
    <2> QED BY <2>1, <2>2
  <1>4. ASSUME NEW c \in Calls, UpdateRecord(c)
        PROVE  meetingRows'[i] = meetingRows[i] \/ UpdatedBy(c, i)
    <2>1. UpdatesRow(c) /\ Become(c, Resolved(call[c], call[c].row))
      BY <1>4 DEF UpdateRecord
    <2>2. call[c].at = "meeting" => Resolved(call[c], call[c].row) = NoCall
      BY DEF Resolved
    <2> QED BY <1>2, <2>1, <2>2
  <1>5. ASSUME NEW c \in Calls, AnswerLost(c)
        PROVE  meetingRows'[i] = meetingRows[i] \/ UpdatedBy(c, i)
    BY <1>2, <1>3, <1>5 DEF AnswerLost
  <1>6. CASE UNCHANGED meetingRows
    BY <1>6
  <1>7. ASSUME NEW c \in Calls, TableStep(c) \/ RequestFails(c)
        PROVE  meetingRows'[i] = meetingRows[i] \/ UpdatedBy(c, i)
    BY <1>3, <1>4, <1>5, <1>6, <1>7
       DEF TableStep, ReadMeeting, FindUser, SearchRecord, CreateRecord, RequestFails
  <1> QED BY <1>6, <1>7 DEF TablesNext, CallsStart, LoseCalls, tableVars

\* Participants are lost only to a write that was computed from a version of
\* the row that is no longer there (MeetingBitableService.updateMeetingParticipants).
THEOREM NoLossWithoutStaleness ==
  TablesAssumptions => (TablesSpec => LostOnlyToStaleWrites)
  <1>1. ASSUME TablesInv, [TablesNext]_tableVars, NEW i \in 1..Len(meetingRows)
        PROVE  meetingRows[i].people \subseteq meetingRows'[i].people \/ StaleWrite(i)
    <2>1. CASE meetingRows'[i] = meetingRows[i]
      BY <2>1
    <2>2. CASE \E c \in Calls : UpdatedBy(c, i)
      <3>1. PICK c \in Calls : UpdatedBy(c, i)
        BY <2>2
      <3> DEFINE k == call[c]
      <3>2. /\ k \in CallRecord /\ meetingRows[i] \in MeetingRow
            /\ SearchOK(k, userRows, meetingRows) /\ SnapshotOK(k, meetingRows)
        BY <1>1, Lengths DEF TablesInv, CallInv
      <3>3. /\ k.at = "meeting" /\ k.step = "update" /\ k.row = i
            /\ meetingRows'[i] = Written(meetingRows[i], k) /\ call'[c] = NoCall
        BY <3>1 DEF UpdatedBy
      <3>4. CASE k.base # meetingRows[i].version
        BY <3>3, <3>4 DEF StaleWrite
      <3>5. CASE k.kind # "people"
        BY <3>3, <3>5 DEF Written
      <3>6. CASE k.kind = "people" /\ k.base = meetingRows[i].version
        <4>1. Least(i, MeetingHits(k.meeting, meetingRows))
          BY <3>2, <3>3 DEF SearchOK, HitsIn
        <4>2. meetingRows[i].people \subseteq k.people
          BY <3>2, <3>3, <3>6, <4>1 DEF SnapshotOK
        <4>3. meetingRows'[i].people = k.people
          BY <3>2, <3>3, <3>6, WrittenRow
        <4> QED BY <4>2, <4>3
      <3> QED BY <3>4, <3>5, <3>6
    <2> QED BY <1>1, <2>1, <2>2, OnlyUpdatesChange
  <1>2. TablesInv /\ [TablesNext]_tableVars =>
           [\A i \in 1..Len(meetingRows) :
              meetingRows[i].people \subseteq meetingRows'[i].people \/ StaleWrite(i)
           ]_tableVars
    BY <1>1
  <1> QED BY <1>2, TablesInvariant, PTL DEF TablesSpec, LostOnlyToStaleWrites

\* Of two rows for one meeting the later is never written again, since every
\* search finds the earlier (BitableService.upsertRecord).
THEOREM TwinsAreDead == TablesAssumptions => (TablesSpec => LaterTwinsNeverWritten)
  <1>1. ASSUME TablesInv, [TablesNext]_tableVars,
               NEW i \in 1..Len(meetingRows), NEW j \in 1..Len(meetingRows),
               i < j, meetingRows[i].meeting = meetingRows[j].meeting
        PROVE  meetingRows'[j] = meetingRows[j]
    <2> SUFFICES ASSUME NEW c \in Calls, UpdatedBy(c, j) PROVE FALSE
      BY <1>1, OnlyUpdatesChange
    <2> DEFINE k == call[c]
    <2>1. k.at = "meeting" /\ k.step = "update" /\ k.row = j
      BY DEF UpdatedBy
    <2>2. Least(j, MeetingHits(k.meeting, meetingRows))
      BY <1>1, <2>1 DEF TablesInv, CallInv, SearchOK, HitsIn
    <2>3. i \in MeetingHits(k.meeting, meetingRows)
      BY <1>1, <2>2 DEF Least, MeetingHits, Matches
    <2>4. j <= i
      BY <2>2, <2>3 DEF Least
    <2>5. Len(meetingRows) \in Nat
      BY <1>1, Lengths DEF TablesInv
    <2> QED BY <1>1, <2>4, <2>5
  <1>2. TablesInv /\ [TablesNext]_tableVars =>
           [\A i, j \in 1..Len(meetingRows) :
              i < j /\ meetingRows[i].meeting = meetingRows[j].meeting =>
                  meetingRows'[j] = meetingRows[j]
           ]_tableVars
    BY <1>1
  <1> QED BY <1>2, TablesInvariant, PTL DEF TablesSpec, LaterTwinsNeverWritten
-----------------------------------------------------------------------------
(* Where the people of a call and of a row come from *)

ReadsPeople(k, n, ms) ==
    /\ k.step = "read" /\ n.at = "operator"
    /\ \/ n.people \subseteq k.people
       \/ \E j \in 1..Len(ms) : /\ Least(j, MeetingHits(k.meeting, ms))
                                /\ n.people = ms[j].people

AddsUser(k, n, us) ==
    \E id \in 1..Len(us) :
        /\ us[id].uuid = UserOf(k) /\ n.people = k.people \cup {id}
        /\ \/ k.at = "operator" /\ n.at = "creator"
           \/ k.at = "creator" /\ n.at = "meeting" /\ n.owner = id

KeepsPeople(k, n) ==
    /\ k.step # "read" /\ n.at = k.at
    /\ n.people = k.people /\ n.owner = k.owner

\* A call k that goes on as n has the people it had, or those of the row it
\* reads, or the user it is after as well.
Carries(k, n, us, ms) ==
    /\ n.kind = k.kind /\ n.meeting = k.meeting
    /\ n.operator = k.operator /\ n.creator = k.creator
    /\ ReadsPeople(k, n, ms) \/ AddsUser(k, n, us) \/ KeepsPeople(k, n)

\* Row i has the people it had, or none, or those of the call that writes it.
RowCarries(i, k, ms, ms2) ==
    \/ i \in 1..Len(ms) /\ ms2[i].people = ms[i].people
          /\ ms2[i].owner = ms[i].owner /\ ms2[i].version = ms[i].version
    \/ ms2[i].people = {} /\ ms2[i].version = 0
    \/ /\ k.kind = "people" /\ k.at = "meeting" /\ k.step # "read"
       /\ ms2[i].people = k.people /\ ms2[i].owner = k.owner
       /\ \/ i \in 1..Len(ms) /\ Least(i, MeetingHits(k.meeting, ms))
          \/ ms2[i].meeting = k.meeting

LEMMA ResolvedCarries ==
  ASSUME NEW us, NEW ms, NEW k \in CallRecord, CallOK(k), NEW id,
         k.step \in {"find", "update", "create"},
         k.at # "meeting" => id \in 1..Len(us) /\ us[id].uuid = UserOf(k)
  PROVE  Resolved(k, id) = NoCall \/ Carries(k, Resolved(k, id), us, ms)
  <1>1. CASE k.kind = "user" \/ k.at = "meeting"
    BY <1>1 DEF Resolved
  <1>2. CASE k.kind # "user" /\ k.at = "operator"
    <2> DEFINE n == [k EXCEPT !.people = @ \cup {id}, !.at = "creator",
                              !.step = "find", !.row = 0, !.seen = 0]
    <2>1. Resolved(k, id) = n
      BY <1>2 DEF Resolved
    <2>2. /\ n.kind = k.kind /\ n.meeting = k.meeting /\ n.operator = k.operator
          /\ n.creator = k.creator /\ n.people = k.people \cup {id} /\ n.at = "creator"
      BY DEF CallRecord
    <2> HIDE DEF n
    <2>3. AddsUser(k, n, us)
      BY <1>2, <2>2 DEF AddsUser
    <2> QED BY <2>1, <2>2, <2>3 DEF Carries
  <1>3. CASE k.kind # "user" /\ k.at \notin {"operator", "meeting"}
    <2> DEFINE n == [k EXCEPT !.people = @ \cup {id}, !.owner = id, !.at = "meeting",
                              !.step = "search", !.row = 0, !.seen = 0]
    <2>1. Resolved(k, id) = n
      BY <1>3 DEF Resolved
    <2>2. /\ n.kind = k.kind /\ n.meeting = k.meeting /\ n.operator = k.operator
          /\ n.creator = k.creator /\ n.people = k.people \cup {id} /\ n.at = "meeting"
          /\ n.owner = id
      BY DEF CallRecord
    <2> HIDE DEF n
    <2>3. k.at = "creator"
      BY <1>3 DEF CallOK, NoCall
    <2>4. AddsUser(k, n, us)
      BY <2>2, <2>3 DEF AddsUser
    <2> QED BY <2>1, <2>2, <2>4 DEF Carries
  <1> QED BY <1>1, <1>2, <1>3

LEMMA SnapshotCarries ==
  ASSUME TablesAssumptions, RowsOK(userRows, meetingRows), NEW k \in CallRecord, CallOK(k), k.step = "read",
         NEW n, n = [k EXCEPT !.people = Snapshot(k).people, !.base = Snapshot(k).version,
                              !.at = "operator", !.step = "find"]
  PROVE  Carries(k, n, userRows, meetingRows)
  <1>1. /\ n.kind = k.kind /\ n.meeting = k.meeting /\ n.operator = k.operator
        /\ n.creator = k.creator /\ n.people = Snapshot(k).people /\ n.at = "operator"
    BY DEF CallRecord
  <1>2. k.at = "meeting"
    BY DEF CallOK, NoCall
  <1>3. ReadsPeople(k, n, meetingRows)
    <2>1. CASE Hits(k) = {}
      BY <1>1, <2>1 DEF ReadsPeople, Snapshot
    <2>2. CASE Hits(k) # {}
      <3> DEFINE f == First(Hits(k))
      <3>1. f \in 1..Len(meetingRows) /\ Least(f, MeetingHits(k.meeting, meetingRows))
        BY <1>2, <2>2, FirstHit DEF LengthIn, HitsIn
      <3>2. n.people = meetingRows[f].people
        BY <1>1, <2>2 DEF Snapshot
      <3> HIDE DEF f
      <3> QED BY <1>1, <3>1, <3>2 DEF ReadsPeople
    <2> QED BY <2>1, <2>2
  <1> QED BY <1>1, <1>3 DEF Carries

\* A request without rows to write, or without data.
LEMMA StepOnCarries ==
  ASSUME NEW us, NEW ms, NEW k \in CallRecord
  PROVE  /\ k.step = "read" =>
               Carries(k, [k EXCEPT !.at = "operator", !.step = "find"], us, ms)
         /\ k.step # "read" =>
               /\ \A s : Carries(k, [k EXCEPT !.step = s], us, ms)
               /\ \A s, r : Carries(k, [k EXCEPT !.step = s, !.row = r], us, ms)
               /\ \A s, n : Carries(k, [k EXCEPT !.step = s, !.seen = n], us, ms)
  <1>1. ASSUME k.step = "read"
        PROVE  Carries(k, [k EXCEPT !.at = "operator", !.step = "find"], us, ms)
    <2> DEFINE n == [k EXCEPT !.at = "operator", !.step = "find"]
    <2>1. /\ n.kind = k.kind /\ n.meeting = k.meeting /\ n.operator = k.operator
          /\ n.creator = k.creator /\ n.people = k.people /\ n.at = "operator"
      BY DEF CallRecord
    <2> HIDE DEF n
    <2>2. Carries(k, n, us, ms)
      BY <1>1, <2>1 DEF Carries, ReadsPeople
    <2> QED BY <2>2 DEF n
  <1>2. ASSUME NEW n, k.step # "read", n.at = k.at,
               n.people = k.people, n.owner = k.owner,
               n.kind = k.kind, n.meeting = k.meeting,
               n.operator = k.operator, n.creator = k.creator
        PROVE  Carries(k, n, us, ms)
    BY <1>2 DEF Carries, KeepsPeople
  <1>3. ASSUME NEW s, k.step # "read"
        PROVE  Carries(k, [k EXCEPT !.step = s], us, ms)
    <2> DEFINE n == [k EXCEPT !.step = s]
    <2>1. /\ n.kind = k.kind /\ n.meeting = k.meeting /\ n.operator = k.operator
          /\ n.creator = k.creator /\ n.people = k.people /\ n.at = k.at
          /\ n.owner = k.owner
      BY DEF CallRecord
    <2> HIDE DEF n
    <2>2. Carries(k, n, us, ms)
      BY <1>2, <1>3, <2>1
    <2> QED BY <2>2 DEF n
  <1>4. ASSUME NEW s, NEW r, k.step # "read"
        PROVE  /\ Carries(k, [k EXCEPT !.step = s, !.row = r], us, ms)
               /\ Carries(k, [k EXCEPT !.step = s, !.seen = r], us, ms)
    <2> DEFINE n == [k EXCEPT !.step = s, !.row = r]
    <2> DEFINE o == [k EXCEPT !.step = s, !.seen = r]
    <2>1. /\ n.kind = k.kind /\ n.meeting = k.meeting /\ n.operator = k.operator
          /\ n.creator = k.creator /\ n.people = k.people /\ n.at = k.at
          /\ n.owner = k.owner
      BY DEF CallRecord
    <2>2. /\ o.kind = k.kind /\ o.meeting = k.meeting /\ o.operator = k.operator
          /\ o.creator = k.creator /\ o.people = k.people /\ o.at = k.at
          /\ o.owner = k.owner
      BY DEF CallRecord
    <2> HIDE DEF n, o
    <2>3. Carries(k, n, us, ms) /\ Carries(k, o, us, ms)
      BY <1>2, <1>4, <2>1, <2>2
    <2> QED BY <2>3 DEF n, o
  <1> QED BY <1>1, <1>3, <1>4

LEMMA CallCarries ==
  ASSUME TablesAssumptions, TablesInv, NEW c \in Calls, TableStep(c) \/ RequestFails(c)
  PROVE  \E n : /\ Become(c, n)
                /\ n = NoCall \/ Carries(call[c], n, userRows', meetingRows)
  <1> DEFINE k == call[c]
  <1>1. /\ RowsOK(userRows, meetingRows) /\ CallInv(k, userRows, meetingRows)
        /\ k \in CallRecord /\ CallOK(k)
    BY DEF TablesInv, CallInv
  <1>2. CASE ReadMeeting(c)
    <2> DEFINE n == [k EXCEPT !.people = Snapshot(k).people, !.base = Snapshot(k).version,
                              !.at = "operator", !.step = "find"]
    <2>1. Become(c, n) /\ k.step = "read" /\ userRows' = userRows
      BY <1>2 DEF ReadMeeting
    <2>2. Carries(k, n, userRows, meetingRows)
      BY <1>1, <2>1, SnapshotCarries
    <2> QED BY <2>1, <2>2
  <1>3. CASE FindUser(c)
    <2>1. k.step = "find" /\ k.at # "meeting" /\ userRows' = userRows
      BY <1>1, <1>3 DEF FindUser, CallOK, NoCall
    <2>2. CASE Hits(k) # {}
      <3> DEFINE f == First(Hits(k))
      <3>1. f \in 1..Len(userRows) /\ userRows[f].uuid = UserOf(k)
        <4>1. UserOf(k) \in Users
          BY <1>1, <2>1, UserOfCall
        <4> HIDE DEF k
        <4>2. Least(f, UserHits(UserOf(k), userRows))
          BY <1>1, <2>1, <2>2, <4>1, FirstHit DEF HitsIn, Finds
        <4> QED BY <4>2 DEF UserHits, Least
      <3>2. Become(c, Resolved(k, f))
        BY <1>3, <2>2 DEF FindUser
      <3> HIDE DEF f
      <3>3. Resolved(k, f) = NoCall \/ Carries(k, Resolved(k, f), userRows, meetingRows)
        BY <1>1, <2>1, <3>1, ResolvedCarries
      <3> QED BY <2>1, <3>2, <3>3
    <2>3. CASE Hits(k) = {}
      <3>1. Become(c, [k EXCEPT !.step = "search"])
        BY <1>3, <2>3 DEF FindUser
      <3> QED BY <1>1, <2>1, <3>1, StepOnCarries
    <2> QED BY <2>2, <2>3
  <1>4. CASE SearchRecord(c)
    <2>1. k.step = "search" /\ userRows' = userRows
      BY <1>4 DEF SearchRecord
    <2>2. CASE Hits(k) # {}
      <3>1. Become(c, [k EXCEPT !.step = "update", !.row = First(Hits(k))])
        BY <1>4, <2>2 DEF SearchRecord
      <3> QED BY <1>1, <2>1, <3>1, StepOnCarries
    <2>3. CASE Hits(k) = {}
      <3>1. Become(c, [k EXCEPT !.step = "create", !.seen = TableLength(k)])
        BY <1>4, <2>3 DEF SearchRecord
      <3> QED BY <1>1, <2>1, <3>1, StepOnCarries
    <2> QED BY <2>2, <2>3
  <1>5. CASE UpdateRecord(c)
    <2>1. Become(c, Resolved(k, k.row))
      BY <1>5 DEF UpdateRecord
    <2>2. k.step = "update" /\ userRows' = userRows
      BY <1>5 DEF UpdateRecord, UpdatesRow
    <2>3. k.at # "meeting" => k.row \in 1..Len(userRows) /\ userRows[k.row].uuid = UserOf(k)
      BY <1>1, <2>2 DEF CallInv, SearchOK, HitsIn, UserHits, Least
    <2>4. \/ Resolved(k, k.row) = NoCall
          \/ Carries(k, Resolved(k, k.row), userRows, meetingRows)
      <3> HIDE DEF k
      <3> QED BY <1>1, <2>2, <2>3, ResolvedCarries
    <2> QED BY <2>1, <2>2, <2>4
  <1>6. CASE CreateRecord(c)
    <2> DEFINE id == TableLength(k) + 1
    <2>1. k.step = "create" /\ CreatesRow(c) /\ Become(c, Resolved(k, id))
      BY <1>6 DEF CreateRecord, CreatesRow
    <2>2. k.at # "meeting" => id \in 1..Len(userRows') /\ userRows'[id].uuid = UserOf(k)
      <3> SUFFICES ASSUME k.at # "meeting"
                   PROVE  id \in 1..Len(userRows') /\ userRows'[id].uuid = UserOf(k)
        OBVIOUS
      <3>1. userRows \in Seq(UserRow) /\ Len(userRows) \in Nat
        BY <1>1, Lengths DEF RowsOK
      <3>2. UserOf(k) \in Users /\ k.seen \in Nat
        BY <1>1, <2>1 DEF CallOK, CallRecord, NoCall, UserOf
      <3>3. /\ userRows' = Append(userRows, [uuid |-> UserOf(k), seen |-> k.seen])
            /\ id = Len(userRows) + 1
        BY <2>1 DEF CreatesRow, TableLength
      <3> DEFINE w == [uuid |-> UserOf(k), seen |-> k.seen]
      <3>4. w \in UserRow /\ w.uuid = UserOf(k) /\ userRows' = Append(userRows, w)
        BY <3>2, <3>3 DEF UserRow
      <3> HIDE DEF w, k, id
      <3> QED BY <3>1, <3>3, <3>4
    <2> HIDE DEF id
    <2>3. \/ Resolved(k, id) = NoCall
          \/ Carries(k, Resolved(k, id), userRows', meetingRows)
      BY <1>1, <2>1, <2>2, ResolvedCarries
    <2> QED BY <2>1, <2>3
  <1>7. CASE RequestFails(c)
    <2>1. CASE RequestThrows(c) \/ AnswerLost(c)
      BY <2>1 DEF RequestThrows, AnswerLost
    <2>2. CASE RequestWithoutData(c)
      <3>1. CASE k.step = "read" /\ Become(c, [k EXCEPT !.at = "operator", !.step = "find"])
        BY <1>1, <3>1, StepOnCarries
      <3>2. CASE k.step = "find" /\ Become(c, [k EXCEPT !.step = "search"])
        BY <1>1, <3>2, StepOnCarries
      <3>3. CASE /\ k.step \in {"search", "update"}
                 /\ Become(c, [k EXCEPT !.step = "create", !.row = 0])
        BY <1>1, <3>3, StepOnCarries
      <3>4. CASE k.step = "create" /\ Become(c, NoCall)
        BY <3>4
      <3> QED BY <2>2, <3>1, <3>2, <3>3, <3>4 DEF RequestWithoutData
    <2> QED BY <1>7, <2>1, <2>2 DEF RequestFails
  <1> QED BY <1>2, <1>3, <1>4, <1>5, <1>6, <1>7 DEF TableStep

LEMMA RowsCarry ==
  ASSUME TablesInv, NEW c \in Calls, TableStep(c) \/ RequestFails(c),
         NEW i \in 1..Len(meetingRows')
  PROVE  RowCarries(i, call[c], meetingRows, meetingRows')
  <1> DEFINE k == call[c]
  <1>1. /\ RowsOK(userRows, meetingRows) /\ CallInv(k, userRows, meetingRows)
        /\ k \in CallRecord /\ CallOK(k)
        /\ meetingRows \in Seq(MeetingRow) /\ Len(meetingRows) \in Nat
        /\ \A j \in 1..Len(meetingRows) : meetingRows[j] \in MeetingRow
    BY Lengths DEF TablesInv, CallInv, RowsOK
  <1>2. CASE meetingRows' = meetingRows
    BY <1>2 DEF RowCarries
  <1>3. CASE UpdatesRow(c) /\ k.at = "meeting"
    <2> DEFINE r == k.row
    <2> DEFINE w == Written(meetingRows[r], k)
    <2>1. /\ k.step = "update" /\ r \in 1..Len(meetingRows)
          /\ Least(r, MeetingHits(k.meeting, meetingRows))
          /\ meetingRows' = [meetingRows EXCEPT ![r] = w]
      BY <1>1, <1>3 DEF UpdatesRow, CallInv, SearchOK, HitsIn, MeetingHits, Least
    <2>2. /\ k.kind # "people" => w = meetingRows[r]
          /\ k.kind = "people" => w.people = k.people /\ w.owner = k.owner
      BY <1>1, <2>1, WrittenRow
    <2> HIDE DEF w, r
    <2>3. i \in 1..Len(meetingRows) /\ meetingRows'[r] = w
            /\ (i # r => meetingRows'[i] = meetingRows[i])
      BY <1>1, <2>1
    <2>4. CASE i # r \/ k.kind # "people"
      BY <2>2, <2>3, <2>4 DEF RowCarries
    <2>5. CASE i = r /\ k.kind = "people"
      BY <1>3, <2>1, <2>2, <2>3, <2>5 DEF RowCarries
    <2> QED BY <2>4, <2>5
  <1>4. CASE CreatesRow(c) /\ k.at = "meeting"
    <2> DEFINE new == [meeting |-> k.meeting, people |-> {}, owner |-> 0,
                       version |-> 0, seen |-> k.seen]
    <2> DEFINE w == Written(new, k)
    <2>1. k.step = "create" /\ meetingRows' = Append(meetingRows, w)
      BY <1>4 DEF CreatesRow
    <2>2. /\ new \in MeetingRow /\ new.meeting = k.meeting
          /\ new.people = {} /\ new.version = 0
      <3>1. k.meeting \in Meetings /\ k.seen \in Nat
        BY <1>1, <1>4, <2>1 DEF CallOK, CallRecord, NoCall
      <3> QED BY <3>1 DEF MeetingRow
    <2> HIDE DEF new
    <2>3. /\ w \in MeetingRow /\ w.meeting = k.meeting
          /\ k.kind # "people" => w.people = {} /\ w.version = 0
          /\ k.kind = "people" => w.people = k.people /\ w.owner = k.owner
      BY <1>1, <2>2, WrittenRow
    <2> HIDE DEF w, k
    <2>4. /\ i \in 1..Len(meetingRows) => meetingRows'[i] = meetingRows[i]
          /\ i \notin 1..Len(meetingRows) => meetingRows'[i] = w
      BY <1>1, <2>1, <2>3
    <2>5. CASE i \in 1..Len(meetingRows)
      BY <2>4, <2>5 DEF RowCarries, k
    <2>6. CASE i \notin 1..Len(meetingRows)
      <3>1. k.kind # "people" => RowCarries(i, k, meetingRows, meetingRows')
        BY <2>3, <2>4, <2>6 DEF RowCarries
      <3>2. k.kind = "people" => RowCarries(i, k, meetingRows, meetingRows')
        BY <1>4, <2>1, <2>3, <2>4, <2>6 DEF RowCarries
      <3> QED BY <3>1, <3>2 DEF k
    <2> QED BY <2>5, <2>6
  <1>5. \/ meetingRows' = meetingRows
        \/ k.at = "meeting" /\ (UpdatesRow(c) \/ CreatesRow(c))
    BY DEF TableStep, ReadMeeting, FindUser, SearchRecord, UpdateRecord, CreateRecord,
           RequestFails, AnswerLost, UpdatesRow, CreatesRow
  <1> QED BY <1>2, <1>3, <1>4, <1>5

\* No request takes a row away or changes what it is the row of.
LEMMA StepGrows ==
  ASSUME TablesInv, NEW c \in Calls, TableStep(c) \/ RequestFails(c)
  PROVE  Grown(userRows, meetingRows, userRows', meetingRows')
  <1>1. RowsOK(userRows, meetingRows) /\ CallInv(call[c], userRows, meetingRows)
    BY DEF TablesInv
  <1>2. CASE UNCHANGED <<userRows, meetingRows>>
    BY <1>1, <1>2, NothingGrown
  <1>3. CASE UpdatesRow(c) \/ CreatesRow(c)
    BY <1>1, <1>3, RowsWritten
  <1>4. \/ UNCHANGED <<userRows, meetingRows>>
        \/ UpdatesRow(c) \/ CreatesRow(c)
    BY DEF TableStep, ReadMeeting, FindUser, SearchRecord, UpdateRecord, CreateRecord,
           RequestFails, AnswerLost
  <1> QED BY <1>2, <1>3, <1>4
=============================================================================
