----------------------- MODULE VerificationCodesProofs -----------------------
(***************************************************************************)
(* Proofs about VerificationCodes, for every number of calls in flight,    *)
(* every limit and every bound.  CodesInv is inductive: the overrun of a   *)
(* limit is bounded by counting the calls that passed the check together   *)
(* with the rows, and the acceptances of a row by counting the calls that  *)
(* found it together with those that accepted it.                          *)
(***************************************************************************)
EXTENDS VerificationCodes, FiniteSetTheorems, SequenceTheorems, TLAPS

\* A row that is not marked used was accepted by nobody.
UnusedUnaccepted == \A i \in 1..Len(rows) : ~rows[i].used => accepts[i] = 0

CodesInv ==
    /\ CodesTypeOK
    /\ UnusedUnaccepted
    /\ OverlappingAcceptsOnly
    /\ TargetOverrunBounded
    /\ IpOverrunBounded

-----------------------------------------------------------------------------
(* Type correctness *)

LEMMA InitTypeOK == CodesInit => CodesTypeOK
  <1> SUFFICES ASSUME CodesInit PROVE CodesTypeOK OBVIOUS
  <1>1. NoCall \in Call
    BY DEF NoCall, Call
  <1>2. rows \in Seq(Row) /\ accepts \in Seq(Nat) /\ Len(rows) = 0 /\ Len(accepts) = 0
    BY DEF CodesInit
  <1> QED BY <1>1, <1>2, BoundsAssumption
       DEF CodesInit, CodesTypeOK, SendPoints, Results

\* An action that changes one slot and leaves the table alone, or lets it grow.
LEMMA SlotTypeOK ==
  ASSUME CodesTypeOK, NEW r \in Requests, NEW point, NEW call \in Call,
         SetCall(r, point, call),
         point \in {"idle", "vfMark"} \cup SendPoints \cup Results,
         Len(rows') \in Nat, Len(rows') >= Len(rows),
         point \in {"vfMark", "sdDeliver"} => call.row \in 1..Len(rows'),
         point \in SendPoints => call.target # None /\ call.ip # None /\ call.type # None
  PROVE  /\ vpc' \in [Requests -> {"idle", "vfMark"} \cup SendPoints \cup Results]
         /\ vreq' \in [Requests -> Call]
         /\ \A q \in Requests :
               /\ vpc'[q] \in {"vfMark", "sdDeliver"} => vreq'[q].row \in 1..Len(rows')
               /\ vpc'[q] \in SendPoints => vreq'[q].target # None /\ vreq'[q].ip # None
                                              /\ vreq'[q].type # None
  <1>1. Len(rows) \in Nat
    BY DEF CodesTypeOK
  <1>2. /\ vpc' \in [Requests -> {"idle", "vfMark"} \cup SendPoints \cup Results]
        /\ vreq' \in [Requests -> Call]
    BY DEF CodesTypeOK, SetCall
  <1>3. ASSUME NEW q \in Requests
        PROVE  /\ vpc'[q] \in {"vfMark", "sdDeliver"} => vreq'[q].row \in 1..Len(rows')
               /\ vpc'[q] \in SendPoints => vreq'[q].target # None /\ vreq'[q].ip # None
                                              /\ vreq'[q].type # None
    <2>1. CASE q = r
      BY <2>1 DEF CodesTypeOK, SetCall
    <2>2. CASE q # r
      <3>1. vpc'[q] = vpc[q] /\ vreq'[q] = vreq[q]
        BY <2>2 DEF CodesTypeOK, SetCall
      <3> QED BY <3>1, <1>1 DEF CodesTypeOK
    <2> QED BY <2>1, <2>2
  <1> QED BY <1>2, <1>3

LEMMA NoCallIsCall == NoCall \in Call /\ NoCall.row = 0
  BY DEF NoCall, Call

\* A step that ends in a result, at any point, with the table as it was.
LEMMA ResultTypeOK ==
  ASSUME CodesTypeOK, NEW r \in Requests, NEW result \in Results, Result(r, result),
         UNCHANGED <<codeTableVars, accepts>>,
         delivered' \subseteq 1..Len(rows), codeFaults' \in 0..MaxFaults
  PROVE  CodesTypeOK'
  <1>1. /\ result \notin {"vfMark", "sdDeliver"}
        /\ result \notin SendPoints
    BY DEF Results, SendPoints
  <1>2. Len(rows') \in Nat /\ Len(rows') >= Len(rows)
    BY DEF CodesTypeOK, codeTableVars
  <1>3. /\ vpc' \in [Requests -> {"idle", "vfMark"} \cup SendPoints \cup Results]
        /\ vreq' \in [Requests -> Call]
        /\ \A q \in Requests :
               /\ vpc'[q] \in {"vfMark", "sdDeliver"} => vreq'[q].row \in 1..Len(rows')
               /\ vpc'[q] \in SendPoints => vreq'[q].target # None /\ vreq'[q].ip # None
                                              /\ vreq'[q].type # None
    BY <1>1, <1>2, SlotTypeOK, NoCallIsCall DEF Result
  <1> QED BY <1>3 DEF CodesTypeOK, codeTableVars

\* A step that goes on with the same or with new arguments.
LEMMA AwaitTypeOK ==
  ASSUME CodesTypeOK, NEW r \in Requests, NEW point, NEW call \in Call,
         SetCall(r, point, call), UNCHANGED <<codeTableVars, accepts, codeFaults>>,
         point \in {"vfMark"} \cup SendPoints,
         point \in {"vfMark", "sdDeliver"} => call.row \in 1..Len(rows),
         point \in SendPoints => call.target # None /\ call.ip # None /\ call.type # None,
         delivered' \subseteq 1..Len(rows)
  PROVE  CodesTypeOK'
  <1>2. Len(rows') \in Nat /\ Len(rows') >= Len(rows) /\ Len(rows') = Len(rows)
    BY DEF CodesTypeOK, codeTableVars
  <1>3. /\ vpc' \in [Requests -> {"idle", "vfMark"} \cup SendPoints \cup Results]
        /\ vreq' \in [Requests -> Call]
        /\ \A q \in Requests :
               /\ vpc'[q] \in {"vfMark", "sdDeliver"} => vreq'[q].row \in 1..Len(rows')
               /\ vpc'[q] \in SendPoints => vreq'[q].target # None /\ vreq'[q].ip # None
                                              /\ vreq'[q].type # None
    BY <1>2, SlotTypeOK
  <1> QED BY <1>3 DEF CodesTypeOK, codeTableVars
LEMMA CreateTypeOK ==
  ASSUME CodesTypeOK, NEW r \in Requests, NEW code \in Codes, SendCreates(r, code)
  PROVE  CodesTypeOK'
  <1> DEFINE newRow == [target |-> vreq[r].target, ip |-> vreq[r].ip,
                        type |-> vreq[r].type, code |-> code, used |-> FALSE]
  <1> DEFINE call == [vreq[r] EXCEPT !.row = Len(rows) + 1]
  <1>1. vreq[r] \in Call /\ Len(rows) \in Nat /\ rows \in Seq(Row) /\ accepts \in Seq(Nat)
    BY DEF CodesTypeOK
  <1>2. /\ vreq[r].target # None /\ vreq[r].ip # None /\ vreq[r].type # None
    BY DEF CodesTypeOK, SendCreates, SendPoints
  <1>3. newRow \in Row
    BY <1>1, <1>2 DEF Row, Call
  <1>4. rows' = Append(rows, newRow) /\ accepts' = Append(accepts, 0)
        /\ SetCall(r, "sdDeliver", call)
    BY DEF SendCreates
  <1>5. /\ call \in Call /\ call.row = Len(rows) + 1 /\ call.target = vreq[r].target
        /\ call.ip = vreq[r].ip /\ call.type = vreq[r].type
    <2> DEFINE x == vreq[r]
               n == Len(rows) + 1
               y == [x EXCEPT !.row = n]
    <2>1. x \in Call /\ n \in Nat
      BY <1>1
    <2> HIDE DEF x, n
    <2>2. /\ y \in Call /\ y.row = n /\ y.target = x.target
          /\ y.ip = x.ip /\ y.type = x.type
      BY <2>1 DEF Call
    <2> QED BY <2>2 DEF x, n
  <1> HIDE DEF newRow, call
  <1>6. /\ rows' \in Seq(Row) /\ Len(rows') = Len(rows) + 1
        /\ accepts' \in Seq(Nat) /\ Len(accepts') = Len(accepts) + 1
    BY <1>1, <1>3, <1>4, AppendProperties
  <1>7. /\ vpc' \in [Requests -> {"idle", "vfMark"} \cup SendPoints \cup Results]
        /\ vreq' \in [Requests -> Call]
        /\ \A q \in Requests :
               /\ vpc'[q] \in {"vfMark", "sdDeliver"} => vreq'[q].row \in 1..Len(rows')
               /\ vpc'[q] \in SendPoints => vreq'[q].target # None /\ vreq'[q].ip # None
                                              /\ vreq'[q].type # None
    <2>1. /\ Len(rows') \in Nat /\ Len(rows') >= Len(rows)
          /\ call.row \in 1..Len(rows')
      BY <1>1, <1>5, <1>6
    <2>2. "sdDeliver" \in {"idle", "vfMark"} \cup SendPoints \cup Results
      BY DEF SendPoints
    <2> QED BY <1>2, <1>4, <1>5, <2>1, <2>2, SlotTypeOK
  <1>8. UNCHANGED <<expired, hour, day, sendLimits, delivered, codeFaults>>
    BY DEF SendCreates
  <1> QED BY <1>1, <1>6, <1>7, <1>8 DEF CodesTypeOK

LEMMA MarkTypeOK ==
  ASSUME CodesTypeOK, NEW r \in Requests, VerifyMarks(r)
  PROVE  /\ CodesTypeOK'
         /\ Len(rows') = Len(rows)
  <1> DEFINE i == vreq[r].row
  <1>1. /\ vreq[r] \in Call /\ i \in 1..Len(rows) /\ Len(rows) \in Nat
        /\ rows \in Seq(Row) /\ accepts \in Seq(Nat) /\ Len(accepts) = Len(rows)
    BY DEF CodesTypeOK, VerifyMarks
  <1>2. rows' = [rows EXCEPT ![i].used = TRUE] /\ accepts' = [accepts EXCEPT ![i] = @ + 1]
    BY DEF VerifyMarks
  <1>3. rows[i] \in Row /\ accepts[i] \in Nat
    BY <1>1, ElementOfSeq
  <1> HIDE DEF i
  <1>4. [rows[i] EXCEPT !.used = TRUE] \in Row /\ accepts[i] + 1 \in Nat
    <2> DEFINE x == rows[i]
    <2>1. x \in Row
      BY <1>3
    <2> HIDE DEF x
    <2>2. [x EXCEPT !.used = TRUE] \in Row
      BY <2>1 DEF Row
    <2> QED BY <1>3, <2>2 DEF x
  <1>5. /\ rows' \in Seq(Row) /\ Len(rows') = Len(rows)
        /\ accepts' \in Seq(Nat) /\ Len(accepts') = Len(accepts)
    BY <1>1, <1>2, <1>4, ExceptSeq
  <1>6. /\ vpc' \in [Requests -> {"idle", "vfMark"} \cup SendPoints \cup Results]
        /\ vreq' \in [Requests -> Call]
        /\ \A q \in Requests :
               /\ vpc'[q] \in {"vfMark", "sdDeliver"} => vreq'[q].row \in 1..Len(rows')
               /\ vpc'[q] \in SendPoints => vreq'[q].target # None /\ vreq'[q].ip # None
                                              /\ vreq'[q].type # None
    <2>1. SetCall(r, "valid", NoCall) /\ "valid" \in Results
          /\ "valid" \notin {"vfMark", "sdDeliver"} \cup SendPoints
          /\ Len(rows') \in Nat /\ Len(rows') >= Len(rows)
      BY <1>1, <1>5 DEF VerifyMarks, Result, Results, SendPoints
    <2> QED BY <2>1, SlotTypeOK, NoCallIsCall
  <1>7. UNCHANGED <<expired, hour, day, sendLimits, delivered, codeFaults>>
    BY DEF VerifyMarks
  <1> QED BY <1>1, <1>5, <1>6, <1>7 DEF CodesTypeOK

LEMMA FindTypeOK ==
  ASSUME CodesTypeOK, NEW r \in Requests, NEW t \in Targets, NEW type \in Types,
         NEW code, VerifyFinds(r, t, type, code)
  PROVE  CodesTypeOK'
  <1>1. UNCHANGED <<codeTableVars, delivered, codeFaults, accepts>>
    BY DEF VerifyFinds
  <1>2. CASE Valid(t, type, code) = {}
    <2>1. Result(r, "invalid") /\ "invalid" \in Results
      BY <1>2 DEF VerifyFinds, Results
    <2> QED BY <1>1, <2>1, ResultTypeOK DEF CodesTypeOK
  <1>3. CASE Valid(t, type, code) # {}
    <2>1. PICK i \in Valid(t, type, code) :
             SetCall(r, "vfMark", [NoCall EXCEPT !.target = t, !.type = type, !.row = i])
      BY <1>3 DEF VerifyFinds
    <2>2. i \in 1..Len(rows) /\ i \in Nat
      BY <2>1 DEF Valid, CodesTypeOK
    <2>3. /\ [NoCall EXCEPT !.target = t, !.type = type, !.row = i] \in Call
          /\ [NoCall EXCEPT !.target = t, !.type = type, !.row = i].row = i
      BY <2>2 DEF NoCall, Call
    <2>4. "vfMark" \notin SendPoints
      BY DEF SendPoints
    <2>5. delivered' \subseteq 1..Len(rows)
      BY <1>1 DEF CodesTypeOK
    <2> QED BY <1>1, <2>1, <2>2, <2>3, <2>4, <2>5, AwaitTypeOK
  <1> QED BY <1>2, <1>3

LEMMA TargetCheckTypeOK ==
  ASSUME CodesTypeOK, NEW r \in Requests, NEW t \in Targets, NEW a \in Ips,
         NEW type \in Types, SendChecksTarget(r, t, a, type)
  PROVE  CodesTypeOK'
  <1>1. UNCHANGED <<codeTableVars, delivered, codeFaults, accepts>>
    BY DEF SendChecksTarget
  <1> DEFINE call == [NoCall EXCEPT !.target = t, !.ip = a, !.type = type]
  <1>2. call \in Call /\ call.target # None /\ call.ip # None /\ call.type # None
    BY NoneAssumption DEF NoCall, Call
  <1>3. delivered' \subseteq 1..Len(rows) /\ codeFaults' \in 0..MaxFaults
    BY <1>1 DEF CodesTypeOK
  <1>4. CASE SetCall(r, "sdIp", call)
    <2> HIDE DEF call
    <2>1. "sdIp" \in SendPoints /\ "sdIp" \notin {"vfMark", "sdDeliver"}
      BY DEF SendPoints
    <2> QED BY <1>1, <1>2, <1>3, <1>4, <2>1, AwaitTypeOK
  <1>5. CASE Result(r, "refused")
    BY <1>1, <1>3, <1>5, ResultTypeOK DEF Results
  <1> QED BY <1>4, <1>5 DEF SendChecksTarget

LEMMA IpCheckTypeOK ==
  ASSUME CodesTypeOK, NEW r \in Requests, SendChecksIp(r)
  PROVE  CodesTypeOK'
  <1>1. UNCHANGED <<codeTableVars, delivered, codeFaults, accepts>> /\ vpc[r] = "sdIp"
    BY DEF SendChecksIp
  <1>2. /\ vreq[r] \in Call /\ vreq[r].target # None /\ vreq[r].ip # None
        /\ vreq[r].type # None
    BY <1>1 DEF CodesTypeOK, SendPoints
  <1>3. delivered' \subseteq 1..Len(rows) /\ codeFaults' \in 0..MaxFaults
    BY <1>1 DEF CodesTypeOK
  <1>4. CASE Await(r, "sdCreate")
    <2>1. SetCall(r, "sdCreate", vreq[r])
      BY <1>4 DEF Await
    <2>2. "sdCreate" \in SendPoints /\ "sdCreate" \notin {"vfMark", "sdDeliver"}
      BY DEF SendPoints
    <2> QED BY <1>1, <1>2, <1>3, <2>1, <2>2, AwaitTypeOK
  <1>5. CASE Result(r, "refused")
    BY <1>1, <1>3, <1>5, ResultTypeOK DEF Results
  <1> QED BY <1>4, <1>5 DEF SendChecksIp

LEMMA DeliverTypeOK ==
  ASSUME CodesTypeOK, NEW r \in Requests, SendDelivers(r)
  PROVE  CodesTypeOK'
  <1>1. /\ UNCHANGED <<codeTableVars, codeFaults, accepts>> /\ vpc[r] = "sdDeliver"
        /\ delivered' = delivered \cup {vreq[r].row}
        /\ SetCall(r, "sdLimit", vreq[r])
    BY DEF SendDelivers, Await
  <1>2. /\ vreq[r] \in Call /\ vreq[r].target # None /\ vreq[r].ip # None
        /\ vreq[r].type # None /\ vreq[r].row \in 1..Len(rows)
    BY <1>1 DEF CodesTypeOK, SendPoints
  <1>3. delivered' \subseteq 1..Len(rows)
    BY <1>1, <1>2 DEF CodesTypeOK
  <1>4. "sdLimit" \in SendPoints /\ "sdLimit" \notin {"vfMark", "sdDeliver"}
    BY DEF SendPoints
  <1> QED BY <1>1, <1>2, <1>3, <1>4, AwaitTypeOK
LEMMA CountTypeOK ==
  ASSUME CodesTypeOK, NEW r \in Requests, SendCounts(r)
  PROVE  CodesTypeOK'
  <1>1. /\ UNCHANGED <<rows, expired, hour, day, delivered, codeFaults, accepts>>
        /\ vpc[r] = "sdLimit" /\ SetCall(r, "sent", NoCall)
        /\ sendLimits' = [sendLimits EXCEPT ![<<vreq[r].target, vreq[r].ip>>] = @ + 1]
    BY DEF SendCounts, Result
  <1>2. sendLimits' \in [Targets \X Ips -> Nat]
    <2> DEFINE k == <<vreq[r].target, vreq[r].ip>>
    <2>1. vreq[r] \in Call /\ vreq[r].target # None /\ vreq[r].ip # None
      BY <1>1 DEF CodesTypeOK, SendPoints
    <2>2. k \in Targets \X Ips
      BY <2>1 DEF Call
    <2>3. sendLimits \in [Targets \X Ips -> Nat] /\ sendLimits' = [sendLimits EXCEPT ![k] = @ + 1]
      BY <1>1 DEF CodesTypeOK
    <2> HIDE DEF k
    <2>4. sendLimits[k] + 1 \in Nat
      BY <2>2, <2>3
    <2> QED BY <2>2, <2>3, <2>4
  <1>3. /\ "sent" \in Results /\ "sent" \notin {"vfMark", "sdDeliver"} \cup SendPoints
        /\ Len(rows') \in Nat /\ Len(rows') >= Len(rows)
    BY <1>1 DEF Results, SendPoints, CodesTypeOK
  <1>4. /\ vpc' \in [Requests -> {"idle", "vfMark"} \cup SendPoints \cup Results]
        /\ vreq' \in [Requests -> Call]
        /\ \A q \in Requests :
               /\ vpc'[q] \in {"vfMark", "sdDeliver"} => vreq'[q].row \in 1..Len(rows')
               /\ vpc'[q] \in SendPoints => vreq'[q].target # None /\ vreq'[q].ip # None
                                              /\ vreq'[q].type # None
    BY <1>1, <1>3, SlotTypeOK, NoCallIsCall
  <1> QED BY <1>1, <1>2, <1>4 DEF CodesTypeOK

LEMMA FailTypeOK ==
  ASSUME CodesTypeOK, NEW r \in Requests, CallFails(r)
  PROVE  CodesTypeOK'
  <1>1. delivered' \subseteq 1..Len(rows) /\ codeFaults' \in 0..MaxFaults
    BY BoundsAssumption DEF CodesTypeOK, CallFails
  <1> QED BY <1>1, ResultTypeOK DEF CallFails, Results

LEMMA TakeTypeOK ==
  ASSUME CodesTypeOK, NEW r \in Requests, NEW result \in Results, Take(r, result)
  PROVE  CodesTypeOK'
  <1>1. SetCall(r, "idle", vreq[r]) /\ vreq[r] \in Call
    BY DEF Take, SetCall, CodesTypeOK
  <1>2. /\ "idle" \notin {"vfMark", "sdDeliver"} \cup SendPoints
        /\ Len(rows') \in Nat /\ Len(rows') >= Len(rows)
    BY DEF SendPoints, CodesTypeOK, Take, codeTableVars
  <1>3. /\ vpc' \in [Requests -> {"idle", "vfMark"} \cup SendPoints \cup Results]
        /\ vreq' \in [Requests -> Call]
        /\ \A q \in Requests :
               /\ vpc'[q] \in {"vfMark", "sdDeliver"} => vreq'[q].row \in 1..Len(rows')
               /\ vpc'[q] \in SendPoints => vreq'[q].target # None /\ vreq'[q].ip # None
                                              /\ vreq'[q].type # None
    BY <1>1, <1>2, SlotTypeOK
  <1> QED BY <1>3 DEF CodesTypeOK, Take, codeTableVars

LEMMA CrashTypeOK ==
  ASSUME CodesTypeOK, CodesCrash
  PROVE  CodesTypeOK'
  <1>1. codeFaults' \in 0..MaxFaults
    BY BoundsAssumption DEF CodesTypeOK, CodesCrash
  <1>2. "idle" \notin {"vfMark", "sdDeliver"} \cup SendPoints
    BY DEF SendPoints
  <1> QED BY <1>1, <1>2, NoCallIsCall DEF CodesTypeOK, CodesCrash, LoseCalls, codeTableVars

LEMMA TimeTypeOK ==
  ASSUME CodesTypeOK, TimePasses
  PROVE  CodesTypeOK'
  <1> DEFINE n == Len(rows)
  <1>1. n \in Nat /\ expired \in 0..n /\ hour \in 0..expired /\ day \in 0..hour
    BY DEF CodesTypeOK
  <1>4. \/ expired < n /\ expired' = expired + 1 /\ hour' = hour /\ day' = day
        \/ hour < expired /\ hour' = hour + 1 /\ expired' = expired /\ day' = day
        \/ day < hour /\ day' = day + 1 /\ expired' = expired /\ hour' = hour
    BY DEF TimePasses
  <1> HIDE DEF n
  <1>5. expired' \in 0..n /\ hour' \in 0..expired' /\ day' \in 0..hour'
    BY <1>1, <1>4
  <1>2. expired' \in 0..Len(rows) /\ hour' \in 0..expired' /\ day' \in 0..hour'
    BY <1>5 DEF n
  <1>3. UNCHANGED <<rows, sendLimits, delivered, vpc, vreq, codeFaults, accepts>>
    BY DEF TimePasses
  <1> QED BY <1>2, <1>3 DEF CodesTypeOK

LEMMA StepTypeOK == CodesTypeOK /\ [CodesNext]_codeVars => CodesTypeOK'
  <1> SUFFICES ASSUME CodesTypeOK, [CodesNext]_codeVars PROVE CodesTypeOK' OBVIOUS
  <1>1. ASSUME NEW r \in Requests, CallArrives(r) PROVE CodesTypeOK'
    BY <1>1, TargetCheckTypeOK, FindTypeOK DEF CallArrives
  <1>2. ASSUME NEW r \in Requests, CallStep(r) PROVE CodesTypeOK'
    BY <1>2, IpCheckTypeOK, CreateTypeOK, DeliverTypeOK, CountTypeOK, MarkTypeOK DEF CallStep
  <1>3. CASE UNCHANGED codeVars
    BY <1>3 DEF codeVars, codeTableVars, CodesTypeOK
  <1> QED BY <1>1, <1>2, <1>3, FailTypeOK, TakeTypeOK, CrashTypeOK, TimeTypeOK DEF CodesNext

-----------------------------------------------------------------------------
(* The sets the bounds count *)

\* All of them are finite, so their cardinalities are natural numbers.
LEMMA Finite ==
  ASSUME CodesTypeOK
  PROVE  /\ \A t : IsFiniteSet(SentTo(t)) /\ IsFiniteSet(SendersTo(t))
         /\ \A a : IsFiniteSet(SentFrom(a)) /\ IsFiniteSet(SendersFrom(a))
         /\ \A i : IsFiniteSet(Accepting(i))
  <1>1. IsFiniteSet(1..Len(rows))
    <2>1. Len(rows) \in Int /\ 1 \in Int
      BY DEF CodesTypeOK
    <2> QED BY <2>1, FS_Interval
  <1>2. \A S \in SUBSET (1..Len(rows)) : IsFiniteSet(S)
    BY <1>1, FS_Subset
  <1>3. \A S \in SUBSET Requests : IsFiniteSet(S)
    BY RequestsAssumption, FS_Subset
  <1> QED BY <1>2, <1>3 DEF SentTo, SentFrom, SendersTo, SendersFrom, Accepting

LEMMA SmallerSum ==
  ASSUME NEW A, NEW B, IsFiniteSet(A), IsFiniteSet(B), NEW C \in SUBSET A, NEW D \in SUBSET B
  PROVE  Cardinality(C) + Cardinality(D) <= Cardinality(A) + Cardinality(B)
  BY FS_Subset, FS_CardinalityType

LEMMA MovedSum ==
  ASSUME NEW A, NEW B, IsFiniteSet(A), IsFiniteSet(B), NEW x, NEW y \in B
  PROVE  Cardinality(A \cup {x}) + Cardinality(B \ {y}) <= Cardinality(A) + Cardinality(B)
  <1>1. Cardinality(A) \in Nat /\ Cardinality(B) \in Nat
    BY FS_CardinalityType
  <1>2. Cardinality(A \cup {x}) \in {Cardinality(A), Cardinality(A) + 1}
    BY FS_AddElement
  <1>3. Cardinality(B \ {y}) = Cardinality(B) - 1
    BY FS_RemoveElement
  <1> QED BY <1>1, <1>2, <1>3
-----------------------------------------------------------------------------
(* The bounds of the send limits *)

TargetBound(t) ==
    Cardinality(SentTo(t)) + Cardinality(SendersTo(t))
        <= MaxPerTarget - 1 + Cardinality(Requests)

IpBound(a) ==
    Cardinality(SentFrom(a)) + Cardinality(SendersFrom(a))
        <= MaxPerIp - 1 + Cardinality(Requests)

\* Rows that grow older and calls that leave lower both sums.
LEMMA TargetShrinks ==
  ASSUME CodesTypeOK, CodesTypeOK', NEW t, TargetBound(t),
         SentTo(t)' \subseteq SentTo(t), SendersTo(t)' \subseteq SendersTo(t)
  PROVE  TargetBound(t)'
  <1>1. /\ IsFiniteSet(SentTo(t)) /\ IsFiniteSet(SendersTo(t)) /\ IsFiniteSet(Requests)
        /\ IsFiniteSet(SentTo(t)') /\ IsFiniteSet(SendersTo(t)')
    BY Finite, FS_Subset, RequestsAssumption
  <1>2. Cardinality(SentTo(t)') + Cardinality(SendersTo(t)')
           <= Cardinality(SentTo(t)) + Cardinality(SendersTo(t))
    BY <1>1, SmallerSum
  <1>3. /\ Cardinality(SentTo(t)) \in Nat /\ Cardinality(SendersTo(t)) \in Nat
        /\ Cardinality(SentTo(t)') \in Nat /\ Cardinality(SendersTo(t)') \in Nat
        /\ Cardinality(Requests) \in Nat
    BY <1>1, FS_CardinalityType
  <1> QED BY <1>2, <1>3, LimitsAssumption DEF TargetBound

LEMMA IpShrinks ==
  ASSUME CodesTypeOK, CodesTypeOK', NEW a, IpBound(a),
         SentFrom(a)' \subseteq SentFrom(a), SendersFrom(a)' \subseteq SendersFrom(a)
  PROVE  IpBound(a)'
  <1>1. /\ IsFiniteSet(SentFrom(a)) /\ IsFiniteSet(SendersFrom(a)) /\ IsFiniteSet(Requests)
        /\ IsFiniteSet(SentFrom(a)') /\ IsFiniteSet(SendersFrom(a)')
    BY Finite, FS_Subset, RequestsAssumption
  <1>2. Cardinality(SentFrom(a)') + Cardinality(SendersFrom(a)')
           <= Cardinality(SentFrom(a)) + Cardinality(SendersFrom(a))
    BY <1>1, SmallerSum
  <1>3. /\ Cardinality(SentFrom(a)) \in Nat /\ Cardinality(SendersFrom(a)) \in Nat
        /\ Cardinality(SentFrom(a)') \in Nat /\ Cardinality(SendersFrom(a)') \in Nat
        /\ Cardinality(Requests) \in Nat
    BY <1>1, FS_CardinalityType
  <1> QED BY <1>2, <1>3, LimitsAssumption DEF IpBound

\* A call that passes a check adds itself to a sum whose first part is below
\* the limit.
LEMMA PassesCheck ==
  ASSUME NEW A, NEW B \in SUBSET Requests, NEW max \in Nat,
         IsFiniteSet(A), Cardinality(A) < max
  PROVE  Cardinality(A) + Cardinality(B) <= max - 1 + Cardinality(Requests)
  <1>1. Cardinality(B) <= Cardinality(Requests) /\ Cardinality(B) \in Nat
        /\ Cardinality(Requests) \in Nat
    BY RequestsAssumption, FS_Subset, FS_CardinalityType
  <1>2. Cardinality(A) \in Nat
    BY FS_CardinalityType
  <1> QED BY <1>1, <1>2

\* A step that makes no row and lets no call pass a check.
LEMMA QuietStep ==
  ASSUME CodesTypeOK, CodesTypeOK', TargetOverrunBounded, IpOverrunBounded,
         Len(rows') = Len(rows), hour' >= hour, day' >= day,
         \A i \in 1..Len(rows) : rows'[i].target = rows[i].target /\ rows'[i].ip = rows[i].ip,
         \A q \in Requests : vpc'[q] \in {"sdIp", "sdCreate"}
                               => vpc'[q] = vpc[q] /\ vreq'[q] = vreq[q]
  PROVE  TargetOverrunBounded' /\ IpOverrunBounded'
  <1>1. ASSUME NEW t \in Targets PROVE TargetBound(t)'
    <2>1. SentTo(t)' \subseteq SentTo(t)
      BY DEF SentTo, CodesTypeOK
    <2>2. SendersTo(t)' \subseteq SendersTo(t)
      BY DEF SendersTo
    <2>3. TargetBound(t)
      BY DEF TargetBound, TargetOverrunBounded
    <2> QED BY <2>1, <2>2, <2>3, TargetShrinks
  <1>2. ASSUME NEW a \in Ips PROVE IpBound(a)'
    <2>1. SentFrom(a)' \subseteq SentFrom(a)
      BY DEF SentFrom, CodesTypeOK
    <2>2. SendersFrom(a)' \subseteq SendersFrom(a)
      BY DEF SendersFrom
    <2>3. IpBound(a)
      BY DEF IpBound, IpOverrunBounded
    <2> QED BY <2>1, <2>2, <2>3, IpShrinks
  <1> QED BY <1>1, <1>2 DEF TargetBound, IpBound, TargetOverrunBounded, IpOverrunBounded

\* The same where one slot moves to a point past the sending of a row.
LEMMA QuietSlot ==
  ASSUME CodesTypeOK, CodesTypeOK', TargetOverrunBounded, IpOverrunBounded,
         UNCHANGED <<rows, hour, day>>, NEW r \in Requests, NEW point, NEW call,
         SetCall(r, point, call), point \notin {"sdIp", "sdCreate"}
  PROVE  TargetOverrunBounded' /\ IpOverrunBounded'
  <1>1. \A q \in Requests : vpc'[q] \in {"sdIp", "sdCreate"}
                               => vpc'[q] = vpc[q] /\ vreq'[q] = vreq[q]
    BY DEF CodesTypeOK, SetCall
  <1>2. hour' >= hour /\ day' >= day
    BY DEF CodesTypeOK
  <1> QED BY <1>1, <1>2, QuietStep

LEMMA TargetCheckBounds ==
  ASSUME CodesTypeOK, CodesTypeOK', TargetOverrunBounded, IpOverrunBounded,
         NEW r \in Requests, NEW t \in Targets, NEW a \in Ips, NEW type \in Types,
         SendChecksTarget(r, t, a, type)
  PROVE  TargetOverrunBounded' /\ IpOverrunBounded'
  <1> DEFINE call == [NoCall EXCEPT !.target = t, !.ip = a, !.type = type]
  <1>0. call.target = t /\ call.ip = a
    BY DEF NoCall
  <1>1. UNCHANGED <<rows, hour, day>> /\ vpc[r] = "idle"
    BY DEF SendChecksTarget, codeTableVars
  <1>2. CASE Result(r, "refused")
    BY <1>1, <1>2, QuietSlot DEF Result
  <1>3. CASE Cardinality(SentTo(t)) < MaxPerTarget /\ SetCall(r, "sdIp", call)
    <2> HIDE DEF call
    <2>1. /\ vpc' = [vpc EXCEPT ![r] = "sdIp"] /\ vreq' = [vreq EXCEPT ![r] = call]
          /\ vpc \in [Requests -> {"idle", "vfMark"} \cup SendPoints \cup Results]
          /\ vreq \in [Requests -> Call]
      BY <1>3 DEF SetCall, CodesTypeOK
    <2>2. ASSUME NEW u \in Targets PROVE TargetBound(u)'
      <3>1. SentTo(u)' = SentTo(u)
        BY <1>1 DEF SentTo
      <3>2. CASE u = t
        <4>1. SendersTo(t)' \in SUBSET Requests
          BY DEF SendersTo
        <4>2. IsFiniteSet(SentTo(t)) /\ MaxPerTarget \in Nat
          BY Finite, LimitsAssumption
        <4> QED BY <3>1, <3>2, <1>3, <4>1, <4>2, PassesCheck DEF TargetBound
      <3>3. CASE u # t
        <4>1. SendersTo(u)' \subseteq SendersTo(u)
          BY <3>3, <2>1, <1>0 DEF SendersTo
        <4>2. TargetBound(u)
          BY DEF TargetBound, TargetOverrunBounded
        <4> QED BY <3>1, <4>1, <4>2, TargetShrinks
      <3> QED BY <3>2, <3>3
    <2>3. ASSUME NEW u \in Ips PROVE IpBound(u)'
      <3>1. SentFrom(u)' \subseteq SentFrom(u)
        BY <1>1 DEF SentFrom
      <3>2. SendersFrom(u)' \subseteq SendersFrom(u)
        BY <2>1 DEF SendersFrom
      <3>3. IpBound(u)
        BY DEF IpBound, IpOverrunBounded
      <3> QED BY <3>1, <3>2, <3>3, IpShrinks
    <2> QED BY <2>2, <2>3 DEF TargetBound, IpBound, TargetOverrunBounded, IpOverrunBounded
  <1> QED BY <1>2, <1>3 DEF SendChecksTarget

LEMMA IpCheckBounds ==
  ASSUME CodesTypeOK, CodesTypeOK', TargetOverrunBounded, IpOverrunBounded,
         NEW r \in Requests, SendChecksIp(r)
  PROVE  TargetOverrunBounded' /\ IpOverrunBounded'
  <1>1. UNCHANGED <<rows, hour, day>> /\ vpc[r] = "sdIp"
    BY DEF SendChecksIp, codeTableVars
  <1>2. CASE Result(r, "refused")
    BY <1>1, <1>2, QuietSlot DEF Result
  <1>3. CASE Cardinality(SentFrom(vreq[r].ip)) < MaxPerIp /\ Await(r, "sdCreate")
    <2>1. /\ vpc' = [vpc EXCEPT ![r] = "sdCreate"] /\ vreq' = vreq
          /\ vpc \in [Requests -> {"idle", "vfMark"} \cup SendPoints \cup Results]
      BY <1>3 DEF SetCall, Await, CodesTypeOK
    <2>2. ASSUME NEW u \in Targets PROVE TargetBound(u)'
      <3>1. SentTo(u)' \subseteq SentTo(u)
        BY <1>1 DEF SentTo
      <3>2. SendersTo(u)' \subseteq SendersTo(u)
        BY <1>1, <2>1 DEF SendersTo
      <3>3. TargetBound(u)
        BY DEF TargetBound, TargetOverrunBounded
      <3> QED BY <3>1, <3>2, <3>3, TargetShrinks
    <2>3. ASSUME NEW u \in Ips PROVE IpBound(u)'
      <3>1. SentFrom(u)' = SentFrom(u)
        BY <1>1 DEF SentFrom
      <3>2. CASE u = vreq[r].ip
        <4>1. SendersFrom(u)' \in SUBSET Requests
          BY DEF SendersFrom
        <4>2. IsFiniteSet(SentFrom(u)) /\ MaxPerIp \in Nat
          BY Finite, LimitsAssumption
        <4> QED BY <3>1, <3>2, <1>3, <4>1, <4>2, PassesCheck DEF IpBound
      <3>3. CASE u # vreq[r].ip
        <4>1. SendersFrom(u)' \subseteq SendersFrom(u)
          BY <3>3, <2>1 DEF SendersFrom
        <4>2. IpBound(u)
          BY DEF IpBound, IpOverrunBounded
        <4> QED BY <3>1, <4>1, <4>2, IpShrinks
      <3> QED BY <3>2, <3>3
    <2> QED BY <2>2, <2>3 DEF TargetBound, IpBound, TargetOverrunBounded, IpOverrunBounded
  <1> QED BY <1>2, <1>3 DEF SendChecksIp
\* The call that makes a row leaves one sum's second part for its first.
LEMMA CreateBounds ==
  ASSUME CodesTypeOK, CodesTypeOK', TargetOverrunBounded, IpOverrunBounded,
         NEW r \in Requests, NEW code \in Codes, SendCreates(r, code)
  PROVE  TargetOverrunBounded' /\ IpOverrunBounded'
  <1> DEFINE n == Len(rows) + 1
             newRow == [target |-> vreq[r].target, ip |-> vreq[r].ip,
                        type |-> vreq[r].type, code |-> code, used |-> FALSE]
             call == [vreq[r] EXCEPT !.row = Len(rows) + 1]
  <1>1. /\ Len(rows) \in Nat /\ vpc[r] = "sdCreate" /\ hour' = hour /\ day' = day
        /\ rows' = Append(rows, newRow) /\ rows \in Seq(Row)
        /\ vpc' = [vpc EXCEPT ![r] = "sdDeliver"] /\ vreq' = [vreq EXCEPT ![r] = call]
        /\ vpc \in [Requests -> {"idle", "vfMark"} \cup SendPoints \cup Results]
        /\ vreq \in [Requests -> Call]
    BY DEF SendCreates, SetCall, CodesTypeOK
  <1>2. newRow.target = vreq[r].target /\ newRow.ip = vreq[r].ip
    OBVIOUS
  <1> HIDE DEF newRow, call
  <1>3. /\ Len(rows') = n /\ rows'[n] = newRow
        /\ \A i \in 1..Len(rows) : rows'[i] = rows[i]
    BY <1>1
  <1>4. ASSUME NEW t \in Targets PROVE TargetBound(t)'
    <2>1. TargetBound(t)
      BY DEF TargetBound, TargetOverrunBounded
    <2>2. SendersTo(t)' = SendersTo(t) \ {r}
      BY <1>1 DEF SendersTo
    <2>3. CASE t = vreq[r].target
      <3>1. SentTo(t)' \subseteq SentTo(t) \cup {n} /\ r \in SendersTo(t)
        BY <1>1, <1>3, <2>3 DEF SentTo, SendersTo
      <3>2. IsFiniteSet(SentTo(t)) /\ IsFiniteSet(SendersTo(t)) /\ IsFiniteSet(Requests)
        BY Finite, RequestsAssumption
      <3>3. Cardinality(SentTo(t) \cup {n}) + Cardinality(SendersTo(t) \ {r})
              <= Cardinality(SentTo(t)) + Cardinality(SendersTo(t))
        BY <3>1, <3>2, MovedSum
      <3>4. /\ IsFiniteSet(SentTo(t) \cup {n}) /\ IsFiniteSet(SendersTo(t) \ {r})
        BY <3>2, FS_AddElement, FS_RemoveElement
      <3>5. /\ Cardinality(SentTo(t)') <= Cardinality(SentTo(t) \cup {n})
            /\ IsFiniteSet(SentTo(t)')
        BY <3>1, <3>4, FS_Subset
      <3>6. /\ Cardinality(SentTo(t)') \in Nat /\ Cardinality(SentTo(t) \cup {n}) \in Nat
            /\ Cardinality(SentTo(t)) \in Nat /\ Cardinality(SendersTo(t)) \in Nat
            /\ Cardinality(SendersTo(t) \ {r}) \in Nat /\ Cardinality(Requests) \in Nat
        BY <3>2, <3>4, <3>5, FS_CardinalityType
      <3>7. Cardinality(SendersTo(t)') = Cardinality(SendersTo(t) \ {r})
        BY <2>2
      <3>8. Cardinality(SentTo(t)) + Cardinality(SendersTo(t))
              <= MaxPerTarget - 1 + Cardinality(Requests)
        BY <2>1 DEF TargetBound
      <3>9. Cardinality(SentTo(t)') + Cardinality(SendersTo(t)')
              <= MaxPerTarget - 1 + Cardinality(Requests)
        BY <3>3, <3>5, <3>6, <3>7, <3>8, LimitsAssumption
      <3> QED BY <3>9 DEF TargetBound
    <2>4. CASE t # vreq[r].target
      <3>1. SentTo(t)' \subseteq SentTo(t)
        BY <1>1, <1>2, <1>3, <2>4 DEF SentTo
      <3> QED BY <2>1, <2>2, <3>1, TargetShrinks
    <2> QED BY <2>3, <2>4
  <1>5. ASSUME NEW a \in Ips PROVE IpBound(a)'
    <2>1. IpBound(a)
      BY DEF IpBound, IpOverrunBounded
    <2>2. SendersFrom(a)' = SendersFrom(a) \ {r}
      BY <1>1 DEF SendersFrom
    <2>3. CASE a = vreq[r].ip
      <3>1. SentFrom(a)' \subseteq SentFrom(a) \cup {n} /\ r \in SendersFrom(a)
        BY <1>1, <1>3, <2>3 DEF SentFrom, SendersFrom
      <3>2. IsFiniteSet(SentFrom(a)) /\ IsFiniteSet(SendersFrom(a)) /\ IsFiniteSet(Requests)
        BY Finite, RequestsAssumption
      <3>3. Cardinality(SentFrom(a) \cup {n}) + Cardinality(SendersFrom(a) \ {r})
              <= Cardinality(SentFrom(a)) + Cardinality(SendersFrom(a))
        BY <3>1, <3>2, MovedSum
      <3>4. /\ IsFiniteSet(SentFrom(a) \cup {n}) /\ IsFiniteSet(SendersFrom(a) \ {r})
        BY <3>2, FS_AddElement, FS_RemoveElement
      <3>5. /\ Cardinality(SentFrom(a)') <= Cardinality(SentFrom(a) \cup {n})
            /\ IsFiniteSet(SentFrom(a)')
        BY <3>1, <3>4, FS_Subset
      <3>6. /\ Cardinality(SentFrom(a)') \in Nat /\ Cardinality(SentFrom(a) \cup {n}) \in Nat
            /\ Cardinality(SentFrom(a)) \in Nat /\ Cardinality(SendersFrom(a)) \in Nat
            /\ Cardinality(SendersFrom(a) \ {r}) \in Nat /\ Cardinality(Requests) \in Nat
        BY <3>2, <3>4, <3>5, FS_CardinalityType
      <3>7. Cardinality(SendersFrom(a)') = Cardinality(SendersFrom(a) \ {r})
        BY <2>2
      <3>8. Cardinality(SentFrom(a)) + Cardinality(SendersFrom(a))
              <= MaxPerIp - 1 + Cardinality(Requests)
        BY <2>1 DEF IpBound
      <3>9. Cardinality(SentFrom(a)') + Cardinality(SendersFrom(a)')
              <= MaxPerIp - 1 + Cardinality(Requests)
        BY <3>3, <3>5, <3>6, <3>7, <3>8, LimitsAssumption
      <3> QED BY <3>9 DEF IpBound
    <2>4. CASE a # vreq[r].ip
      <3>1. SentFrom(a)' \subseteq SentFrom(a)
        BY <1>1, <1>2, <1>3, <2>4 DEF SentFrom
      <3> QED BY <2>1, <2>2, <3>1, IpShrinks
    <2> QED BY <2>3, <2>4
  <1> QED BY <1>4, <1>5 DEF TargetBound, IpBound, TargetOverrunBounded, IpOverrunBounded

LEMMA MarkBounds ==
  ASSUME CodesTypeOK, CodesTypeOK', TargetOverrunBounded, IpOverrunBounded,
         NEW r \in Requests, VerifyMarks(r)
  PROVE  TargetOverrunBounded' /\ IpOverrunBounded'
  <1>1. Len(rows') = Len(rows)
    BY MarkTypeOK
  <1>2. /\ hour' >= hour /\ day' >= day
    BY DEF VerifyMarks, CodesTypeOK
  <1>3. \A i \in 1..Len(rows) : rows'[i].target = rows[i].target /\ rows'[i].ip = rows[i].ip
    <2> DEFINE k == vreq[r].row
               x == rows[k]
               y == [x EXCEPT !.used = TRUE]
    <2>1. rows' = [rows EXCEPT ![k] = y] /\ rows \in Seq(Row) /\ k \in 1..Len(rows)
      BY DEF VerifyMarks, CodesTypeOK
    <2>3. x \in Row
      BY <2>1, ElementOfSeq
    <2> HIDE DEF x
    <2>4. y.target = x.target /\ y.ip = x.ip
      BY <2>3 DEF Row
    <2> HIDE DEF y
    <2>2. ASSUME NEW i \in 1..Len(rows)
          PROVE  rows'[i].target = rows[i].target /\ rows'[i].ip = rows[i].ip
      <3>1. CASE i = k
        BY <3>1, <2>1, <2>4 DEF x
      <3>2. CASE i # k
        BY <3>2, <2>1
      <3> QED BY <3>1, <3>2
    <2> QED BY <2>2
  <1>4. \A q \in Requests : vpc'[q] \in {"sdIp", "sdCreate"}
                               => vpc'[q] = vpc[q] /\ vreq'[q] = vreq[q]
    BY DEF CodesTypeOK, VerifyMarks, Result, SetCall
  <1> QED BY <1>1, <1>2, <1>3, <1>4, QuietStep

LEMMA StepBounds ==
  CodesTypeOK /\ CodesTypeOK' /\ TargetOverrunBounded /\ IpOverrunBounded
    /\ [CodesNext]_codeVars => TargetOverrunBounded' /\ IpOverrunBounded'
  <1> SUFFICES ASSUME CodesTypeOK, CodesTypeOK', TargetOverrunBounded, IpOverrunBounded,
                      [CodesNext]_codeVars
               PROVE  TargetOverrunBounded' /\ IpOverrunBounded'
    OBVIOUS
  <1> USE DEF codeTableVars
  <1>1. ASSUME NEW r \in Requests, NEW t \in Targets, NEW type \in Types, NEW code,
               VerifyFinds(r, t, type, code)
        PROVE  TargetOverrunBounded' /\ IpOverrunBounded'
    <2>1. \/ Result(r, "invalid")
          \/ \E i : SetCall(r, "vfMark", [NoCall EXCEPT !.target = t, !.type = type, !.row = i])
      BY <1>1 DEF VerifyFinds
    <2>2. UNCHANGED <<rows, hour, day>>
      BY <1>1 DEF VerifyFinds
    <2>3. CASE Result(r, "invalid")
      BY <2>2, <2>3, QuietSlot DEF Result
    <2>4. CASE \E i : SetCall(r, "vfMark", [NoCall EXCEPT !.target = t, !.type = type, !.row = i])
      <3>1. PICK i : SetCall(r, "vfMark", [NoCall EXCEPT !.target = t, !.type = type, !.row = i])
        BY <2>4
      <3> DEFINE call == [NoCall EXCEPT !.target = t, !.type = type, !.row = i]
      <3>2. SetCall(r, "vfMark", call)
        BY <3>1
      <3> HIDE DEF call
      <3> QED BY <3>2, <2>2, QuietSlot
    <2> QED BY <2>1, <2>3, <2>4
  <1>2. ASSUME NEW r \in Requests, SendDelivers(r)
        PROVE  TargetOverrunBounded' /\ IpOverrunBounded'
    BY <1>2, QuietSlot DEF SendDelivers, Await
  <1>3. ASSUME NEW r \in Requests, SendCounts(r)
        PROVE  TargetOverrunBounded' /\ IpOverrunBounded'
    BY <1>3, QuietSlot DEF SendCounts, Result
  <1>4. ASSUME NEW r \in Requests, CallFails(r)
        PROVE  TargetOverrunBounded' /\ IpOverrunBounded'
    BY <1>4, QuietSlot DEF CallFails, Result
  <1>5. ASSUME NEW r \in Requests, NEW result \in Results, Take(r, result)
        PROVE  TargetOverrunBounded' /\ IpOverrunBounded'
    <2>1. SetCall(r, "idle", vreq[r]) /\ UNCHANGED <<rows, hour, day>>
      BY <1>5 DEF Take, SetCall, CodesTypeOK
    <2> QED BY <2>1, QuietSlot
  <1>6. CASE CodesCrash \/ TimePasses \/ UNCHANGED codeVars
    <2>1. /\ Len(rows') = Len(rows) /\ hour' >= hour /\ day' >= day
          /\ \A i \in 1..Len(rows) :
                rows'[i].target = rows[i].target /\ rows'[i].ip = rows[i].ip
      BY <1>6 DEF CodesCrash, LoseCalls, TimePasses, codeVars, CodesTypeOK
    <2>2. \A q \in Requests : vpc'[q] \in {"sdIp", "sdCreate"}
                               => vpc'[q] = vpc[q] /\ vreq'[q] = vreq[q]
      BY <1>6 DEF CodesCrash, LoseCalls, TimePasses, codeVars, CodesTypeOK
    <2> QED BY <2>1, <2>2, QuietStep
  <1>7. ASSUME NEW r \in Requests, CallArrives(r)
        PROVE  TargetOverrunBounded' /\ IpOverrunBounded'
    BY <1>1, <1>7, TargetCheckBounds DEF CallArrives
  <1>8. ASSUME NEW r \in Requests, CallStep(r)
        PROVE  TargetOverrunBounded' /\ IpOverrunBounded'
    BY <1>2, <1>3, <1>8, IpCheckBounds, CreateBounds, MarkBounds DEF CallStep
  <1> QED BY <1>4, <1>5, <1>6, <1>7, <1>8 DEF CodesNext
-----------------------------------------------------------------------------
(* The acceptances of a row *)

AcceptBound(i) ==
    /\ ~rows[i].used => accepts[i] = 0
    /\ accepts[i] + Cardinality(Accepting(i)) <= Cardinality(Requests)

LEMMA AcceptBoundIs ==
  (UnusedUnaccepted /\ OverlappingAcceptsOnly) <=> \A i \in 1..Len(rows) : AcceptBound(i)
  BY DEF UnusedUnaccepted, OverlappingAcceptsOnly, AcceptBound

\* A row whose columns stay and that no further call found.
LEMMA AcceptsShrink ==
  ASSUME CodesTypeOK, CodesTypeOK', NEW i \in 1..Len(rows), AcceptBound(i),
         rows'[i] = rows[i], accepts'[i] = accepts[i], accepts[i] \in Nat,
         Accepting(i)' \subseteq Accepting(i)
  PROVE  AcceptBound(i)'
  <1>1. IsFiniteSet(Accepting(i)) /\ IsFiniteSet(Accepting(i)')
    BY Finite, FS_Subset
  <1>2. /\ Cardinality(Accepting(i)') <= Cardinality(Accepting(i))
        /\ Cardinality(Accepting(i)') \in Nat /\ Cardinality(Accepting(i)) \in Nat
        /\ Cardinality(Requests) \in Nat
    BY <1>1, FS_Subset, FS_CardinalityType, RequestsAssumption
  <1> QED BY <1>2 DEF AcceptBound

\* A step that leaves the rows and lets no call find one.
LEMMA QuietAccepts ==
  ASSUME CodesTypeOK, CodesTypeOK', UnusedUnaccepted, OverlappingAcceptsOnly,
         UNCHANGED <<rows, accepts>>,
         \A q \in Requests : vpc'[q] = "vfMark" => vpc[q] = "vfMark" /\ vreq'[q] = vreq[q]
  PROVE  UnusedUnaccepted' /\ OverlappingAcceptsOnly'
  <1>1. ASSUME NEW i \in 1..Len(rows) PROVE AcceptBound(i)'
    <2>1. Accepting(i)' \subseteq Accepting(i)
      BY DEF Accepting
    <2>2. AcceptBound(i) /\ accepts[i] \in Nat
      BY AcceptBoundIs DEF CodesTypeOK
    <2> QED BY <2>1, <2>2, AcceptsShrink
  <1> QED BY <1>1 DEF AcceptBound, UnusedUnaccepted, OverlappingAcceptsOnly

LEMMA QuietSlotAccepts ==
  ASSUME CodesTypeOK, CodesTypeOK', UnusedUnaccepted, OverlappingAcceptsOnly,
         UNCHANGED <<rows, accepts>>, NEW r \in Requests, NEW point, NEW call,
         SetCall(r, point, call), point # "vfMark"
  PROVE  UnusedUnaccepted' /\ OverlappingAcceptsOnly'
  <1>1. \A q \in Requests : vpc'[q] = "vfMark" => vpc[q] = "vfMark" /\ vreq'[q] = vreq[q]
    BY DEF CodesTypeOK, SetCall
  <1> QED BY <1>1, QuietAccepts

\* A call finds an unused row, so nobody has accepted it yet.
LEMMA FindAccepts ==
  ASSUME CodesTypeOK, CodesTypeOK', UnusedUnaccepted, OverlappingAcceptsOnly,
         NEW r \in Requests, NEW t \in Targets, NEW type \in Types, NEW code,
         VerifyFinds(r, t, type, code)
  PROVE  UnusedUnaccepted' /\ OverlappingAcceptsOnly'
  <1>1. UNCHANGED <<rows, accepts>>
    BY DEF VerifyFinds, codeTableVars
  <1>2. CASE Result(r, "invalid")
    BY <1>1, <1>2, QuietSlotAccepts DEF Result
  <1>3. ASSUME NEW i \in Valid(t, type, code),
               SetCall(r, "vfMark", [NoCall EXCEPT !.target = t, !.type = type, !.row = i])
        PROVE  UnusedUnaccepted' /\ OverlappingAcceptsOnly'
    <2> DEFINE call == [NoCall EXCEPT !.target = t, !.type = type, !.row = i]
    <2>1. call.row = i /\ SetCall(r, "vfMark", call)
      BY <1>3 DEF NoCall
    <2> HIDE DEF call
    <2>2. i \in 1..Len(rows) /\ ~rows[i].used
      BY DEF Valid
    <2>3. ASSUME NEW k \in 1..Len(rows) PROVE AcceptBound(k)'
      <3>1. AcceptBound(k) /\ accepts[k] \in Nat
        BY AcceptBoundIs DEF CodesTypeOK
      <3>2. CASE k = i
        <4>1. accepts'[k] = 0
          BY <1>1, <2>2, <3>1, <3>2 DEF AcceptBound
        <4>2. /\ Cardinality(Accepting(k)') <= Cardinality(Requests)
              /\ Cardinality(Accepting(k)') \in Nat
          BY RequestsAssumption, FS_Subset, FS_CardinalityType DEF Accepting
        <4> QED BY <4>1, <4>2 DEF AcceptBound
      <3>3. CASE k # i
        <4>1. Accepting(k)' \subseteq Accepting(k)
          BY <2>1, <3>3 DEF Accepting, SetCall, CodesTypeOK
        <4> QED BY <1>1, <3>1, <4>1, AcceptsShrink
      <3> QED BY <3>2, <3>3
    <2> QED BY <1>1, <2>3 DEF AcceptBound, UnusedUnaccepted, OverlappingAcceptsOnly
  <1> QED BY <1>2, <1>3 DEF VerifyFinds

\* A call that accepts its row leaves the second part of the sum for the first.
LEMMA MarkAccepts ==
  ASSUME CodesTypeOK, CodesTypeOK', UnusedUnaccepted, OverlappingAcceptsOnly,
         NEW r \in Requests, VerifyMarks(r)
  PROVE  UnusedUnaccepted' /\ OverlappingAcceptsOnly'
  <1> DEFINE i == vreq[r].row
             x == [rows[i] EXCEPT !.used = TRUE]
  <1>1. /\ rows' = [rows EXCEPT ![i] = x] /\ accepts' = [accepts EXCEPT ![i] = @ + 1]
        /\ vpc[r] = "vfMark" /\ SetCall(r, "valid", NoCall)
        /\ rows \in Seq(Row) /\ accepts \in Seq(Nat) /\ Len(accepts) = Len(rows)
        /\ i \in 1..Len(rows) /\ Len(rows) \in Nat
    BY DEF VerifyMarks, Result, CodesTypeOK
  <1>2. rows[i] \in Row
    BY <1>1, ElementOfSeq
  <1>3. x.used = TRUE
    <2> DEFINE y == rows[i]
    <2>1. y \in Row
      BY <1>2
    <2> HIDE DEF y
    <2>2. [y EXCEPT !.used = TRUE].used = TRUE
      BY <2>1 DEF Row
    <2> QED BY <2>2 DEF y
  <1> HIDE DEF x
  <1>4. /\ Len(rows') = Len(rows) /\ rows'[i] = x /\ accepts'[i] = accepts[i] + 1
        /\ \A k \in 1..Len(rows) : k # i => rows'[k] = rows[k] /\ accepts'[k] = accepts[k]
    BY <1>1
  <1>5. ASSUME NEW k \in 1..Len(rows) PROVE AcceptBound(k)'
    <2>1. AcceptBound(k) /\ accepts[k] \in Nat
      BY AcceptBoundIs DEF CodesTypeOK
    <2>2. CASE k = i
      <3>1. Accepting(k)' = Accepting(k) \ {r} /\ r \in Accepting(k)
        BY <1>1, <2>2 DEF Accepting, SetCall, CodesTypeOK
      <3>2. IsFiniteSet(Accepting(k))
        BY Finite
      <3>3. /\ Cardinality(Accepting(k) \ {r}) = Cardinality(Accepting(k)) - 1
            /\ Cardinality(Accepting(k)) \in Nat
        BY <3>1, <3>2, FS_RemoveElement, FS_CardinalityType
      <3>4. Cardinality(Accepting(k)') = Cardinality(Accepting(k)) - 1
        BY <3>1, <3>3
      <3>5. Cardinality(Requests) \in Nat
        BY RequestsAssumption, FS_CardinalityType
      <3>6. accepts[k] + Cardinality(Accepting(k)) <= Cardinality(Requests)
        BY <2>1 DEF AcceptBound
      <3>7. accepts'[k] + Cardinality(Accepting(k)') <= Cardinality(Requests)
        BY <1>4, <2>1, <2>2, <3>3, <3>4, <3>5, <3>6
      <3>8. rows'[k].used = TRUE
        BY <1>3, <1>4, <2>2
      <3> QED BY <3>7, <3>8 DEF AcceptBound
    <2>3. CASE k # i
      <3>1. Accepting(k)' \subseteq Accepting(k)
        BY <1>1 DEF Accepting, SetCall, CodesTypeOK
      <3> QED BY <1>4, <2>1, <2>3, <3>1, AcceptsShrink
    <2> QED BY <2>2, <2>3
  <1> QED BY <1>4, <1>5 DEF AcceptBound, UnusedUnaccepted, OverlappingAcceptsOnly

\* A new row has been accepted by nobody and found by nobody.
LEMMA CreateAccepts ==
  ASSUME CodesTypeOK, CodesTypeOK', UnusedUnaccepted, OverlappingAcceptsOnly,
         NEW r \in Requests, NEW code \in Codes, SendCreates(r, code)
  PROVE  UnusedUnaccepted' /\ OverlappingAcceptsOnly'
  <1> DEFINE n == Len(rows) + 1
             newRow == [target |-> vreq[r].target, ip |-> vreq[r].ip,
                        type |-> vreq[r].type, code |-> code, used |-> FALSE]
             call == [vreq[r] EXCEPT !.row = Len(rows) + 1]
  <1>1. /\ rows' = Append(rows, newRow) /\ accepts' = Append(accepts, 0)
        /\ SetCall(r, "sdDeliver", call)
        /\ rows \in Seq(Row) /\ accepts \in Seq(Nat) /\ Len(accepts) = Len(rows)
        /\ Len(rows) \in Nat
    BY DEF SendCreates, CodesTypeOK
  <1> HIDE DEF newRow, call
  <1>2. /\ Len(rows') = n /\ accepts'[n] = 0
        /\ \A k \in 1..Len(rows) : rows'[k] = rows[k] /\ accepts'[k] = accepts[k]
    BY <1>1
  <1>3. \A k : Accepting(k)' \subseteq Accepting(k)
    BY <1>1 DEF Accepting, SetCall, CodesTypeOK
  <1>4. ASSUME NEW k \in 1..Len(rows) PROVE AcceptBound(k)'
    <2>1. AcceptBound(k) /\ accepts[k] \in Nat
      BY AcceptBoundIs DEF CodesTypeOK
    <2> QED BY <1>2, <1>3, <2>1, AcceptsShrink
  <1>5. ASSUME NEW k, k = n PROVE AcceptBound(k)'
    <2>1. Accepting(k) = {}
      BY <1>1, <1>5 DEF Accepting, CodesTypeOK
    <2>2. Accepting(k)' = {}
      BY <2>1, <1>3
    <2>3. Cardinality(Accepting(k)') = 0
      BY <2>2, FS_EmptySet
    <2>4. Cardinality(Requests) \in Nat
      BY RequestsAssumption, FS_CardinalityType
    <2>5. accepts'[k] = 0
      BY <1>2, <1>5
    <2> QED BY <2>3, <2>4, <2>5 DEF AcceptBound
  <1>6. ASSUME NEW k \in 1..Len(rows') PROVE AcceptBound(k)'
    <2>1. k \in 1..Len(rows) \/ k = n
      BY <1>1, <1>2, <1>6
    <2> QED BY <2>1, <1>4, <1>5
  <1> QED BY <1>6 DEF AcceptBound, UnusedUnaccepted, OverlappingAcceptsOnly

LEMMA StepAccepts ==
  CodesTypeOK /\ CodesTypeOK' /\ UnusedUnaccepted /\ OverlappingAcceptsOnly
    /\ [CodesNext]_codeVars => UnusedUnaccepted' /\ OverlappingAcceptsOnly'
  <1> SUFFICES ASSUME CodesTypeOK, CodesTypeOK', UnusedUnaccepted, OverlappingAcceptsOnly,
                      [CodesNext]_codeVars
               PROVE  UnusedUnaccepted' /\ OverlappingAcceptsOnly'
    OBVIOUS
  <1> USE DEF codeTableVars
  <1>1. ASSUME NEW r \in Requests, NEW t \in Targets, NEW a \in Ips, NEW type \in Types,
               SendChecksTarget(r, t, a, type)
        PROVE  UnusedUnaccepted' /\ OverlappingAcceptsOnly'
    <2> DEFINE call == [NoCall EXCEPT !.target = t, !.ip = a, !.type = type]
    <2>1. /\ SetCall(r, "sdIp", call) \/ SetCall(r, "refused", NoCall)
          /\ UNCHANGED <<rows, accepts>>
      BY <1>1 DEF SendChecksTarget, Result
    <2> HIDE DEF call
    <2> QED BY <2>1, QuietSlotAccepts
  <1>2. ASSUME NEW r \in Requests,
               SendChecksIp(r) \/ SendDelivers(r) \/ SendCounts(r) \/ CallFails(r)
        PROVE  UnusedUnaccepted' /\ OverlappingAcceptsOnly'
    <2>1. /\ UNCHANGED <<rows, accepts>>
          /\ \E point \in {"sdCreate", "refused", "sdLimit", "sent", "error"},
                call \in {vreq[r], NoCall} : SetCall(r, point, call)
      BY <1>2 DEF SendChecksIp, SendDelivers, SendCounts, CallFails, Await, Result
    <2> QED BY <2>1, QuietSlotAccepts
  <1>3. ASSUME NEW r \in Requests, NEW result \in Results, Take(r, result)
        PROVE  UnusedUnaccepted' /\ OverlappingAcceptsOnly'
    <2>1. SetCall(r, "idle", vreq[r]) /\ UNCHANGED <<rows, accepts>>
      BY <1>3 DEF Take, SetCall, CodesTypeOK
    <2> QED BY <2>1, QuietSlotAccepts
  <1>4. CASE CodesCrash \/ TimePasses \/ UNCHANGED codeVars
    <2>1. UNCHANGED <<rows, accepts>>
      BY <1>4 DEF CodesCrash, LoseCalls, TimePasses, codeVars
    <2>2. \A q \in Requests : vpc'[q] = "vfMark" => vpc[q] = "vfMark" /\ vreq'[q] = vreq[q]
      BY <1>4 DEF CodesCrash, LoseCalls, TimePasses, codeVars
    <2> QED BY <2>1, <2>2, QuietAccepts
  <1>5. ASSUME NEW r \in Requests, CallArrives(r)
        PROVE  UnusedUnaccepted' /\ OverlappingAcceptsOnly'
    BY <1>1, <1>5, FindAccepts DEF CallArrives
  <1>6. ASSUME NEW r \in Requests, CallStep(r)
        PROVE  UnusedUnaccepted' /\ OverlappingAcceptsOnly'
    BY <1>2, <1>6, CreateAccepts, MarkAccepts DEF CallStep
  <1> QED BY <1>2, <1>3, <1>4, <1>5, <1>6 DEF CodesNext

-----------------------------------------------------------------------------
(* The theorems *)

LEMMA InitInv == CodesInit => CodesInv
  <1> SUFFICES ASSUME CodesInit PROVE CodesInv OBVIOUS
  <1>1. CodesTypeOK
    BY InitTypeOK
  <1>2. Len(rows) = 0 /\ \A r \in Requests : vpc[r] = "idle"
    BY DEF CodesInit
  <1>7. /\ \A t : SentTo(t) = {} /\ SendersTo(t) = {}
        /\ \A a : SentFrom(a) = {} /\ SendersFrom(a) = {}
    BY <1>2 DEF SentTo, SentFrom, SendersTo, SendersFrom
  <1>3. /\ \A t : Cardinality(SentTo(t)) = 0 /\ Cardinality(SendersTo(t)) = 0
        /\ \A a : Cardinality(SentFrom(a)) = 0 /\ Cardinality(SendersFrom(a)) = 0
    BY <1>7, FS_EmptySet
  <1>4. Cardinality(Requests) \in Nat
    BY RequestsAssumption, FS_CardinalityType
  <1>5. TargetOverrunBounded /\ IpOverrunBounded
    BY <1>3, <1>4, LimitsAssumption DEF TargetOverrunBounded, IpOverrunBounded
  <1>6. UnusedUnaccepted /\ OverlappingAcceptsOnly
    BY <1>2 DEF UnusedUnaccepted, OverlappingAcceptsOnly
  <1> QED BY <1>1, <1>5, <1>6 DEF CodesInv

LEMMA StepInv == CodesInv /\ [CodesNext]_codeVars => CodesInv'
  BY StepTypeOK, StepBounds, StepAccepts DEF CodesInv

\* CodesInv holds in every reachable state of VerificationService.
THEOREM InvariantHolds == CodesSpec => []CodesInv
  BY InitInv, StepInv, PTL DEF CodesSpec

\* The table, the cuts of time and the calls in flight keep their types;
\* a call that is about to deliver or to mark has a row to do it with.
THEOREM CodesTypeSafety == CodesSpec => []CodesTypeOK
  <1>1. CodesInv => CodesTypeOK
    BY DEF CodesInv
  <1> QED BY <1>1, InvariantHolds, PTL

\* However many sends interleave between checkSendLimit's count and the
\* row, a target is sent at most limit - 1 + (calls in flight) codes in an
\* hour, and so is an address in a day.
THEOREM SendLimitsOverrunBounded ==
    CodesSpec => [](TargetOverrunBounded /\ IpOverrunBounded)
  <1>1. CodesInv => TargetOverrunBounded /\ IpOverrunBounded
    BY DEF CodesInv
  <1> QED BY <1>1, InvariantHolds, PTL

\* A code that verifyCode accepts more than once is accepted only by calls
\* that were in flight together.
THEOREM AcceptancesOverlap == CodesSpec => []OverlappingAcceptsOnly
  <1>1. CodesInv => OverlappingAcceptsOnly
    BY DEF CodesInv
  <1> QED BY <1>1, InvariantHolds, PTL

\* The same of one address and a day: the count by address is taken second,
\* so one await lies between it and the row.
THEOREM IpLimitOverrunBounded == CodesSpec => []IpOverrunBounded
  <1>1. CodesInv => IpOverrunBounded
    BY DEF CodesInv
  <1> QED BY <1>1, InvariantHolds, PTL

-----------------------------------------------------------------------------
(* The implementation of OneTimeCodes *)

\* The values that the refinement gives the variables of OneTimeCodes.
PurposeOf(i) == [target |-> rows[i].target, type |-> rows[i].type]
MappedIssued == [i \in 1..Len(rows) |-> PurposeOf(i)]
MappedOpen == {i \in 1..Len(rows) : i > expired /\ ~rows[i].used}
MappedClaim == [r \in Requests |-> IF vpc[r] = "vfMark" THEN vreq[r].row ELSE 0]
mapped == <<MappedIssued, MappedOpen, MappedClaim, accepts>>

LEMMA MappedIs == UNCHANGED mapped => UNCHANGED OneTime!codesVars
  BY DEF OneTime!codesVars, mapped, MappedIssued, MappedOpen, MappedClaim, PurposeOf

\* The actions of OneTimeCodes under the refinement.
LEMMA MappedActions ==
  /\ \A p : OneTime!Issue(p) <=>
        /\ MappedIssued' = Append(MappedIssued, p)
        /\ MappedOpen' = MappedOpen \cup {Len(MappedIssued) + 1}
        /\ accepts' = Append(accepts, 0)
        /\ MappedClaim' = MappedClaim
  /\ \A r, i : OneTime!Claim(r, i) <=>
        /\ MappedClaim[r] = 0 /\ i \in MappedOpen
        /\ MappedClaim' = [MappedClaim EXCEPT ![r] = i]
        /\ UNCHANGED <<MappedIssued, MappedOpen, accepts>>
  /\ \A r : OneTime!Accept(r) <=>
        /\ MappedClaim[r] # 0
        /\ MappedOpen' = MappedOpen \ {MappedClaim[r]}
        /\ accepts' = [accepts EXCEPT ![MappedClaim[r]] = @ + 1]
        /\ MappedClaim' = [MappedClaim EXCEPT ![r] = 0]
        /\ MappedIssued' = MappedIssued
  /\ \A S : OneTime!GiveUp(S) <=>
        /\ MappedClaim' = [r \in Requests |-> IF r \in S THEN 0 ELSE MappedClaim[r]]
        /\ UNCHANGED <<MappedIssued, MappedOpen, accepts>>
  /\ \A i : OneTime!Close(i) <=>
        /\ MappedOpen' = MappedOpen \ {i}
        /\ UNCHANGED <<MappedIssued, MappedClaim, accepts>>
  <1> USE DEF MappedIssued, MappedOpen, MappedClaim, PurposeOf
  <1>1. \A p : OneTime!Issue(p) <=>
        /\ MappedIssued' = Append(MappedIssued, p)
        /\ MappedOpen' = MappedOpen \cup {Len(MappedIssued) + 1}
        /\ accepts' = Append(accepts, 0)
        /\ MappedClaim' = MappedClaim
    BY DEF OneTime!Issue
  <1>2. \A r, i : OneTime!Claim(r, i) <=>
        /\ MappedClaim[r] = 0 /\ i \in MappedOpen
        /\ MappedClaim' = [MappedClaim EXCEPT ![r] = i]
        /\ UNCHANGED <<MappedIssued, MappedOpen, accepts>>
    BY DEF OneTime!Claim
  <1>3. \A r : OneTime!Accept(r) <=>
        /\ MappedClaim[r] # 0
        /\ MappedOpen' = MappedOpen \ {MappedClaim[r]}
        /\ accepts' = [accepts EXCEPT ![MappedClaim[r]] = @ + 1]
        /\ MappedClaim' = [MappedClaim EXCEPT ![r] = 0]
        /\ MappedIssued' = MappedIssued
    BY DEF OneTime!Accept
  <1>4. \A S : OneTime!GiveUp(S) <=>
        /\ MappedClaim' = [r \in Requests |-> IF r \in S THEN 0 ELSE MappedClaim[r]]
        /\ UNCHANGED <<MappedIssued, MappedOpen, accepts>>
    BY DEF OneTime!GiveUp
  <1>5. \A i : OneTime!Close(i) <=>
        /\ MappedOpen' = MappedOpen \ {i}
        /\ UNCHANGED <<MappedIssued, MappedClaim, accepts>>
    BY DEF OneTime!Close
  <1> QED BY <1>1, <1>2, <1>3, <1>4, <1>5

LEMMA MappedInit == CodesInit => OneTime!OneTimeInit
  <1> SUFFICES ASSUME CodesInit PROVE OneTime!OneTimeInit OBVIOUS
  <1>1. rows = << >> /\ Len(rows) = 0 /\ 1..Len(rows) = {} /\ accepts = << >>
    BY DEF CodesInit
  <1>2. [i \in 1..Len(rows) |-> PurposeOf(i)] = << >>
    BY <1>1
  <1>3. {i \in 1..Len(rows) : i > expired /\ ~rows[i].used} = {}
    BY <1>1
  <1>4. [r \in Requests |-> IF vpc[r] = "vfMark" THEN vreq[r].row ELSE 0]
          = [r \in Requests |-> 0]
    BY DEF CodesInit
  <1> QED BY <1>1, <1>2, <1>3, <1>4 DEF OneTime!OneTimeInit, PurposeOf

\* The table stays, and no call finds a row: at most a call that had one
\* gives up.
LEMMA QuietIsStep ==
  ASSUME CodesTypeOK, UNCHANGED <<rows, expired, accepts>>,
         \A q \in Requests : vpc'[q] = "vfMark" => vpc[q] = "vfMark" /\ vreq'[q] = vreq[q]
  PROVE  OneTime!OneTimeNext
  <1>1. PICK S \in SUBSET Requests : S = {q \in Requests : vpc'[q] # "vfMark"}
    OBVIOUS
  <1>2. MappedClaim' = [r \in Requests |-> IF r \in S THEN 0 ELSE MappedClaim[r]]
    BY <1>1 DEF MappedClaim
  <1>3. UNCHANGED <<MappedIssued, MappedOpen, accepts>>
    BY DEF MappedIssued, MappedOpen, PurposeOf
  <1>4. OneTime!GiveUp(S)
    BY <1>2, <1>3, MappedActions
  <1> QED BY <1>4 DEF OneTime!OneTimeNext

LEMMA QuietSlotIsStep ==
  ASSUME CodesTypeOK, UNCHANGED <<rows, expired, accepts>>, NEW r \in Requests,
         NEW point, NEW call, SetCall(r, point, call), point # "vfMark"
  PROVE  OneTime!OneTimeNext
  <1>1. \A q \in Requests : vpc'[q] = "vfMark" => vpc[q] = "vfMark" /\ vreq'[q] = vreq[q]
    BY DEF CodesTypeOK, SetCall
  <1> QED BY <1>1, QuietIsStep

\* A send issues a code for the target and the type it was asked for.
LEMMA CreateIssues ==
  ASSUME CodesTypeOK, NEW r \in Requests, NEW code \in Codes, SendCreates(r, code)
  PROVE  OneTime!OneTimeNext
  <1> DEFINE newRow == [target |-> vreq[r].target, ip |-> vreq[r].ip,
                        type |-> vreq[r].type, code |-> code, used |-> FALSE]
             call == [vreq[r] EXCEPT !.row = Len(rows) + 1]
             n == Len(rows) + 1
  <1>0. PICK p : p = [target |-> vreq[r].target, type |-> vreq[r].type]
    OBVIOUS
  <1>1. /\ rows' = Append(rows, newRow) /\ accepts' = Append(accepts, 0)
        /\ vpc[r] = "sdCreate" /\ SetCall(r, "sdDeliver", call) /\ expired' = expired
        /\ rows \in Seq(Row) /\ Len(rows) \in Nat /\ expired \in 0..Len(rows)
        /\ vpc \in [Requests -> {"idle", "vfMark"} \cup SendPoints \cup Results]
        /\ vreq \in [Requests -> Call]
    BY DEF SendCreates, CodesTypeOK
  <1>2. /\ newRow.target = p.target /\ newRow.type = p.type /\ newRow.used = FALSE
        /\ p = [target |-> newRow.target, type |-> newRow.type]
    BY <1>0
  <1>3. p \in [target: Targets, type: Types]
    BY <1>0, <1>1 DEF CodesTypeOK, SendPoints, Call
  <1> HIDE DEF newRow, call
  <1>4. /\ Len(rows') = n /\ rows'[n] = newRow
        /\ \A k \in 1..Len(rows) : rows'[k] = rows[k]
    BY <1>1
  <1>5. MappedIssued' = Append(MappedIssued, p)
    <2>1. MappedIssued' = [i \in 1..n |-> IF i = n THEN p ELSE MappedIssued[i]]
      <3>1. ASSUME NEW i \in 1..n
            PROVE  PurposeOf(i)' = IF i = n THEN p ELSE MappedIssued[i]
        <4>1. CASE i = n
          BY <1>2, <1>4, <4>1 DEF PurposeOf
        <4>2. CASE i # n
          <5>1. i \in 1..Len(rows)
            BY <1>1, <4>2
          <5> QED BY <1>4, <4>2, <5>1 DEF PurposeOf, MappedIssued
        <4> QED BY <4>1, <4>2
      <3> QED BY <1>4, <3>1 DEF MappedIssued
    <2>2. MappedIssued = [i \in 1..Len(rows) |-> PurposeOf(i)]
      BY DEF MappedIssued
    <2>3. Len(MappedIssued) = Len(rows)
      BY <1>1, <2>2
    <2> QED BY <1>1, <2>1, <2>2, <2>3
  <1>6. MappedOpen' = MappedOpen \cup {n}
    BY <1>1, <1>2, <1>4 DEF MappedOpen
  <1>7. Len(MappedIssued) = Len(rows)
    BY <1>1 DEF MappedIssued
  <1>8. MappedClaim' = MappedClaim
    BY <1>1 DEF MappedClaim, SetCall
  <1>9. OneTime!Issue(p)
    BY <1>1, <1>5, <1>6, <1>7, <1>8, MappedActions
  <1> QED BY <1>3, <1>9 DEF OneTime!OneTimeNext

\* A verification that finds a row claims an open code.
LEMMA FindClaims ==
  ASSUME CodesTypeOK, NEW r \in Requests, NEW t \in Targets, NEW type \in Types,
         NEW code, VerifyFinds(r, t, type, code)
  PROVE  OneTime!OneTimeNext
  <1> DEFINE found(i) == [NoCall EXCEPT !.target = t, !.type = type, !.row = i]
  <1> HIDE DEF found
  <1>1. /\ UNCHANGED <<rows, expired, accepts>> /\ vpc[r] = "idle"
        /\ \/ Result(r, "invalid")
           \/ \E i \in Valid(t, type, code) : SetCall(r, "vfMark", found(i))
    BY Zenon DEF VerifyFinds, codeTableVars, found
  <1>2. CASE Result(r, "invalid")
    BY <1>1, <1>2, QuietSlotIsStep DEF Result
  <1>3. ASSUME NEW i \in Valid(t, type, code),
               SetCall(r, "vfMark", found(i))
        PROVE  OneTime!OneTimeNext
    <2>1. found(i).row = i
      BY DEF NoCall, found
    <2>2. i \in MappedOpen /\ i \in 1..Len(rows)
      BY DEF Valid, MappedOpen
    <2>3. MappedClaim[r] = 0
      BY <1>1 DEF MappedClaim
    <2>4. MappedClaim' = [MappedClaim EXCEPT ![r] = i]
      BY <1>3, <2>1 DEF MappedClaim, SetCall, CodesTypeOK
    <2>5. UNCHANGED <<MappedIssued, MappedOpen, accepts>>
      BY <1>1 DEF MappedIssued, MappedOpen, PurposeOf
    <2>6. OneTime!Claim(r, i)
      BY <2>2, <2>3, <2>4, <2>5, MappedActions
    <2>7. 1..Len(MappedIssued) = 1..Len(rows)
      BY DEF MappedIssued, CodesTypeOK
    <2> QED BY <2>2, <2>6, <2>7 DEF OneTime!OneTimeNext, MappedIssued, PurposeOf
  <1> QED BY <1>1, <1>2, <1>3

\* The mark accepts the code that was claimed.
LEMMA MarkIsAccept ==
  ASSUME CodesTypeOK, NEW r \in Requests, VerifyMarks(r)
  PROVE  OneTime!OneTimeNext
  <1> DEFINE i == vreq[r].row
             x == [rows[i] EXCEPT !.used = TRUE]
  <1>1. /\ rows' = [rows EXCEPT ![i] = x] /\ accepts' = [accepts EXCEPT ![i] = @ + 1]
        /\ vpc[r] = "vfMark" /\ SetCall(r, "valid", NoCall) /\ expired' = expired
        /\ rows \in Seq(Row) /\ i \in 1..Len(rows) /\ Len(rows) \in Nat
        /\ expired \in 0..Len(rows)
    BY DEF VerifyMarks, Result, CodesTypeOK
  <1>2. rows[i] \in Row
    BY <1>1, ElementOfSeq
  <1>3. x.used = TRUE /\ x.target = rows[i].target /\ x.type = rows[i].type
    <2> DEFINE y == rows[i]
               z == [y EXCEPT !.used = TRUE]
    <2>1. y \in Row
      BY <1>2
    <2> HIDE DEF y
    <2>2. z.used = TRUE /\ z.target = y.target /\ z.type = y.type
      BY <2>1 DEF Row
    <2> QED BY <2>2 DEF y
  <1> HIDE DEF x
  <1>4. /\ Len(rows') = Len(rows) /\ rows'[i] = x
        /\ \A k \in 1..Len(rows) : k # i => rows'[k] = rows[k]
    BY <1>1
  <1>5. MappedClaim[r] = i /\ i # 0
    BY <1>1 DEF MappedClaim
  <1> HIDE DEF i
  <1>6. MappedOpen' = MappedOpen \ {i}
    BY <1>1, <1>3, <1>4 DEF MappedOpen
  <1>7. MappedIssued' = MappedIssued
    <2>1. \A k \in 1..Len(rows) : PurposeOf(k)' = PurposeOf(k)
      BY <1>3, <1>4 DEF PurposeOf
    <2> QED BY <1>4, <2>1 DEF MappedIssued
  <1>8. MappedClaim' = [MappedClaim EXCEPT ![r] = 0]
    BY <1>1 DEF MappedClaim, SetCall, CodesTypeOK
  <1>9. OneTime!Accept(r)
    BY <1>1, <1>5, <1>6, <1>7, <1>8, MappedActions
  <1> QED BY <1>9 DEF OneTime!OneTimeNext

\* A row that becomes older than five minutes is a code that runs out.
LEMMA TimeCloses ==
  ASSUME CodesTypeOK, TimePasses
  PROVE  [OneTime!OneTimeNext]_mapped
  <1>1. /\ UNCHANGED <<rows, accepts, vpc, vreq>>
        /\ Len(rows) \in Nat /\ expired \in 0..Len(rows)
    BY DEF TimePasses, CodesTypeOK
  <1>2. UNCHANGED <<MappedIssued, MappedClaim, accepts>>
    BY <1>1 DEF MappedIssued, MappedClaim, PurposeOf
  <1>3. CASE expired' = expired
    BY <1>1, <1>2, <1>3 DEF MappedOpen, mapped
  <1>4. CASE expired < Len(rows) /\ expired' = expired + 1
    <2>1. PICK i \in 1..Len(rows) : i = expired + 1
      BY <1>1, <1>4
    <2>2. MappedOpen' = MappedOpen \ {i}
      BY <1>1, <1>4, <2>1 DEF MappedOpen
    <2>3. OneTime!Close(i)
      BY <1>2, <2>2, MappedActions
    <2>4. 1..Len(MappedIssued) = 1..Len(rows)
      BY <1>1 DEF MappedIssued
    <2> QED BY <2>3, <2>4 DEF OneTime!OneTimeNext, MappedIssued, PurposeOf
  <1> QED BY <1>3, <1>4 DEF TimePasses

LEMMA MappedStep ==
  CodesTypeOK /\ [CodesNext]_codeVars => [OneTime!OneTimeNext]_(OneTime!codesVars)
  <1> SUFFICES ASSUME CodesTypeOK, [CodesNext]_codeVars
               PROVE  [OneTime!OneTimeNext]_mapped
    BY MappedIs
  <1> USE DEF codeTableVars
  <1>1. ASSUME NEW r \in Requests, NEW t \in Targets, NEW a \in Ips, NEW type \in Types,
               SendChecksTarget(r, t, a, type)
        PROVE  OneTime!OneTimeNext
    <2> DEFINE call == [NoCall EXCEPT !.target = t, !.ip = a, !.type = type]
    <2>1. /\ SetCall(r, "sdIp", call) \/ SetCall(r, "refused", NoCall)
          /\ UNCHANGED <<rows, expired, accepts>>
      BY <1>1 DEF SendChecksTarget, Result
    <2> HIDE DEF call
    <2> QED BY <2>1, QuietSlotIsStep
  <1>2. ASSUME NEW r \in Requests,
               SendChecksIp(r) \/ SendDelivers(r) \/ SendCounts(r) \/ CallFails(r)
        PROVE  OneTime!OneTimeNext
    <2>1. /\ UNCHANGED <<rows, expired, accepts>>
          /\ \E point \in {"sdCreate", "refused", "sdLimit", "sent", "error"},
                call \in {vreq[r], NoCall} : SetCall(r, point, call)
      BY <1>2 DEF SendChecksIp, SendDelivers, SendCounts, CallFails, Await, Result
    <2> QED BY <2>1, QuietSlotIsStep
  <1>3. ASSUME NEW r \in Requests, NEW result \in Results, Take(r, result)
        PROVE  OneTime!OneTimeNext
    <2>1. SetCall(r, "idle", vreq[r]) /\ UNCHANGED <<rows, expired, accepts>>
      BY <1>3 DEF Take, SetCall, CodesTypeOK
    <2> QED BY <2>1, QuietSlotIsStep
  <1>4. CASE CodesCrash
    <2>1. UNCHANGED <<rows, expired, accepts>> /\ \A q \in Requests : vpc'[q] # "vfMark"
      BY <1>4 DEF CodesCrash, LoseCalls
    <2> QED BY <2>1, QuietIsStep
  <1>5. CASE UNCHANGED codeVars
    BY <1>5 DEF codeVars, mapped, MappedIssued, MappedOpen, MappedClaim, PurposeOf
  <1>6. ASSUME NEW r \in Requests, CallArrives(r)
        PROVE  OneTime!OneTimeNext
    BY <1>1, <1>6, FindClaims DEF CallArrives
  <1>7. ASSUME NEW r \in Requests, CallStep(r)
        PROVE  OneTime!OneTimeNext
    BY <1>2, <1>7, CreateIssues, MarkIsAccept DEF CallStep
  <1> QED BY <1>2, <1>3, <1>4, <1>5, <1>6, <1>7, TimeCloses DEF CodesNext

\* VerificationService gives its callers what OneTimeCodes states, with any
\* number of calls in flight: a code is accepted only while or after it was
\* claimed open, and cannot be claimed once it was accepted or has run out.
THEOREM CodesAreOneTime == CodesSpec => ImplementsOneTimeCodes
  <1>1. CodesInit => OneTime!OneTimeInit
    BY MappedInit
  <1>2. CodesInv /\ [CodesNext]_codeVars => [OneTime!OneTimeNext]_(OneTime!codesVars)
    BY MappedStep DEF CodesInv
  <1> QED BY <1>1, <1>2, InvariantHolds, PTL
       DEF CodesSpec, ImplementsOneTimeCodes, OneTime!OneTimeSpec
=============================================================================
