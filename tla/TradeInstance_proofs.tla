------------------------- MODULE TradeInstance_proofs -------------------------
(***************************************************************************)
(* OpenContractsAreCovered for every entry quantity: a protection that a   *)
(* pass evaluates has contracts to sell, whatever broker and process do;   *)
(* and where they behave, what the record knows to be open between two     *)
(* passes is covered by stops, or somebody is to act on it.  At the end,   *)
(* what TradeInstance adds to SingleLegExit: it only looks on, so all that *)
(* is proved of the position is so of what the instance shows.             *)
(***************************************************************************)
EXTENDS SingleLegExit_proofs, TradeInstance

-----------------------------------------------------------------------------
(* The inductive invariant, of every environment *)

(* A closing order fills at most as a whole, and only so where exits are not sliced. *)
RightlyFilled(o) ==
    /\ o.filled <= o.qty
    /\ "exit" \notin env.slices => o.filled = 0 \/ o.state = "filled"

Filling == \A i \in DOMAIN sells : RightlyFilled(sells[i])

(* The record stands, whatever comes next. *)
Holds(r) == r \in Record /\ Sound(r) /\ Ordered(r) /\ Armed(r)

UnderWay ==
    /\ pc = "attachStop" => /\ AwaitsFills(copy)
                            /\ copy.covered < seen.filled /\ seen.filled = copy.filled
    /\ pc = "tpClose" => "tp" \in copy.active
    /\ pc = "smartClose" => Booked(copy) < copy.filled
    /\ Flattening => "flatten" \in spent

(* Nothing is open, or somebody is to act on what is: the software stop, a stop
   that is still to be attached, a retry, the user, or the broker's stops. *)
Guarded(r) ==
    \/ Booked(r) = r.filled
    \/ AwaitsFills(r)
    \/ r.of \in {"tp", "smart"} /\ r.is = "retry"
    \/ r.is = "failed"
    \/ "stop" \in r.active
    \/ r.of = "entry" /\ r.is = "attached" /\ r.covered = r.filled

WholeExits == "exit" \notin env.slices /\ "flatten" \notin spent

Guards ==
    WholeExits => /\ Guarded(rec)
                  /\ pc \notin {"tpClose", "smartClose"} => Guarded(copy)

BookInv == Booking /\ Filling /\ Holds(copy) /\ Holds(rec) /\ UnderWay /\ Guards

-----------------------------------------------------------------------------
(* What the broker may do to the orders meanwhile *)

Kept ==
    /\ env' = env
    /\ entry' \in [filled : 0 .. Qty, working : BOOLEAN] /\ entry.filled <= entry'.filled
    /\ sells' \in Seq(SellOrder) /\ DOMAIN sells \subseteq DOMAIN sells'
    /\ \A i \in DOMAIN sells : sells'[i].qty = sells[i].qty
    /\ Filling'

LEMMA BookFacts ==
  ASSUME BookInv
  PROVE  /\ Booking /\ Filling /\ Holds(copy) /\ Holds(rec) /\ UnderWay /\ Guards
         /\ copy \in Record /\ Sound(copy) /\ Ordered(copy) /\ Armed(copy) /\ rec \in Record
         /\ sells \in Seq(SellOrder) /\ entry \in [filled : 0 .. Qty, working : BOOLEAN]
         /\ rows \in Seq(Source \X Nat) /\ seen \in [filled : Int, over : BOOLEAN]
         /\ entry.filled \in Nat /\ copy.filled \in Nat /\ Booked(copy) \in Nat
         /\ copy.filled <= entry.filled /\ Booked(copy) <= copy.filled
         /\ \A i \in DOMAIN sells : sells[i] \in SellOrder /\ RightlyFilled(sells[i])
<1>1. Booking
  BY DEF BookInv
<1>2. \A i \in DOMAIN sells : sells[i] \in SellOrder
  BY <1>1 DEF Booking
<1>. QED
  BY <1>1, <1>2, BookingFacts DEF BookInv, Booking, Holds, Filling

LEMMA SameEntry ==
  ASSUME BookInv, entry' = entry
  PROVE  entry' \in [filled : 0 .. Qty, working : BOOLEAN] /\ entry.filled <= entry'.filled
BY BookFacts

LEMMA SameKept ==
  ASSUME BookInv, env' = env, sells' = sells,
         entry' \in [filled : 0 .. Qty, working : BOOLEAN], entry.filled <= entry'.filled
  PROVE  Kept
BY BookFacts DEF Kept, Filling, RightlyFilled

LEMMA SubmitKept ==
  ASSUME BookInv, env' = env, entry' = entry, NEW kind \in {"stop", "limit", "market", "buy"},
         NEW qty \in 1 .. Qty, Submit(kind, qty)
  PROVE  /\ Kept /\ NewId \in Nat \ {0} /\ NewId \in DOMAIN sells' /\ sells'[NewId].qty = qty
         /\ \A i \in DOMAIN sells : sells'[i] = sells[i]
<1> DEFINE o == [kind |-> kind, qty |-> qty, filled |-> 0, state |-> "working"]
<1>1. qty \in Nat \ {0} /\ o \in SellOrder
  BY ExitAssumption DEF SellOrder
<1>2. sells' = Append(sells, o) /\ sells \in Seq(SellOrder)
  BY BookFacts DEF Submit
<1>3. o.qty = qty /\ o.filled = 0
  OBVIOUS
<1> HIDE DEF o
<1>4. /\ sells' \in Seq(SellOrder) /\ NewId \in Nat \ {0}
      /\ DOMAIN sells' = DOMAIN sells \cup {NewId}
      /\ \A i \in DOMAIN sells : sells'[i] = sells[i]
      /\ sells'[NewId] = o
  BY <1>1, <1>2 DEF NewId
<1>5. Filling'
  BY <1>1, <1>3, <1>4, BookFacts DEF Filling, RightlyFilled
<1>6. \A i \in DOMAIN sells : sells'[i].qty = sells[i].qty
  BY <1>4
<1>. QED
  BY <1>3, <1>4, <1>5, <1>6, SameEntry DEF Kept

LEMMA LostKept ==
  ASSUME BookInv, env' = env, entry' = entry, NEW kind \in {"stop", "limit", "market", "buy"},
         NEW qty \in 1 .. Qty, SubmitLost(kind, qty)
  PROVE  Kept
<1>1. CASE sells' = sells
  BY <1>1, SameEntry, SameKept
<1>2. CASE Submit(kind, qty)
  BY <1>2, SubmitKept
<1>. QED
  BY <1>1, <1>2 DEF SubmitLost

LEMMA CancelKept ==
  ASSUME BookInv, env' = env, NEW ids, sells' = Cancel(ids),
         entry' \in [filled : 0 .. Qty, working : BOOLEAN], entry.filled <= entry'.filled
  PROVE  Kept
<1>1. DOMAIN sells' = DOMAIN sells
  BY DEF Cancel
<1>3. ASSUME NEW i \in DOMAIN sells
      PROVE  /\ sells'[i] \in SellOrder
             /\ sells'[i].qty = sells[i].qty /\ sells'[i].filled = sells[i].filled
             /\ sells'[i].state = sells[i].state \/ sells[i].state = "working"
  <2>1. sells[i] \in SellOrder
    BY BookFacts
  <2>2. CASE i \in ids /\ Cancelable(i)
    <3> DEFINE st == IF env.late THEN "canceling" ELSE "canceled"
    <3>1. sells'[i] = [sells[i] EXCEPT !.state = st]
      BY <2>2 DEF Cancel
    <3>2. st \in {"canceling", "canceled"} /\ sells[i].state = "working"
      BY <2>2 DEF Cancelable
    <3> HIDE DEF st
    <3>. QED
      BY <2>1, <3>1, <3>2 DEF SellOrder
  <2>3. CASE ~(i \in ids /\ Cancelable(i))
    <3>1. sells'[i] = sells[i]
      BY <2>3 DEF Cancel
    <3>. QED
      BY <2>1, <3>1
  <2>. QED
    BY <2>2, <2>3
<1>4. sells' \in Seq(SellOrder)
  <2>1. DOMAIN sells = 1 .. Len(sells) /\ Len(sells) \in Nat
    BY BookFacts
  <2>2. sells' = [i \in DOMAIN sells |-> sells'[i]]
    BY DEF Cancel
  <2>3. sells' \in [1 .. Len(sells) -> SellOrder]
    BY <1>3, <2>1, <2>2
  <2>. QED
    BY <2>1, <2>3, IsASeq
<1>5. Filling'
  <2> SUFFICES ASSUME NEW i \in DOMAIN sells PROVE RightlyFilled(sells[i])'
    BY <1>1 DEF Filling
  <2>1. RightlyFilled(sells[i])
    BY BookFacts
  <2>. QED
    BY <1>3, <2>1 DEF RightlyFilled
<1>. QED
  BY <1>1, <1>3, <1>4, <1>5 DEF Kept

LEMMA BrokerKept ==
  ASSUME BookInv, env' = env, entry' = entry, NEW k \in DOMAIN sells,
         SellFills(k) \/ SellRejected(k) \/ CancelTakesEffect(k)
  PROVE  Kept
<1>1. /\ sells[k] \in SellOrder /\ RightlyFilled(sells[k])
      /\ sells[k].qty \in Nat /\ sells[k].qty <= Qty /\ sells[k].filled \in Nat
      /\ sells[k].filled <= sells[k].qty
  <2>1. sells[k] \in SellOrder /\ RightlyFilled(sells[k])
    BY BookFacts
  <2>. QED
    BY <2>1, OrderFields, ExitAssumption DEF RightlyFilled
<1>2. PICK o : /\ o \in SellOrder /\ sells' = [sells EXCEPT ![k] = o] /\ o.qty = sells[k].qty
               /\ RightlyFilled(o)
  <2>1. CASE SellFills(k)
    <3>1. PICK n \in Amounts(sells[k].qty - sells[k].filled, "exit") :
             sells' = [sells EXCEPT ![k].filled = @ + n,
                         ![k].state = IF sells[k].filled + n = sells[k].qty THEN "filled" ELSE @]
      BY <2>1 DEF SellFills
    <3> DEFINE m == sells[k].filled + n
    <3> DEFINE st == IF m = sells[k].qty THEN "filled" ELSE sells[k].state
    <3> DEFINE o == [sells[k] EXCEPT !.filled = m, !.state = st]
    <3>2. sells' = [sells EXCEPT ![k] = o]
      BY <3>1
    <3>3. m \in 0 .. Qty /\ m <= sells[k].qty /\ ("exit" \notin env.slices => m = sells[k].qty)
      BY <1>1, ExitAssumption DEF Amounts
    <3>4. st \in {"working", "canceling", "filled"} /\ (m = sells[k].qty => st = "filled")
      BY <2>1 DEF SellFills, Alive
    <3> HIDE DEF m, st
    <3>5. o \in SellOrder /\ o.filled = m /\ o.state = st /\ o.qty = sells[k].qty
      BY <1>1, <3>3, <3>4 DEF SellOrder
    <3> HIDE DEF o
    <3>. QED
      BY <3>2, <3>3, <3>4, <3>5 DEF RightlyFilled
  <2>2. CASE SellRejected(k)
    <3> DEFINE st == IF sells[k].filled = 0 THEN "rejected" ELSE "canceled"
    <3> DEFINE o == [sells[k] EXCEPT !.state = st]
    <3>1. sells' = [sells EXCEPT ![k] = o] /\ sells[k].state = "working"
      BY <2>2 DEF SellRejected
    <3>2. st \in {"rejected", "canceled"}
      OBVIOUS
    <3> HIDE DEF st
    <3>3. o \in SellOrder /\ o.filled = sells[k].filled /\ o.qty = sells[k].qty
      BY <1>1, <3>2 DEF SellOrder
    <3> HIDE DEF o
    <3>. QED
      BY <1>1, <3>1, <3>3 DEF RightlyFilled
  <2>3. CASE CancelTakesEffect(k)
    <3> DEFINE o == [sells[k] EXCEPT !.state = "canceled"]
    <3>1. sells' = [sells EXCEPT ![k] = o] /\ sells[k].state = "canceling"
      BY <2>3 DEF CancelTakesEffect
    <3>3. o \in SellOrder /\ o.filled = sells[k].filled /\ o.qty = sells[k].qty
      BY <1>1 DEF SellOrder
    <3> HIDE DEF o
    <3>. QED
      BY <1>1, <3>1, <3>3 DEF RightlyFilled
  <2>. QED
    BY <2>1, <2>2, <2>3
<1>3. /\ sells' \in Seq(SellOrder) /\ DOMAIN sells' = DOMAIN sells
      /\ sells'[k] = o /\ \A i \in DOMAIN sells : i # k => sells'[i] = sells[i]
  BY <1>2, BookFacts
<1>4. Filling'
  <2> SUFFICES ASSUME NEW i \in DOMAIN sells PROVE RightlyFilled(sells[i])'
    BY <1>3 DEF Filling
  <2>1. RightlyFilled(sells[i])
    BY BookFacts
  <2>. QED
    BY <1>2, <1>3, <2>1 DEF RightlyFilled
<1>5. \A i \in DOMAIN sells : sells'[i].qty = sells[i].qty
  BY <1>2, <1>3
<1>. QED
  BY <1>3, <1>4, <1>5, SameEntry DEF Kept

-----------------------------------------------------------------------------
(* Where a step may lead *)

(* Records that stand with the orders of the next state *)
Goes(q) ==
    /\ q \in Record /\ Sound(q) /\ Armed(q)
    /\ \A k \in DOMAIN q.targets : q.targets[k].state # "pending" =>
          /\ q.targets[k].order \in DOMAIN sells'
          /\ sells'[q.targets[k].order].qty = q.targets[k].qty
    /\ \A s \in Source \ {"tp"} : q.order[s] # 0 =>
          q.order[s] \in DOMAIN sells' /\ sells'[q.order[s]].qty <= q.submitted[s]

LEMMA HoldsGoes ==
  ASSUME NEW q, Holds(q), Kept
  PROVE  Goes(q)
BY DEF Holds, Ordered, Kept, Goes

LEMMA SentGoes ==
  ASSUME BookInv, env' = env, entry' = entry, NEW kind \in {"stop", "limit", "market", "buy"},
         NEW qty \in 1 .. Qty, Submit(kind, qty),
         NEW q, q \in Record, Sound(q), Armed(q), Sends(q, qty)
  PROVE  Kept /\ Goes(q)
<1>1. /\ Kept /\ NewId \in DOMAIN sells' /\ sells'[NewId].qty = qty
      /\ \A i \in DOMAIN sells : sells'[i] = sells[i]
  BY SubmitKept
<1>2. DOMAIN sells \subseteq DOMAIN sells'
  BY <1>1 DEF Kept
<1>3. \A k \in DOMAIN q.targets : q.targets[k].state # "pending" =>
          /\ q.targets[k].order \in DOMAIN sells'
          /\ sells'[q.targets[k].order].qty = q.targets[k].qty
  BY <1>1, <1>2 DEF Sends
<1>4. \A s \in Source \ {"tp"} : q.order[s] # 0 =>
          q.order[s] \in DOMAIN sells' /\ sells'[q.order[s]].qty <= q.submitted[s]
  BY <1>1, <1>2 DEF Sends
<1>. QED
  BY <1>1, <1>3, <1>4 DEF Goes

LEMMA CopyStands ==
  ASSUME Kept, entry.filled \in Nat, NEW q, Goes(q), copy' = q
  PROVE  Holds(copy)'
<1>1. q.filled \in Nat /\ entry'.filled \in Nat /\ q \in Record
  BY Quantities, ExitAssumption DEF Goes, Kept
<1>2. Sound(copy)'
  <2>1. q.filled <= entry'.filled
    BY <1>1 DEF Goes, Sound, Kept
  <2>. QED
    BY <2>1 DEF Goes, Sound, Booked, Left, AwaitsFills
<1>3. Ordered(copy)'
  BY DEF Goes, Ordered
<1>4. Armed(copy)'
  BY DEF Goes, Armed, Booked, Pending
<1>. QED
  BY <1>1, <1>2, <1>3, <1>4 DEF Holds

LEMMA RecStands ==
  ASSUME Kept, entry.filled \in Nat, NEW q, Goes(q), rec' = q
  PROVE  Holds(rec)'
<1>1. q.filled \in Nat /\ entry'.filled \in Nat /\ q \in Record
  BY Quantities, ExitAssumption DEF Goes, Kept
<1>2. Sound(rec)'
  <2>1. q.filled <= entry'.filled
    BY <1>1 DEF Goes, Sound, Kept
  <2>. QED
    BY <2>1 DEF Goes, Sound, Booked, Left, AwaitsFills
<1>3. Ordered(rec)'
  BY DEF Goes, Ordered
<1>4. Armed(rec)'
  BY DEF Goes, Armed, Booked, Pending
<1>. QED
  BY <1>1, <1>2, <1>3, <1>4 DEF Holds

(* What has to be said of a step: the copy and the record it leaves, and where it is then. *)
LEMMA BookNext ==
  ASSUME BookInv, Kept, NEW q, Goes(q), copy' = q, NEW p, Goes(p), rec' = p,
         rows' \in Seq(Source \X Nat), seen' \in [filled : Int, over : BOOLEAN],
         RowsAreKnown',
         pc' = "attachStop" => /\ AwaitsFills(q)
                               /\ q.covered < seen'.filled /\ seen'.filled = q.filled,
         pc' = "tpClose" => "tp" \in q.active,
         pc' = "smartClose" => Booked(q) < q.filled,
         Flattening' => "flatten" \in spent',
         WholeExits' => /\ Guarded(p)
                        /\ pc' \notin {"tpClose", "smartClose"} => Guarded(q)
  PROVE  BookInv'
<1>1. Holds(copy)' /\ Holds(rec)'
  BY BookFacts, CopyStands, RecStands
<1>2. Booking'
  <2>1. (copy \in Record /\ Sound(copy) /\ Ordered(copy))'
    BY <1>1 DEF Holds
  <2>. QED
    BY <2>1 DEF Booking, Kept
<1>3. UnderWay'
  BY DEF UnderWay, AwaitsFills, Booked
<1>4. Guards'
  BY DEF Guards, Guarded, AwaitsFills, Booked
<1>5. Filling'
  BY DEF Kept
<1>. QED
  BY <1>1, <1>2, <1>3, <1>4, <1>5 DEF BookInv

LEMMA RecGoes ==
  ASSUME BookInv, Kept
  PROVE  Goes(rec) /\ Goes(copy)
BY BookFacts, HoldsGoes

(* Between two parts of a pass nothing is asked but that the copy stands. *)
LEMMA BookGoesOn ==
  ASSUME BookInv, Kept, NEW q, Goes(q), copy' = q, pc' \in Between,
         UNCHANGED <<rec, rows, seen, spent>>, WholeExits => Guarded(q)
  PROVE  BookInv'
<1>1. /\ ~Walking' /\ ~Reconciling' /\ ~Flattening' /\ pc' # "escalate"
      /\ pc' \notin {"attachStop", "tpClose", "smartClose"}
  BY DEF Between, Walking, Reconciling, Flattening
<1>2. RowsAreKnown'
  BY <1>1 DEF RowsAreKnown
<1>3. Goes(rec) /\ rec' = rec
  BY RecGoes
<1>4. WholeExits' = WholeExits
  BY DEF WholeExits, Kept
<1>5. WholeExits => Guarded(rec)
  BY BookFacts DEF Guards
<1>6. rows' \in Seq(Source \X Nat) /\ seen' \in [filled : Int, over : BOOLEAN]
  BY BookFacts
<1> DEFINE p == rec
<1>7. rec' = p /\ Goes(p) /\ (WholeExits => Guarded(p))
  BY <1>3, <1>5
<1> HIDE DEF p
<1>. QED
  BY <1>1, <1>2, <1>4, <1>6, <1>7, BookNext

(* A record that is guarded stays so when its status and its stops stay. *)
LEMMA GuardedAlike ==
  ASSUME NEW r, NEW q, Guarded(r), q.filled = r.filled, q.covered = r.covered,
         Booked(q) = Booked(r), q.of = r.of, q.is = r.is,
         "stop" \in r.active => "stop" \in q.active
  PROVE  Guarded(q)
BY DEF Guarded, AwaitsFills

LEMMA CopyGuarded ==
  ASSUME BookInv, WholeExits, pc \notin {"tpClose", "smartClose"}
  PROVE  Guarded(copy)
BY BookFacts DEF Guards

LEMMA NearBooked ==
  ASSUME NEW r, NEW q, Near(r, q)
  PROVE  Booked(q) = Booked(r)
BY DEF Near, Booked

(* An alteration of the status, or of what is active, that arms no take profit and
   arms a software stop only for all that is left, if anything is *)
LEMMA NearHolds ==
  ASSUME NEW r, NEW q, Holds(r), Near(r, q),
         q.of = "entry" => r.of = "entry", "tp" \in q.active => "tp" \in r.active,
         "stop" \in q.active => /\ q.stopQty > 0 /\ ~AwaitsFills(q)
                                /\ q.stopQty = r.filled - Booked(r)
  PROVE  Holds(q) /\ Booked(q) = Booked(r)
<1>1. /\ q \in Record /\ r \in Record /\ Booked(q) = Booked(r)
      /\ Left(q, 1) = Left(r, 1) /\ Left(q, 2) = Left(r, 2) /\ Pending(q) = Pending(r)
      /\ q.filled = r.filled /\ q.filled \in Nat /\ Booked(q) \in Nat /\ q.stopQty \in Nat
  <2>1. q \in Record /\ r \in Record
    BY DEF Near, Holds
  <2>. QED
    BY <2>1, NearBooked, Quantities DEF Near, Left, Pending
<1>2. "stop" \in q.active => q.filled > 0 /\ q.stopQty >= q.filled - Booked(q)
  BY <1>1
<1>3. Sound(q)
  <2>1. /\ q.filled <= entry.filled /\ q.covered <= q.filled
        /\ \A s \in Source : q.closed[s] <= q.submitted[s]
        /\ Booked(q) <= q.filled /\ Len(q.targets) <= 2
        /\ q.submitted["stop"] + q.submitted["smart"] > 0 => Booked(q) = q.filled
        /\ q.of = "entry" => Booked(q) = 0
    BY <1>1 DEF Holds, Sound, Near
  <2>2. q.active \cap {"stop", "tp"} # {} => q.filled > 0
    BY <1>1, <1>2 DEF Holds, Sound, Near
  <2>3. "tp" \in q.active => Left(q, 1) + Left(q, 2) <= q.filled - Booked(q)
    BY <1>1 DEF Holds, Sound, Near
  <2>. QED
    BY <1>2, <2>1, <2>2, <2>3 DEF Sound
<1>4. Armed(q)
  BY <1>1 DEF Holds, Armed
<1>5. Ordered(q)
  BY DEF Holds, Ordered, Near
<1>. QED
  BY <1>1, <1>3, <1>4, <1>5 DEF Holds

(* The same, when a stop that is armed is the one that was *)
LEMMA NearKeepsStop ==
  ASSUME NEW r, NEW q, Holds(r), Near(r, q),
         q.of = "entry" => r.of = "entry", AwaitsFills(q) => AwaitsFills(r),
         "tp" \in q.active => "tp" \in r.active,
         "stop" \in q.active => "stop" \in r.active /\ q.stopQty = r.stopQty
  PROVE  Holds(q) /\ Booked(q) = Booked(r)
<1>1. "stop" \in q.active => /\ q.stopQty > 0 /\ q.stopQty = r.filled - Booked(r)
                             /\ ~AwaitsFills(r)
  BY DEF Holds, Armed, Sound
<1>. QED
  BY <1>1, NearHolds

-----------------------------------------------------------------------------
(* Attaching *)

Noted(r, outage, alerted, alert) ==
    [r EXCEPT !.outage = outage, !.alerted = alerted, !.alert = alert]

LEMMA NotedNear ==
  ASSUME NEW r \in Record, NEW o \in [{"stop", "tp"} -> 0 .. Outage],
         NEW a \in SUBSET {"stop", "tp"}, NEW b \in BOOLEAN, NEW q, q = Noted(r, o, a, b)
  PROVE  /\ Near(r, q) /\ q.of = r.of /\ q.is = r.is /\ q.active = r.active
         /\ q.stopQty = r.stopQty /\ q.breach = r.breach
<1>1. /\ r \in Record /\ o \in [{"stop", "tp"} -> 0 .. Outage] /\ a \in SUBSET {"stop", "tp"}
      /\ b \in BOOLEAN /\ q = Noted(r, o, a, b)
  OBVIOUS
<1>. QED
  BY ONLY <1>1 DEF Noted, Record, Near

(* Whether there is a quote is all that is noted when one is asked for. *)
LEMMA AsksQuoteNear ==
  ASSUME NEW r \in Record, NEW s \in {"stop", "tp"}, NEW q, q = AsksQuote(r, s)
  PROVE  /\ Near(r, q) /\ q.of = r.of /\ q.is = r.is /\ q.active = r.active
         /\ q.stopQty = r.stopQty /\ q.breach = r.breach
<1>1. /\ r.outage \in [{"stop", "tp"} -> 0 .. Outage] /\ r.alerted \in SUBSET {"stop", "tp"}
      /\ r.alert \in BOOLEAN /\ Outage \in Nat
  BY ExitAssumption DEF Record
<1>2. CASE q = r
  BY <1>2 DEF Near
<1>3. CASE q = NoQuote(r, s)
  <2> DEFINE n == Min({r.outage[s] + 1, Outage})
  <2> DEFINE alerts == n = Outage /\ s \notin r.alerted
  <2> DEFINE o == [r.outage EXCEPT ![s] = n]
  <2> DEFINE a == IF alerts THEN r.alerted \cup {s} ELSE r.alerted
  <2> DEFINE b == r.alert \/ alerts
  <2>1. n \in 0 .. Outage
    <3>1. r.outage[s] \in Nat /\ r.outage[s] + 1 \in Int
      BY <1>1
    <3>2. n = IF r.outage[s] + 1 <= Outage THEN r.outage[s] + 1 ELSE Outage
      BY <1>1, <3>1, MinOfTwo
    <3>. QED
      BY <1>1, <3>1, <3>2
  <2>2. q = Noted(r, o, a, b)
    BY <1>3 DEF NoQuote, Noted
  <2> HIDE DEF n
  <2>3. /\ o \in [{"stop", "tp"} -> 0 .. Outage] /\ a \in SUBSET {"stop", "tp"} /\ b \in BOOLEAN
    BY <1>1, <2>1
  <2> HIDE DEF o, a, b
  <2>. QED
    BY <2>2, <2>3, NotedNear
<1>4. CASE q = [r EXCEPT !.outage[s] = 0, !.alerted = @ \ {s}]
  <2> DEFINE o == [r.outage EXCEPT ![s] = 0]
  <2> DEFINE a == r.alerted \ {s}
  <2>1. q = Noted(r, o, a, r.alert)
    BY <1>1, <1>4 DEF Noted, Record
  <2>2. o \in [{"stop", "tp"} -> 0 .. Outage] /\ a \in SUBSET {"stop", "tp"}
    BY <1>1
  <2> HIDE DEF o, a
  <2>. QED
    BY <1>1, <2>1, <2>2, NotedNear
<1>. QED
  BY <1>2, <1>3, <1>4 DEF AsksQuote

(* What the step that attaches a stop relies on *)
LEMMA FillsAreNew ==
  ASSUME BookInv, pc = "attachStop"
  PROVE  /\ AwaitsFills(copy) /\ Uncovered \in 1 .. Qty
         /\ copy.covered + Uncovered = copy.filled /\ copy.filled > 0
<1>1. AwaitsFills(copy) /\ copy.covered < seen.filled /\ seen.filled = copy.filled
  BY BookFacts DEF UnderWay
<1>2. copy.covered \in Nat /\ copy.filled \in 0 .. Qty
  BY BookFacts, Quantities, RecordFields
<1>. QED
  BY <1>1, <1>2, ExitAssumption DEF Uncovered

LEMMA BookStepsKeepingCopy ==
  ASSUME BookInv,
         AttachNotNeeded \/ AttachLookFails \/ AttachStopFails \/ StopIdle \/ RowsDone
  PROVE  BookInv'
<1>1. /\ copy' = copy /\ pc' \in Between /\ pc \notin {"tpClose", "smartClose"}
      /\ UNCHANGED <<env, entry, rec, rows, seen, spent>>
  BY DEF AttachNotNeeded, AttachLookFails, AttachStopFails, StopIdle, RowsDone, Continue, Between
<1>2. Kept
  <2>1. CASE AttachStopFails
    <3>1. Uncovered \in 1 .. Qty /\ SubmitLost("stop", Uncovered)
      BY <2>1, FillsAreNew DEF AttachStopFails
    <3>. QED
      BY <1>1, <3>1, LostKept
  <2>2. CASE sells' = sells
    BY <1>1, <2>2, SameEntry, SameKept
  <2>. QED
    BY <2>1, <2>2 DEF AttachNotNeeded, AttachLookFails, StopIdle, RowsDone
<1>3. Goes(copy) /\ (WholeExits => Guarded(copy))
  BY <1>1, <1>2, RecGoes, CopyGuarded
<1> DEFINE q == copy
<1>4. copy' = q /\ Goes(q) /\ (WholeExits => Guarded(q))
  BY <1>1, <1>3
<1> HIDE DEF q
<1>. QED
  BY <1>1, <1>2, <1>4, BookGoesOn

LEMMA BookAttachLook ==
  ASSUME BookInv, AttachLook
  PROVE  BookInv'
<1>1. /\ AwaitsFills(copy) /\ pc = "attach"
      /\ UNCHANGED <<env, entry, sells, rec, rows, spent>>
  BY DEF AttachLook, WaitsForFills
<1>2. Kept
  BY <1>1, SameEntry, SameKept
<1>3. CASE HasNewFills
  <2>1. /\ copy' = [copy EXCEPT !.filled = Max({copy.filled, entry.filled})]
        /\ seen' = [filled |-> entry.filled, over |-> ~entry.working]
        /\ pc' = "attachStop" /\ entry.filled > copy.covered
    BY <1>3 DEF AttachLook, HasNewFills, Continue
  <2>2. Max({copy.filled, entry.filled}) = entry.filled
    <3>1. copy.filled \in Int /\ entry.filled \in Int /\ copy.filled <= entry.filled
      BY BookFacts
    <3> DEFINE m == copy.filled
    <3> DEFINE n == entry.filled
    <3> HIDE DEF m, n
    <3>2. Max({m, n}) = IF m >= n THEN m ELSE n
      BY <3>1, MaxOfTwo DEF m, n
    <3>3. m \in Int /\ n \in Int /\ m <= n
      BY <3>1 DEF m, n
    <3>4. Max({m, n}) = n
      BY <3>2, <3>3
    <3>. QED
      BY <3>4 DEF m, n
  <2> DEFINE q == [copy EXCEPT !.filled = entry.filled]
  <2>3. copy' = q
    BY <2>1, <2>2
  <2>4. /\ Sound(q) /\ AwaitsFills(q) /\ "stop" \notin q.active /\ q \in Record
        /\ q.filled = entry.filled /\ q.covered = copy.covered
        /\ q.submitted = copy.submitted /\ q.order = copy.order
        /\ q.targets = copy.targets /\ q.active = copy.active
    <3>1. /\ copy \in Record /\ Sound(copy) /\ entry.filled \in 0 .. Qty
          /\ copy.filled <= entry.filled /\ entry.filled <= entry.filled
      BY BookFacts
    <3>. QED
      BY <1>1, <3>1, FillsSound
  <2> HIDE DEF q
  <2>5. Holds(q)
    <3>1. Ordered(q)
      BY <2>4, BookFacts DEF Ordered
    <3>2. Armed(q)
      BY <2>4, BookFacts DEF Armed, Pending
    <3>. QED
      BY <2>4, <3>1, <3>2 DEF Holds
  <2>6. Goes(q) /\ Goes(rec) /\ (WholeExits => Guarded(rec) /\ Guarded(q))
    BY <1>2, <2>4, <2>5, HoldsGoes, RecGoes, BookFacts DEF Guarded, Guards
  <2>7. ~Walking' /\ ~Reconciling' /\ ~Flattening' /\ pc' # "escalate"
    BY <2>1 DEF Walking, Reconciling, Flattening
  <2>8. RowsAreKnown'
    BY <2>7 DEF RowsAreKnown
  <2>9. /\ seen'.filled = q.filled /\ q.covered < seen'.filled
        /\ seen' \in [filled : Int, over : BOOLEAN] /\ rows' \in Seq(Source \X Nat)
    BY <1>1, <2>1, <2>4, BookFacts, Quantities
  <2>10. WholeExits' = WholeExits
    BY <1>1 DEF WholeExits
  <2> DEFINE p == rec
  <2>11. rec' = p /\ Goes(p) /\ (WholeExits => Guarded(p) /\ Guarded(q))
    BY <1>1, <2>6
  <2> HIDE DEF p
  <2>. QED
    BY <1>2, <2>1, <2>3, <2>4, <2>6, <2>7, <2>8, <2>9, <2>10, <2>11, BookNext
<1>4. CASE ~HasNewFills
  <2> DEFINE u == Status(copy, "entry", "unfilled")
  <2>1. /\ copy' = (IF entry.filled = 0 /\ ~entry.working THEN u ELSE copy)
        /\ seen' = seen /\ pc' = "stop"
    BY <1>4 DEF AttachLook, Continue
  <2>2. /\ Near(copy, u) /\ u.of = "entry" /\ u.is = "unfilled"
        /\ u.active = copy.active /\ u.stopQty = copy.stopQty
    BY BookFacts, StatusKin, KinNear
  <2> HIDE DEF u
  <2>3. Holds(u) /\ Booked(u) = Booked(copy)
    BY <1>1, <2>2, BookFacts, NearKeepsStop DEF AwaitsFills
  <2>4. entry.filled = 0 => Guarded(u)
    <3>1. entry.filled = 0 => copy.filled = 0 /\ Booked(copy) = 0
      BY BookFacts
    <3>. QED
      BY <2>2, <2>3, <3>1 DEF Guarded, Near
  <2>5. Goes(u) /\ Goes(copy) /\ Guarded(copy) /\ pc' \in Between
    BY <1>1, <1>2, <2>1, <2>3, HoldsGoes, RecGoes DEF Guarded, Between
  <2>7. CASE entry.filled = 0 /\ ~entry.working
    BY <1>1, <1>2, <2>1, <2>4, <2>5, <2>7, BookGoesOn
  <2>8. CASE ~(entry.filled = 0 /\ ~entry.working)
    <3> DEFINE r == copy
    <3>1. copy' = r /\ Goes(r) /\ Guarded(r)
      BY <2>1, <2>5, <2>8
    <3> HIDE DEF r
    <3>. QED
      BY <1>1, <1>2, <2>1, <2>5, <3>1, BookGoesOn
  <2>. QED
    BY <2>7, <2>8
<1>. QED
  BY <1>3, <1>4

LEMMA BookAttachStop ==
  ASSUME BookInv, AttachStop
  PROVE  BookInv'
<1> DEFINE is == IF copy.covered + Uncovered >= Qty \/ seen.over THEN "attached" ELSE "partial"
<1> DEFINE q == StopAttached(copy, NewId, Uncovered, is)
<1>1. /\ pc = "attachStop" /\ Submit("stop", Uncovered) /\ pc' = "stop"
      /\ UNCHANGED <<env, entry, rec, rows, seen, spent>>
  BY DEF AttachStop, Continue
<1>2. /\ AwaitsFills(copy) /\ Uncovered \in 1 .. Qty
      /\ copy.covered + Uncovered = copy.filled
      /\ copy \in Record /\ Sound(copy) /\ Armed(copy) /\ NewId \in Nat
  <2>1. NewId \in Nat
    BY BookFacts, BookingFacts
  <2>. QED
    BY <1>1, <2>1, FillsAreNew, BookFacts
<1>3. is \in {"attached", "partial"}
  OBVIOUS
<1>4. copy' = q
  <2>1. /\ copy' = Status(ArmTakeProfit(WithStop(copy, NewId, Uncovered)), "entry",
                          IF ArmTakeProfit(WithStop(copy, NewId, Uncovered)).covered >= Qty \/ seen.over
                            THEN "attached" ELSE "partial")
    BY DEF AttachStop, WithStop
  <2>2. ArmTakeProfit(WithStop(copy, NewId, Uncovered)).covered = copy.covered + Uncovered
    <3>1. copy.covered + Uncovered <= copy.filled
      BY <1>2, BookFacts
    <3> HIDE DEF is
    <3>. QED
      BY <1>2, <1>3, <3>1, StopIsAttached
  <2>. QED
    BY <2>1, <2>2 DEF StopAttached
<1> HIDE DEF is
<1>5. /\ q \in Record /\ q.filled = copy.filled /\ q.covered = copy.covered + Uncovered
      /\ q.submitted = copy.submitted /\ q.order = copy.order
      /\ q.of = "entry" /\ q.is = is /\ "stop" \notin q.active
      /\ Sound(q) /\ Armed(q)
      /\ \A k \in DOMAIN q.targets : q.targets[k].state # "pending" =>
           k \in DOMAIN copy.targets /\ q.targets[k] = copy.targets[k]
  <2>1. copy.covered + Uncovered <= copy.filled
    BY <1>2, BookFacts
  <2>. QED
    BY <1>2, <1>3, <2>1, StopIsAttached
<1> HIDE DEF q
<1>6. Sends(q, Uncovered)
  BY <1>5, BookFacts DEF Ordered, Sends
<1>7. Kept /\ Goes(q)
  BY <1>1, <1>2, <1>5, <1>6, SentGoes
<1>8. Guarded(q)
  BY <1>2, <1>3, <1>5 DEF Guarded, AwaitsFills
<1>. QED
  BY <1>1, <1>4, <1>7, <1>8, BookGoesOn DEF Between

LEMMA BookAttachUnsupported ==
  ASSUME BookInv, AttachUnsupported
  PROVE  BookInv'
<1> DEFINE q == Status(ArmTakeProfit(ArmStop(copy, copy.filled)), "entry", "unsupported")
<1>1. /\ pc = "attachStop" /\ sells' = sells /\ pc' = "stop" /\ copy' = q
      /\ UNCHANGED <<env, entry, rec, rows, seen, spent>>
  BY DEF AttachUnsupported, Continue
<1>2. /\ AwaitsFills(copy) /\ copy.filled > 0 /\ copy \in Record /\ Sound(copy) /\ Armed(copy)
  BY <1>1, FillsAreNew, BookFacts
<1>3. /\ q \in Record /\ q.order = copy.order /\ q.submitted = copy.submitted
      /\ Sound(q) /\ Armed(q) /\ "stop" \in q.active
      /\ \A k \in DOMAIN q.targets : q.targets[k].state # "pending" =>
           k \in DOMAIN copy.targets /\ q.targets[k] = copy.targets[k]
  BY <1>2, SoftwareTakesOver
<1> HIDE DEF q
<1>4. Holds(q)
  BY <1>3, BookFacts DEF Holds, Ordered
<1>5. Kept
  BY <1>1, SameEntry, SameKept
<1>6. Goes(q) /\ Guarded(q)
  BY <1>3, <1>4, <1>5, HoldsGoes DEF Guarded
<1>. QED
  BY <1>1, <1>5, <1>6, BookGoesOn DEF Between

-----------------------------------------------------------------------------
(* The software stop *)

LEMMA NearKin ==
  ASSUME NEW r, NEW q, NEW p, Near(r, q), Kin(q, p)
  PROVE  Near(r, p)
BY DEF Near, Kin

(* An armed software stop is for all that is left, and something is. *)
LEMMA BookedStop ==
  ASSUME BookInv, "stop" \in copy.active
  PROVE  /\ StopQuantity = copy.filled - Booked(copy) /\ StopQuantity = copy.stopQty
         /\ StopQuantity \in 1 .. Qty /\ copy.filled > 0 /\ ~AwaitsFills(copy)
<1>1. /\ copy.stopQty > 0 /\ copy.stopQty = copy.filled - Booked(copy)
      /\ copy.filled > 0 /\ ~AwaitsFills(copy) /\ copy \in Record /\ Sound(copy)
  BY BookFacts DEF Armed, Sound
<1>2. RemainingOpen(copy) = copy.filled - Booked(copy) /\ copy.stopQty \in 0 .. Qty
  BY <1>1, Remaining, RecordFields
<1> DEFINE n == copy.stopQty
<1>3. n \in Int /\ RemainingOpen(copy) = n
  BY <1>1, <1>2
<1>4. StopQuantity = Min({n, n})
  BY <1>3 DEF StopQuantity
<1> HIDE DEF n
<1>5. StopQuantity = n
  BY <1>3, <1>4, MinOfTwo
<1>. QED
  BY <1>1, <1>2, <1>5, ExitAssumption DEF n

LEMMA BookStopWatches ==
  ASSUME BookInv, StopWatches
  PROVE  BookInv'
<1> DEFINE a == AsksQuote(copy, "stop")
<1> DEFINE b == CASE quote = "low" -> a.breach + 1
                  [] quote = "none" -> a.breach
                  [] OTHER -> 0
<1> DEFINE q == Watched(a, StopQuantity, b)
<1>1. /\ pc = "stop" /\ "stop" \in copy.active /\ pc' = "tp" /\ copy' = q
      /\ UNCHANGED <<env, entry, sells, rec, rows, seen, spent>>
      /\ quote = "low" => copy.breach + 1 < Confirm
  BY DEF StopWatches, Continue, Watched
<1>2. /\ Near(copy, a) /\ a.of = copy.of /\ a.is = copy.is /\ a.active = copy.active
      /\ a.breach = copy.breach /\ a \in Record
  <2>1. copy \in Record
    BY BookFacts
  <2> HIDE DEF a
  <2>2. /\ Near(copy, a) /\ a.of = copy.of /\ a.is = copy.is /\ a.active = copy.active
        /\ a.breach = copy.breach
    BY <2>1, AsksQuoteNear DEF a
  <2>. QED
    BY <2>2 DEF Near
<1> HIDE DEF a
<1>3. b \in 0 .. Confirm
  <2>1. a.breach \in 0 .. Confirm
    BY <1>2, RecordFields
  <2>2. quote = "low" => a.breach + 1 < Confirm
    BY <1>1, <1>2
  <2>3. Confirm \in Nat
    BY ExitAssumption
  <2>. QED
    BY ONLY <2>1, <2>2, <2>3
<1> HIDE DEF b
<1>4. /\ StopQuantity = copy.filled - Booked(copy) /\ StopQuantity = copy.stopQty
      /\ StopQuantity \in 0 .. Qty /\ ~AwaitsFills(copy)
  BY <1>1, BookedStop
<1>5. Near(copy, q) /\ q.stopQty = copy.stopQty /\ q.active = copy.active /\ q.of = copy.of /\ q.is = copy.is
  <2>1. /\ Kin(a, q) /\ q.stopQty = StopQuantity /\ q.active = a.active
        /\ q.of = a.of /\ q.is = a.is
    BY <1>2, <1>3, <1>4, WatchedKin
  <2> HIDE DEF q
  <2>. QED
    BY <1>2, <1>4, <2>1, NearKin
<1> HIDE DEF q
<1>6. Holds(q)
  BY <1>5, BookFacts, NearKeepsStop DEF AwaitsFills
<1>7. Kept
  BY <1>1, SameEntry, SameKept
<1>8. Goes(q) /\ Guarded(q)
  BY <1>1, <1>5, <1>6, <1>7, HoldsGoes DEF Guarded
<1>. QED
  BY <1>1, <1>7, <1>8, BookGoesOn DEF Between

LEMMA BookStopFires ==
  ASSUME BookInv, StopFires
  PROVE  BookInv'
<1> DEFINE n == AsksQuote(copy, "stop")
<1> DEFINE a == Reset(n, 0)
<1> DEFINE b == Activate(a, "stop", FALSE)
<1> DEFINE qty == StopQuantity
<1> DEFINE r == Submitted(b, "stop", qty)
<1> DEFINE q == Only(r, r.active \ {"tp", "smart"})
<1>1. /\ pc = "stop" /\ "stop" \in copy.active /\ qty > 0 /\ pc' = "persist"
      /\ Submit("market", qty) /\ UNCHANGED <<env, entry, rec, rows, seen, spent>>
  BY DEF StopFires, Breached, Continue
<1>2. /\ qty = copy.filled - Booked(copy) /\ qty \in 1 .. Qty /\ copy.filled > 0
  BY <1>1, BookedStop
<1>3. copy' = WithoutRest(r, {"tp", "smart"})
  BY DEF StopFires, Reset
<1>4. Near(copy, n) /\ n.active = copy.active
  <2>1. copy \in Record
    BY BookFacts
  <2> HIDE DEF n
  <2>. QED
    BY <2>1, AsksQuoteNear DEF n
<1> HIDE DEF n
<1>5. Kin(n, a) /\ a.active = n.active
  <2>1. n \in Record /\ 0 \in 0 .. Qty
    BY <1>4, ExitAssumption DEF Near
  <2>. QED
    BY ONLY <2>1, ResetKin
<1> HIDE DEF a
<1>6. Kin(a, b) /\ b.active = a.active \ {"stop"}
  BY <1>5, ActivateKin DEF Kin, Software
<1> HIDE DEF b
<1>7. Near(copy, b)
  BY <1>4, <1>5, <1>6, NearKin
<1> HIDE DEF qty, r
<1>8. /\ r \in Record /\ RemainingOpen(r) = 0 /\ qty > 0
      /\ r.of = "stop" /\ r.active = b.active
  BY <1>1, <1>2, <1>7, BookFacts, TheRestIsSent DEF r
<1>9. copy' = q
  BY <1>3, <1>8 DEF WithoutRest, Only
<1>10. /\ Near(r, q) /\ q.active = r.active \ {"tp", "smart"} /\ q.of = r.of
  <2>1. r.active \ {"tp", "smart"} \in SUBSET Software
    BY <1>8, RecordFields
  <2>. QED
    BY <1>8, <2>1, OnlyKin, KinNear
<1>11. q.active = {}
  <2>1. copy.active \in SUBSET Software
    BY BookFacts, RecordFields
  <2>. QED
    BY <1>4, <1>5, <1>6, <1>8, <1>10, <2>1 DEF Software
<1> HIDE DEF q
<1>12. /\ q \in Record /\ Sound(q) /\ Booked(q) = q.filled /\ Sends(q, qty)
  BY <1>2, <1>7, <1>8, <1>10, <1>11, BookFacts, TheRestSound DEF r
<1>13. Armed(q)
  BY <1>11 DEF Armed
<1>14. Kept /\ Goes(q)
  BY <1>1, <1>2, <1>12, <1>13, SentGoes
<1>15. Guarded(q)
  BY <1>12 DEF Guarded
<1>. QED
  BY <1>1, <1>9, <1>14, <1>15, BookGoesOn DEF Between

LEMMA BookStopFireFails ==
  ASSUME BookInv, StopFireFails
  PROVE  BookInv'
<1> DEFINE n == AsksQuote(copy, "stop")
<1> DEFINE b == Reset(n, StopQuantity)
<1> DEFINE q == Retry(b, "stop")
<1>1. /\ pc = "stop" /\ "stop" \in copy.active /\ pc' = "persist"
      /\ SubmitLost("market", StopQuantity) /\ UNCHANGED <<env, entry, rec, rows, seen, spent>>
  BY DEF StopFireFails, Breached, Continue
<1>2. /\ StopQuantity = copy.filled - Booked(copy) /\ StopQuantity = copy.stopQty
      /\ StopQuantity \in 1 .. Qty /\ StopQuantity \in 0 .. Qty
  BY <1>1, BookedStop
<1>3. copy' = q
  BY DEF StopFireFails, Reset
<1>4. Near(copy, n) /\ n.active = copy.active
  <2>1. copy \in Record
    BY BookFacts
  <2> HIDE DEF n
  <2>. QED
    BY <2>1, AsksQuoteNear DEF n
<1> HIDE DEF n
<1>5. Kin(n, b) /\ b.stopQty = StopQuantity /\ b.active = n.active
  <2>1. n \in Record
    BY <1>4 DEF Near
  <2>. QED
    BY ONLY <1>2, <2>1, ResetKin
<1> HIDE DEF b
<1>6. /\ Kin(b, q) /\ q.of = "stop" /\ q.is \in {"retry", "failed"} /\ q.stopQty = b.stopQty
      /\ q.is = "retry" => "stop" \in q.active
      /\ \A x \in Software \ {"stop"} : x \in q.active <=> x \in b.active
  BY <1>5, RetryKin DEF Kin, Software
<1> HIDE DEF q
<1>7. /\ Near(copy, q) /\ q.stopQty = copy.stopQty
      /\ "tp" \in q.active => "tp" \in copy.active
  BY <1>2, <1>4, <1>5, <1>6, NearKin DEF Software
<1>8. Holds(q)
  <2>1. q.of # "entry" /\ ~AwaitsFills(q)
    BY <1>6 DEF AwaitsFills
  <2>2. Holds(copy)
    BY BookFacts
  <2>. QED
    BY <1>1, <1>7, <2>1, <2>2, NearKeepsStop
<1>9. Kept
  BY <1>1, <1>2, LostKept
<1>10. Goes(q) /\ Guarded(q)
  BY <1>6, <1>8, <1>9, HoldsGoes DEF Guarded
<1>. QED
  BY <1>1, <1>3, <1>9, <1>10, BookGoesOn DEF Between

-----------------------------------------------------------------------------
(* Taking the broker's stops away *)

(* Where no stop is left a take profit or smart exit is about to close. *)
LEMMA BookReachesClose ==
  ASSUME BookInv, NEW r, Near(copy, r), r.of = copy.of, r.is = copy.is,
         r.active = copy.active, r.stopQty = copy.stopQty, TakeStopsAway(r),
         UNCHANGED <<env, entry, rec, rows, seen, spent>>,
         \/ pc' = "tpClose" /\ "tp" \in copy.active
         \/ pc' = "smartClose" /\ Booked(copy) < copy.filled
  PROVE  BookInv'
<1> DEFINE q == NoStops(r)
<1>1. sells' = Cancel(copy.stops) /\ copy' = IF r.stops = {} THEN r ELSE q
  BY DEF TakeStopsAway, NoStops
<1>2. Kept
  BY <1>1, SameEntry, CancelKept
<1>3. Holds(r) /\ Booked(r) = Booked(copy) /\ r \in Record /\ r.filled = copy.filled
  <2>1. Holds(copy)
    BY BookFacts
  <2>2. Holds(r) /\ Booked(r) = Booked(copy)
    BY <2>1, NearKeepsStop DEF AwaitsFills
  <2>. QED
    BY <2>2 DEF Near
<1>4. /\ q \in Record /\ q.filled = r.filled /\ q.covered = 0
      /\ q.submitted = r.submitted /\ q.closed = r.closed /\ q.order = r.order
      /\ q.targets = r.targets /\ q.active = r.active /\ q.stopQty = r.stopQty
      /\ q.of = r.of /\ q.is = r.is
  BY <1>3, NoStopsFields
<1> HIDE DEF q
<1>5. Holds(q) /\ Booked(q) = Booked(copy)
  <2>1. /\ Booked(q) = Booked(r) /\ Left(q, 1) = Left(r, 1) /\ Left(q, 2) = Left(r, 2)
        /\ Pending(q) = Pending(r) /\ q.covered <= q.filled
    BY <1>3, <1>4, Quantities DEF Booked, Left, Pending
  <2>2. Sound(q)
    BY <1>3, <1>4, <2>1 DEF Holds, Sound, AwaitsFills
  <2>3. Armed(q)
    BY <1>3, <1>4, <2>1 DEF Holds, Armed
  <2>4. Ordered(q)
    BY <1>3, <1>4 DEF Holds, Ordered
  <2>. QED
    BY <1>3, <1>4, <2>1, <2>2, <2>3, <2>4 DEF Holds
<1>6. PICK p : /\ copy' = p /\ Goes(p) /\ Booked(p) = Booked(copy) /\ p.filled = copy.filled
               /\ p.active = copy.active
  <2>1. CASE r.stops = {}
    BY <1>1, <1>2, <1>3, <2>1, HoldsGoes
  <2>2. CASE r.stops # {}
    BY <1>1, <1>2, <1>3, <1>4, <1>5, <2>2, HoldsGoes
  <2>. QED
    BY <2>1, <2>2
<1>7. /\ ~Walking' /\ ~Reconciling' /\ ~Flattening' /\ pc' # "escalate"
      /\ pc' # "attachStop" /\ pc' \in {"tpClose", "smartClose"}
      /\ pc' = "tpClose" => "tp" \in p.active
      /\ pc' = "smartClose" => Booked(p) < p.filled
  BY <1>6 DEF Walking, Reconciling, Flattening
<1>8. RowsAreKnown'
  BY <1>7 DEF RowsAreKnown
<1> DEFINE x == rec
<1>9. rec' = x /\ Goes(x) /\ (WholeExits => Guarded(x))
  BY <1>2, RecGoes, BookFacts DEF Guards
<1> HIDE DEF x
<1>10. WholeExits' = WholeExits
  BY <1>2 DEF WholeExits, Kept
<1>11. rows' \in Seq(Source \X Nat) /\ seen' \in [filled : Int, over : BOOLEAN]
  BY BookFacts
<1>. QED
  BY <1>2, <1>6, <1>7, <1>8, <1>9, <1>10, <1>11, BookNext

(* Where they stay, the attempt is repeated or given up. *)
LEMMA BookStopsStay ==
  ASSUME BookInv, NEW s \in {"tp", "smart"}, s \in copy.active, NEW r, Near(copy, r),
         r.active = copy.active, r.stopQty = copy.stopQty, StopsStay(r, s),
         UNCHANGED <<env, entry, rec, rows, seen, spent>>, pc' \in Between
  PROVE  BookInv'
<1> DEFINE q == Retry(r, s)
<1>1. copy' = q /\ \E ids : sells' = Cancel(ids)
  BY DEF StopsStay
<1>2. r \in Record /\ s \in Software
  BY DEF Near, Software
<1>3. /\ Kin(r, q) /\ q.of = s /\ q.is \in {"retry", "failed"} /\ q.stopQty = r.stopQty
      /\ \A x \in Software \ {s} : x \in q.active <=> x \in r.active
  BY <1>2, RetryKin
<1> HIDE DEF q
<1>4. /\ Near(copy, q) /\ q.stopQty = copy.stopQty /\ q.of # "entry" /\ ~AwaitsFills(q)
      /\ "tp" \in q.active => "tp" \in copy.active
      /\ "stop" \in q.active => "stop" \in copy.active
  BY <1>3, NearKin DEF Software, AwaitsFills
<1>5. Holds(q)
  <2>1. Holds(copy)
    BY BookFacts
  <2>. QED
    BY <1>4, <2>1, NearKeepsStop
<1>6. Kept
  BY <1>1, SameEntry, CancelKept
<1>7. Goes(q) /\ Guarded(q)
  BY <1>3, <1>5, <1>6, HoldsGoes DEF Guarded
<1>. QED
  BY <1>1, <1>6, <1>7, BookGoesOn

(* What is kept of a record that only notes a quote, or that there is no alert *)
LEMMA NoAlertNear ==
  ASSUME NEW r \in Record
  PROVE  /\ Near(r, NoAlert(r)) /\ NoAlert(r).of = r.of /\ NoAlert(r).is = r.is
         /\ NoAlert(r).active = r.active /\ NoAlert(r).stopQty = r.stopQty
BY DEF NoAlert, Record, Near

LEMMA CopyAsksQuote ==
  ASSUME BookInv, NEW s \in {"stop", "tp"}, NEW q, q = AsksQuote(copy, s)
  PROVE  /\ Near(copy, q) /\ q.of = copy.of /\ q.is = copy.is /\ q.active = copy.active
         /\ q.stopQty = copy.stopQty /\ q \in Record
<1>1. copy \in Record
  BY BookFacts
<1>2. /\ Near(copy, q) /\ q.of = copy.of /\ q.is = copy.is /\ q.active = copy.active
      /\ q.stopQty = copy.stopQty
  BY <1>1, AsksQuoteNear
<1>. QED
  BY <1>2 DEF Near

LEMMA BookTakesStopsAway ==
  ASSUME BookInv, TakeProfitCancelsStops \/ SmartCancelsStops
  PROVE  BookInv'
<1>1. CASE TakeProfitCancelsStops
  <2> DEFINE r == AsksQuote(copy, "tp")
  <2>1. /\ "tp" \in copy.active /\ pc' = "tpClose" /\ TakeStopsAway(r)
        /\ UNCHANGED <<env, entry, rec, rows, seen, spent>>
    BY <1>1 DEF TakeProfitCancelsStops, TargetHit, Continue
  <2>2. /\ Near(copy, r) /\ r.of = copy.of /\ r.is = copy.is /\ r.active = copy.active
        /\ r.stopQty = copy.stopQty
    BY CopyAsksQuote
  <2> HIDE DEF r
  <2>. QED
    BY <2>1, <2>2, BookReachesClose
<1>2. CASE SmartCancelsStops
  <2> DEFINE r == copy
  <2>1. /\ copy.filled > 0 /\ RemainingOpen(copy) > 0 /\ pc' = "smartClose" /\ TakeStopsAway(r)
        /\ UNCHANGED <<env, entry, rec, rows, seen, spent>>
    BY <1>2 DEF SmartCancelsStops, SmartActive, Continue
  <2>2. RemainingOpen(copy) = copy.filled - Booked(copy)
    BY <2>1, BookFacts, Remaining
  <2>3. /\ Near(copy, r) /\ r.of = copy.of /\ r.is = copy.is /\ r.active = copy.active
        /\ r.stopQty = copy.stopQty
    BY BookFacts DEF Near
  <2>4. Booked(copy) < copy.filled
    BY <2>1, <2>2, BookFacts
  <2> HIDE DEF r
  <2>. QED
    BY <2>1, <2>3, <2>4, BookReachesClose
<1>. QED
  BY <1>1, <1>2

LEMMA BookKeepsStops ==
  ASSUME BookInv, TakeProfitKeepsStops \/ SmartKeepsStops
  PROVE  BookInv'
<1>1. CASE TakeProfitKeepsStops
  <2> DEFINE r == AsksQuote(copy, "tp")
  <2>1. /\ "tp" \in copy.active /\ pc' \in Between /\ StopsStay(r, "tp")
        /\ UNCHANGED <<env, entry, rec, rows, seen, spent>>
    BY <1>1 DEF TakeProfitKeepsStops, TargetHit, Continue, Between
  <2>2. Near(copy, r) /\ r.active = copy.active /\ r.stopQty = copy.stopQty
    BY CopyAsksQuote
  <2> HIDE DEF r
  <2>. QED
    BY <2>1, <2>2, BookStopsStay
<1>2. CASE SmartKeepsStops
  <2> DEFINE r == NoAlert(copy)
  <2>1. /\ "smart" \in copy.active /\ pc' \in Between /\ StopsStay(r, "smart")
        /\ UNCHANGED <<env, entry, rec, rows, seen, spent>>
    BY <1>2 DEF SmartKeepsStops, SmartActive, Continue, Between
  <2>2. Near(copy, r) /\ r.active = copy.active /\ r.stopQty = copy.stopQty
    BY BookFacts, NoAlertNear
  <2> HIDE DEF r
  <2>. QED
    BY <2>1, <2>2, BookStopsStay
<1>. QED
  BY <1>1, <1>2

LEMMA BookIdles ==
  ASSUME BookInv, TakeProfitIdle \/ SmartIdle
  PROVE  BookInv'
<1>1. /\ pc' \in Between /\ UNCHANGED <<env, entry, sells, rec, rows, seen, spent>>
      /\ pc \notin {"tpClose", "smartClose"}
  BY DEF TakeProfitIdle, SmartIdle, Continue, Between
<1>2. Kept
  BY <1>1, SameEntry, SameKept
<1>3. copy \in Record
  BY BookFacts
<1> DEFINE a == AsksQuote(copy, "tp")
<1> DEFINE b == Activate(copy, "smart", FALSE)
<1>4. copy' \in {copy, a, b}
  BY DEF TakeProfitIdle, SmartIdle
<1>5. /\ Near(copy, a) /\ a.of = copy.of /\ a.is = copy.is /\ a.active = copy.active
      /\ a.stopQty = copy.stopQty
  BY CopyAsksQuote
<1>6. /\ Near(copy, b) /\ b.of = copy.of /\ b.is = copy.is /\ b.active = copy.active \ {"smart"}
      /\ b.stopQty = copy.stopQty
  BY BookFacts, ActivateKin, KinNear DEF Software
<1> HIDE DEF a, b
<1>7. PICK q \in {copy, a, b} : copy' = q
  BY <1>4
<1>8. /\ Near(copy, q) /\ q.of = copy.of /\ q.is = copy.is
      /\ q.active \subseteq copy.active /\ q.stopQty = copy.stopQty
      /\ "stop" \in copy.active => "stop" \in q.active
  <2>1. Near(copy, copy)
    BY <1>3 DEF Near
  <2>. QED
    BY <1>5, <1>6, <1>7, <2>1
<1>9. Holds(q) /\ Booked(q) = Booked(copy)
  <2>1. Holds(copy)
    BY BookFacts
  <2>. QED
    BY <1>8, <2>1, NearKeepsStop DEF AwaitsFills
<1>10. Goes(q)
  BY <1>2, <1>9, HoldsGoes
<1>11. WholeExits => Guarded(q)
  <2>1. q.filled = copy.filled /\ q.covered = copy.covered
    BY <1>8 DEF Near
  <2>2. WholeExits => Guarded(copy)
    BY <1>1, CopyGuarded
  <2>. QED
    BY <1>8, <1>9, <2>1, <2>2, GuardedAlike
<1>. QED
  BY <1>1, <1>2, <1>7, <1>10, <1>11, BookGoesOn

-----------------------------------------------------------------------------
(* Sending take profit and smart exit *)

LEMMA BookTakeProfitCloses ==
  ASSUME BookInv, TakeProfitCloses
  PROVE  BookInv'
<1> DEFINE n == CloseQuantity
<1> DEFINE t(kind) == TargetSent(copy, NextTarget, kind)
<1> DEFINE r(kind) == Submitted(t(kind), "tp", copy.submitted["tp"] + n)
<1> DEFINE a(kind) == Activate(r(kind), "tp", Pending(r(kind)) # {})
<1> DEFINE b(kind) == StopForTheRest(a(kind), n)
<1> DEFINE q(kind) == WithoutRest(b(kind), {"smart"})
<1>1. /\ pc = "tpClose" /\ pc' = "persist" /\ UNCHANGED <<env, entry, rec, rows, seen, spent>>
      /\ \E kind \in CloseKinds(0) : Submit(kind, n) /\ copy' = q(kind)
  BY DEF TakeProfitCloses, Continue
<1>2. PICK kind \in {"limit", "market"} : Submit(kind, n) /\ copy' = q(kind)
  BY <1>1 DEF CloseKinds
<1>3. "tp" \in copy.active /\ Pending(copy) # {} /\ Booking /\ Armed(copy)
  BY <1>1, BookFacts DEF UnderWay, Armed
<1> DEFINE p == q(kind)
<1>4. /\ p \in Record /\ Sound(p) /\ Sends(p, n) /\ n \in 1 .. Qty
      /\ "stop" \in p.active \/ Booked(p) = p.filled
      /\ Armed(p)
  BY <1>3, TargetCloseSound
<1>5. copy' = p
  BY <1>2
<1> HIDE DEF p, q, n
<1>6. Submit(kind, n) /\ kind \in {"stop", "limit", "market", "buy"}
  BY <1>2
<1>7. Kept /\ Goes(p)
  BY <1>1, <1>4, <1>6, SentGoes
<1>8. Guarded(p)
  BY <1>4 DEF Guarded
<1>. QED
  BY <1>1, <1>5, <1>7, <1>8, BookGoesOn DEF Between

LEMMA BookTakeProfitCloseFails ==
  ASSUME BookInv, TakeProfitCloseFails
  PROVE  BookInv'
<1> DEFINE r == Retry(copy, "tp")
<1> DEFINE q == ArmStop(r, RemainingOpen(r))
<1>1. /\ pc = "tpClose" /\ pc' \in Between /\ UNCHANGED <<env, entry, rec, rows, seen, spent>>
      /\ copy' = r \/ (copy' = q /\ RemainingOpen(r) > 0)
      /\ \E kind \in CloseKinds(0) : SubmitLost(kind, CloseQuantity)
  BY DEF TakeProfitCloseFails, Continue, Between
<1>2. "tp" \in copy.active /\ Pending(copy) # {} /\ copy.filled > 0
  BY <1>1, BookFacts DEF UnderWay, Armed, Sound
<1>3. Kept
  <2>1. PICK kind \in {"limit", "market"} : SubmitLost(kind, CloseQuantity)
    BY <1>1 DEF CloseKinds
  <2>2. CloseQuantity \in 1 .. Qty
    BY <1>2, BookFacts, NextTargetIs
  <2>3. kind \in {"stop", "limit", "market", "buy"}
    BY <2>1
  <2>. QED
    BY <1>1, <2>1, <2>2, <2>3, LostKept
<1>4. /\ Near(copy, r) /\ r.of = "tp" /\ r.is \in {"retry", "failed"} /\ r.stopQty = copy.stopQty
      /\ "stop" \in r.active <=> "stop" \in copy.active
  BY BookFacts, RetryKin, KinNear DEF Software
<1> HIDE DEF r
<1>5. Holds(r) /\ Booked(r) = Booked(copy) /\ Guarded(r) /\ r.filled = copy.filled
  <2>1. Holds(copy) /\ r.of # "entry" /\ ~AwaitsFills(r)
    BY <1>4, BookFacts DEF AwaitsFills
  <2>2. Holds(r) /\ Booked(r) = Booked(copy)
    BY <1>2, <1>4, <2>1, NearKeepsStop
  <2>. QED
    BY <1>4, <2>2 DEF Guarded, Near
<1>6. RemainingOpen(r) > 0 => Holds(q) /\ Guarded(q)
  <2> SUFFICES ASSUME RemainingOpen(r) > 0 PROVE Holds(q) /\ Guarded(q)
    OBVIOUS
  <2>1. RemainingOpen(r) = r.filled - Booked(r) /\ RemainingOpen(r) \in 0 .. Qty
    <3>1. RemainingOpen(r) = r.filled - Booked(r) /\ RemainingOpen(r) \in Nat
      BY <1>2, <1>5, Remaining DEF Holds
    <3>2. r.filled \in 0 .. Qty /\ Booked(r) \in Nat /\ r.filled \in Nat
      BY <1>5, RecordFields, Quantities DEF Holds
    <3>. QED
      BY <3>1, <3>2, ExitAssumption
  <2>2. /\ Near(r, q) /\ q.stopQty = RemainingOpen(r) /\ q.active = r.active \cup {"stop"}
        /\ q.of = r.of
    BY <1>5, <2>1, ArmStopKin, KinNear DEF Holds
  <2> HIDE DEF q
  <2>3. q.of # "entry" /\ ~AwaitsFills(q) /\ ("tp" \in q.active => "tp" \in r.active)
    BY <1>4, <2>2 DEF AwaitsFills
  <2>4. q.stopQty > 0 /\ q.stopQty = r.filled - Booked(r)
    BY <2>1, <2>2
  <2>5. Holds(q)
    BY <1>5, <2>2, <2>3, <2>4, NearHolds
  <2>. QED
    BY <2>2, <2>5 DEF Guarded
<1> HIDE DEF q
<1>7. CASE copy' = r
  BY <1>1, <1>3, <1>5, <1>7, HoldsGoes, BookGoesOn
<1>8. CASE copy' = q /\ RemainingOpen(r) > 0
  BY <1>1, <1>3, <1>6, <1>8, HoldsGoes, BookGoesOn
<1>. QED
  BY <1>1, <1>7, <1>8

LEMMA OpenRest ==
  ASSUME BookInv, pc = "smartClose"
  PROVE  /\ RemainingOpen(copy) = copy.filled - Booked(copy) /\ RemainingOpen(copy) > 0
         /\ RemainingOpen(copy) \in 1 .. Qty /\ copy.filled > 0
<1>1. Booked(copy) < copy.filled /\ Sound(copy) /\ copy \in Record /\ Booked(copy) \in Nat
  BY BookFacts DEF UnderWay
<1>2. copy.filled \in 0 .. Qty
  BY <1>1, RecordFields
<1>3. copy.filled > 0 /\ copy.filled \in Nat
  BY <1>1, <1>2, ExitAssumption
<1>4. RemainingOpen(copy) = copy.filled - Booked(copy)
  BY <1>1, <1>3, Remaining
<1>. QED
  BY <1>1, <1>2, <1>3, <1>4, ExitAssumption

LEMMA BookSmartCloses ==
  ASSUME BookInv, SmartCloses
  PROVE  BookInv'
<1> DEFINE n == RemainingOpen(copy)
<1> DEFINE b == NoAlert(copy)
<1> DEFINE r == Submitted(b, "smart", n)
<1> DEFINE m == IF "stop" \in r.active THEN 0 ELSE r.stopQty
<1> DEFINE q == Off(r, m)
<1>1. /\ pc = "smartClose" /\ pc' = "rows" /\ Submit("market", n) /\ copy' = q
      /\ UNCHANGED <<env, entry, rec, rows, seen, spent>>
  BY DEF SmartCloses, Continue, Off
<1>2. n = copy.filled - Booked(copy) /\ n > 0 /\ n \in 1 .. Qty /\ copy.filled > 0
  BY <1>1, OpenRest
<1>3. Near(copy, b)
  BY BookFacts, NoAlertNear
<1> HIDE DEF n, b, r
<1>4. r \in Record /\ r.of = "smart"
  BY <1>2, <1>3, BookFacts, TheRestIsSent DEF r
<1>5. m \in 0 .. Qty
  BY <1>4, RecordFields, ExitAssumption
<1> HIDE DEF m
<1>6. Near(r, q) /\ q.active = {} /\ q.of = "smart"
  BY <1>4, <1>5, OffKin, KinNear
<1> HIDE DEF q
<1>7. /\ q \in Record /\ Sound(q) /\ Booked(q) = q.filled /\ Sends(q, n)
  BY <1>2, <1>3, <1>6, BookFacts, TheRestSound DEF r
<1>8. Armed(q) /\ Guarded(q)
  BY <1>6, <1>7 DEF Armed, Guarded
<1>9. Kept /\ Goes(q)
  BY <1>1, <1>2, <1>7, <1>8, SentGoes
<1>. QED
  BY <1>1, <1>8, <1>9, BookGoesOn DEF Between

LEMMA BookSmartCloseFails ==
  ASSUME BookInv, SmartCloseFails
  PROVE  BookInv'
<1> DEFINE b == NoAlert(copy)
<1> DEFINE q == Retry(b, "smart")
<1>1. /\ pc = "smartClose" /\ pc' \in Between /\ copy' = q
      /\ SubmitLost("market", RemainingOpen(copy))
      /\ UNCHANGED <<env, entry, rec, rows, seen, spent>>
  BY DEF SmartCloseFails, Continue, Between
<1>2. Kept
  <2>1. RemainingOpen(copy) \in 1 .. Qty
    BY <1>1, OpenRest
  <2>. QED
    BY <1>1, <2>1, LostKept
<1>3. Near(copy, b) /\ b.active = copy.active /\ b.stopQty = copy.stopQty
  BY BookFacts, NoAlertNear
<1> HIDE DEF b
<1>4. /\ Kin(b, q) /\ q.of = "smart" /\ q.is \in {"retry", "failed"} /\ q.stopQty = b.stopQty
      /\ \A x \in Software \ {"smart"} : x \in q.active <=> x \in b.active
  <2>1. b \in Record /\ "smart" \in Software
    BY <1>3 DEF Near, Software
  <2>. QED
    BY <2>1, RetryKin
<1> HIDE DEF q
<1>5. /\ Near(copy, q) /\ q.stopQty = copy.stopQty /\ q.of # "entry" /\ ~AwaitsFills(q)
      /\ "tp" \in q.active => "tp" \in copy.active
      /\ "stop" \in q.active => "stop" \in copy.active
  BY <1>3, <1>4, NearKin DEF Software, AwaitsFills
<1>6. Holds(q)
  <2>1. Holds(copy)
    BY BookFacts
  <2>. QED
    BY <1>5, <2>1, NearKeepsStop
<1>7. Goes(q) /\ Guarded(q)
  BY <1>2, <1>4, <1>6, HoldsGoes DEF Guarded
<1>. QED
  BY <1>1, <1>2, <1>7, BookGoesOn

-----------------------------------------------------------------------------
(* Reconciling *)

LEMMA MarksHold ==
  ASSUME NEW r, NEW q, Holds(r), Marks(r, q)
  PROVE  Holds(q) /\ Booked(q) = Booked(r) /\ KnownRows(q) = KnownRows(r) /\ q.filled = r.filled
<1>1. /\ Sound(q) /\ Booked(q) = Booked(r) /\ Pending(q) = Pending(r)
      /\ KnownRows(q) = KnownRows(r)
  BY MarksSound DEF Holds
<1>2. /\ q \in Record /\ q.filled = r.filled
      /\ q.submitted = r.submitted /\ q.order = r.order
      /\ DOMAIN q.targets = DOMAIN r.targets
      /\ \A k \in DOMAIN r.targets :
            /\ q.targets[k].qty = r.targets[k].qty /\ q.targets[k].order = r.targets[k].order
            /\ q.targets[k].state = "pending" <=> r.targets[k].state = "pending"
      /\ q.active # {} => q.active = r.active /\ q.stopQty = r.stopQty
  BY DEF Marks
<1>3. Ordered(r) /\ Armed(r)
  BY DEF Holds
<1>4. Ordered(q)
  BY ONLY <1>2, <1>3 DEF Ordered
<1>5. Armed(q)
  <2>1. CASE q.active = {}
    BY <2>1 DEF Armed
  <2>2. CASE q.active = r.active /\ q.stopQty = r.stopQty
    BY <1>1, <1>2, <1>3, <2>2 DEF Armed
  <2>. QED
    BY <1>2, <2>1, <2>2
<1>. QED
  BY <1>1, <1>2, <1>4, <1>5 DEF Holds

Escalating == {"escalate", "escalateLook", "escalateClose"}

(* A row that is looked at, or is done with *)
LEMMA BookReconciles ==
  ASSUME BookInv, Kept, Reconciling, rows # <<>>, NEW q, copy' = q, q = copy \/ Marks(copy, q),
         UNCHANGED <<rec, seen, spent>>, WholeExits => Guarded(q),
         \/ pc' = "reconcile" /\ rows' \in {rows, Tail(rows)}
         \/ pc' \in Escalating /\ rows' = rows /\ Head(rows)[1] = "tp"
  PROVE  BookInv'
<1>1. Holds(q) /\ KnownRows(q) = KnownRows(copy)
  <2>1. Holds(copy)
    BY BookFacts
  <2>. QED
    BY <2>1, MarksHold
<1>2. Goes(q)
  BY <1>1, HoldsGoes
<1>3. rows' \in Seq(KnownRows(copy)) /\ rows' \in Seq(Source \X Nat)
  <2>1. /\ rows \in Seq(KnownRows(copy)) /\ Tail(rows) \in Seq(KnownRows(copy))
        /\ KnownRows(copy) \subseteq Source \X Nat
    BY BookFacts, RowFacts
  <2>2. rows' \in Seq(KnownRows(copy))
    BY <2>1
  <2>. QED
    BY <2>1, <2>2, SeqOfMore
<1>4. KnownRows(copy)' = KnownRows(q)
  BY DEF KnownRows
<1>5. /\ pc' = "escalate" \/ Walking' => rows' # <<>> /\ Head(rows')[1] = "tp"
      /\ ~Flattening' /\ pc' \notin {"idle", "attachStop", "tpClose", "smartClose"}
  BY DEF Walking, Flattening, Escalating
<1>6. RowsAreKnown'
  BY <1>1, <1>3, <1>4, <1>5 DEF RowsAreKnown
<1> DEFINE p == rec
<1>7. rec' = p /\ Goes(p) /\ (WholeExits => Guarded(p))
  BY RecGoes, BookFacts DEF Guards
<1> HIDE DEF p
<1>8. WholeExits' = WholeExits
  BY DEF WholeExits, Kept
<1>9. seen' \in [filled : Int, over : BOOLEAN]
  BY BookFacts
<1>. QED
  BY <1>2, <1>3, <1>5, <1>6, <1>7, <1>8, <1>9, BookNext

LEMMA BookRow ==
  ASSUME BookInv, pc \in Escalating
  PROVE  Reconciling /\ rows # <<>> /\ Head(rows)[1] = "tp"
BY BookFacts DEF Escalating, Booking, RowsAreKnown, Reconciling, Walking

LEMMA BookCollectRows ==
  ASSUME BookInv, CollectRows
  PROVE  BookInv'
<1>1. /\ rows' = RowsOf(copy) /\ pc' = "reconcile" /\ pc = "rows"
      /\ UNCHANGED <<env, entry, sells, rec, copy, seen, spent>>
  BY DEF CollectRows, Continue
<1>2. Kept
  BY <1>1, SameEntry, SameKept
<1>3. rows' \in Seq(KnownRows(copy)) /\ KnownRows(copy) \subseteq Source \X Nat
  BY <1>1, RowsCollected DEF KnownRows
<1>4. rows' \in Seq(Source \X Nat)
  BY <1>3, SeqOfMore
<1>5. ~Walking' /\ ~Flattening' /\ pc' \notin {"escalate", "attachStop", "tpClose", "smartClose"}
  BY <1>1 DEF Walking, Flattening
<1>6. KnownRows(copy)' = KnownRows(copy)
  BY <1>1 DEF KnownRows
<1>7. RowsAreKnown'
  BY <1>3, <1>5, <1>6 DEF RowsAreKnown
<1> DEFINE q == copy
<1> DEFINE p == rec
<1>8. /\ copy' = q /\ Goes(q) /\ rec' = p /\ Goes(p)
      /\ WholeExits => Guarded(q) /\ Guarded(p)
  BY <1>1, <1>2, RecGoes, BookFacts DEF Guards
<1> HIDE DEF p, q
<1>9. WholeExits' = WholeExits
  BY <1>1 DEF WholeExits
<1>10. seen' \in [filled : Int, over : BOOLEAN]
  BY <1>1, BookFacts
<1>. QED
  BY <1>2, <1>4, <1>5, <1>7, <1>8, <1>9, <1>10, BookNext

(* A pass that leaves the row as it is *)
LEMMA BookKeepsRow ==
  ASSUME BookInv, ReconcileFails \/ EscalateCancelFails \/ EscalateSeesNoFill
                    \/ EscalateCloseFails \/ EscalateCancels
  PROVE  BookInv'
<1>1. /\ Reconciling /\ rows # <<>> /\ copy' = copy /\ UNCHANGED <<env, entry, rec, seen, spent>>
      /\ pc \notin {"tpClose", "smartClose"}
      /\ \/ pc' = "reconcile" /\ rows' \in {rows, Tail(rows)}
         \/ pc' \in Escalating /\ rows' = rows /\ Head(rows)[1] = "tp"
  <2>1. CASE ReconcileFails
    BY <2>1 DEF ReconcileFails, Reconciling
  <2>2. CASE EscalateCancelFails
    BY <2>2, BookRow DEF EscalateCancelFails, NextRow, Continue, Escalating
  <2>3. CASE EscalateSeesNoFill
    BY <2>3, BookRow DEF EscalateSeesNoFill, Continue, Escalating
  <2>4. CASE EscalateCloseFails
    BY <2>4, BookRow DEF EscalateCloseFails, NextRow, Continue, Escalating
  <2>5. CASE EscalateCancels
    BY <2>5, BookRow DEF EscalateCancels, Continue, Escalating
  <2>. QED
    BY <2>1, <2>2, <2>3, <2>4, <2>5
<1>2. Kept
  <2>1. CASE EscalateCloseFails
    <3>1. PICK kind \in {"limit", "market"} : SubmitLost(kind, QtyOf(Head(rows)))
      BY <2>1 DEF EscalateCloseFails, CloseKinds
    <3>2. kind \in {"stop", "limit", "market", "buy"}
      BY <3>1
    <3>3. pc \in Escalating
      BY <2>1 DEF EscalateCloseFails, Escalating
    <3>4. QtyOf(Head(rows)) \in 1 .. Qty
      BY <3>3, BookRow, BookFacts, TargetRowIs
    <3>. QED
      BY <1>1, <3>1, <3>2, <3>4, LostKept
  <2>2. CASE EscalateCancels
    <3>1. sells' = Cancel({OrderOf(Head(rows))})
      BY <2>2 DEF EscalateCancels
    <3>. QED
      BY <1>1, <3>1, SameEntry, CancelKept
  <2>3. CASE sells' = sells
    BY <1>1, <2>3, SameEntry, SameKept
  <2>. QED
    BY <2>1, <2>2, <2>3 DEF ReconcileFails, EscalateCancelFails, EscalateSeesNoFill
<1>3. WholeExits => Guarded(copy)
  BY <1>1, CopyGuarded
<1>. QED
  BY <1>1, <1>2, <1>3, BookReconciles

LEMMA MarkPartialMarks ==
  ASSUME Booking, Reconciling, rows # <<>>, NEW n \in Nat, n <= QtyOf(Head(rows))
  PROVE  Marks(copy, MarkPartial(Head(rows), n))
<1> DEFINE w == Head(rows)
<1> DEFINE s == w[1]
<1> DEFINE m == IF s = "tp" THEN Max({0, copy.closed["tp"] - QtyOf(w) + n}) ELSE n
<1> DEFINE c == Outcome(Closes(copy, s, m), w, "partial")
<1> DEFINE r == Books(c, w, n)
<1>1. /\ w \in Source \X Nat /\ s \in Source
      /\ s = "tp" => w[2] \in DOMAIN copy.targets
      /\ n \in 0 .. Qty /\ QtyOf(w) \in Nat /\ n <= QtyOf(w)
      /\ s # "tp" => n <= copy.submitted[s]
  BY RowFacts, RowOrder, ExitAssumption
<1>2. /\ copy.closed[s] \in Nat /\ copy.submitted[s] \in Nat /\ copy.closed[s] <= copy.submitted[s]
  BY <1>1, SourceQuantities
<1>3. m \in Nat /\ m <= copy.submitted[s]
  <2>1. CASE s = "tp"
    <3> DEFINE d == copy.closed["tp"] - QtyOf(w) + n
    <3>1. d \in Int /\ 0 \in Int /\ d <= copy.submitted[s]
      BY <1>1, <1>2, <2>1
    <3>2. m = Max({0, d})
      BY <2>1
    <3> HIDE DEF d, m
    <3>3. m = IF 0 >= d THEN 0 ELSE d
      BY <3>1, <3>2, MaxOfTwo
    <3>. QED
      BY <1>2, <3>1, <3>3
  <2>2. CASE s # "tp"
    BY <1>1, <2>2
  <2>. QED
    BY <2>1, <2>2
<1>4. MarkPartial(w, n) = Status(r, s, "partial")
  BY DEF MarkPartial, Closes
<1> HIDE DEF m
<1>5. Marks(copy, c)
  BY <1>3, ClosesMarks
<1> HIDE DEF c, w, s
<1>6. Marks(copy, r)
  <2>1. c \in Record /\ (w[1] = "tp" => w[2] \in DOMAIN c.targets) /\ n \in 0 .. Qty
    BY <1>1, <1>5, ExitAssumption DEF Marks, s
  <2>2. /\ SameButOutcome(c, r)
        /\ \A k \in DOMAIN c.targets : r.targets[k].state = c.targets[k].state
    BY <1>1, <2>1, BooksFields
  <2> HIDE DEF r
  <2>. QED
    BY ONLY <1>5, <2>1, <2>2 DEF Marks, SameButOutcome
<1> HIDE DEF r
<1> DEFINE q == Status(r, s, "partial")
<1>7. /\ Kin(r, q) /\ q.of = s /\ q.active = r.active /\ q.stopQty = r.stopQty /\ s # "entry"
  <2>1. r \in Record
    BY <1>6 DEF Marks
  <2>. QED
    BY <1>1, <2>1, StatusKin DEF Source
<1> HIDE DEF q
<1>8. Marks(copy, q)
  BY ONLY <1>6, <1>7 DEF Marks, Kin
<1>9. Marks(copy, MarkPartial(w, n))
  BY <1>4, <1>8 DEF q
<1>. QED
  BY <1>9 DEF w

(* An order that has filled books the row; where nothing then is open, all is over. *)
LEMMA MarkFilledGuarded ==
  ASSUME BookInv, Reconciling, rows # <<>>, NEW n \in Nat, n <= QtyOf(Head(rows)),
         NEW q, q = MarkFilled(Head(rows), n)
  PROVE  Marks(copy, q) /\ (WholeExits => Guarded(q))
<1>1. /\ Marks(copy, q)
      /\ \/ q.of = copy.of /\ q.is = copy.is /\ q.active = copy.active
         \/ Booked(q) = q.filled
  BY BookFacts, MarkFilledMarks
<1>2. /\ Booked(q) = Booked(copy) /\ q.filled = copy.filled /\ q.covered = copy.covered
  <2>1. Sound(copy) /\ Marks(copy, q)
    BY <1>1, BookFacts
  <2>2. Booked(q) = Booked(copy)
    BY <2>1, MarksSound
  <2>. QED
    BY <2>1, <2>2 DEF Marks
<1>3. WholeExits => Guarded(copy)
  BY CopyGuarded DEF Reconciling, Walking
<1>4. CASE q.of = copy.of /\ q.is = copy.is /\ q.active = copy.active
  BY <1>1, <1>2, <1>3, <1>4, GuardedAlike
<1>5. CASE Booked(q) = q.filled
  BY <1>1, <1>5 DEF Guarded
<1>. QED
  BY <1>1, <1>4, <1>5

LEMMA RowOfOrder ==
  ASSUME BookInv, Reconciling, rows # <<>>
  PROVE  LET w == Head(rows)  o == sells[OrderOf(w)]
         IN  /\ o.filled \in Nat /\ o.filled <= QtyOf(w) /\ QtyOf(w) \in Nat /\ QtyOf(w) > 0
             /\ WholeExits => o.filled = 0 \/ o.state = "filled"
             /\ o.state \in {"working", "canceling", "filled", "canceled", "rejected"}
<1> DEFINE w == Head(rows)
<1> DEFINE o == sells[OrderOf(w)]
<1>1. /\ OrderOf(w) \in DOMAIN sells /\ o \in SellOrder /\ QtyOf(w) \in 1 .. Qty
      /\ o.qty \in 1 .. Qty /\ o.qty <= QtyOf(w)
  BY BookFacts, RowOrder
<1>2. RightlyFilled(o)
  BY <1>1, BookFacts
<1> HIDE DEF o, w
<1>3. o.filled \in Nat /\ o.state \in {"working", "canceling", "filled", "canceled", "rejected"}
  BY <1>1, OrderFields, ExitAssumption
<1>4. o.filled <= QtyOf(w) /\ QtyOf(w) \in Nat /\ QtyOf(w) > 0
  BY <1>1, <1>2, <1>3, ExitAssumption DEF RightlyFilled
<1>5. WholeExits => o.filled = 0 \/ o.state = "filled"
  BY <1>2 DEF RightlyFilled, WholeExits
<1>. QED
  BY <1>3, <1>4, <1>5 DEF o, w

LEMMA BookReconcileRow ==
  ASSUME BookInv, ReconcileRow
  PROVE  BookInv'
<1> DEFINE w == Head(rows)
<1> DEFINE o == sells[OrderOf(w)]
<1> DEFINE over == o.state = "filled" \/ (QtyOf(w) > 0 /\ o.filled >= QtyOf(w))
<1> DEFINE ended == ~over /\ o.state \in {"canceled", "rejected"}
<1> DEFINE walks == ~over /\ ~ended /\ o.filled = 0 /\ Rest(w)
<1> DEFINE n == IF o.filled = 0 THEN QtyOf(w) ELSE o.filled
<1>1. /\ pc = "reconcile" /\ rows # <<>> /\ Reconciling
      /\ UNCHANGED <<env, entry, sells, rec, seen, spent>>
      /\ copy' = CASE over -> MarkFilled(w, n)
                   [] ended -> MarkFailed(w)
                   [] ~over /\ ~ended /\ o.filled > 0 -> MarkPartial(w, o.filled)
                   [] OTHER -> copy
      /\ rows' = IF walks THEN rows ELSE Tail(rows)
      /\ pc' = IF walks THEN "escalate" ELSE "reconcile"
  BY DEF ReconcileRow, Continue, Reconciling
<1>2. /\ o.filled \in Nat /\ o.filled <= QtyOf(w) /\ QtyOf(w) \in Nat /\ QtyOf(w) > 0
      /\ WholeExits => o.filled = 0 \/ o.state = "filled"
  BY <1>1, RowOfOrder
<1>3. Kept
  BY <1>1, SameEntry, SameKept
<1>4. CASE over
  <2> DEFINE q == MarkFilled(w, n)
  <2>1. copy' = q /\ pc' = "reconcile" /\ rows' = Tail(rows)
    BY <1>1, <1>4
  <2>2. n \in Nat /\ n <= QtyOf(w)
    BY <1>2
  <2> HIDE DEF n, over, ended, walks, o
  <2>3. Marks(copy, q) /\ (WholeExits => Guarded(q))
    BY <1>1, <2>2, MarkFilledGuarded
  <2> HIDE DEF q, w
  <2>. QED
    BY <1>1, <1>3, <2>1, <2>3, BookReconciles
<1>5. CASE ended
  <2> DEFINE q == MarkFailed(w)
  <2>1. copy' = q /\ pc' = "reconcile" /\ rows' = Tail(rows)
    BY <1>1, <1>5
  <2>2. Marks(copy, q) /\ Guarded(q)
    BY <1>1, BookFacts, MarkFailedMarks DEF Guarded
  <2> HIDE DEF q, over, ended, walks, o, w
  <2>. QED
    BY <1>1, <1>3, <2>1, <2>2, BookReconciles
<1>6. CASE ~over /\ ~ended /\ o.filled > 0
  <2> DEFINE q == MarkPartial(w, o.filled)
  <2>1. copy' = q /\ pc' = "reconcile" /\ rows' = Tail(rows)
    BY <1>1, <1>6, <1>2
  <2>2. Marks(copy, q)
    BY <1>1, <1>2, BookFacts, MarkPartialMarks
  <2>3. ~WholeExits
    BY <1>2, <1>6
  <2> HIDE DEF q, over, ended, walks, o, w
  <2>. QED
    BY <1>1, <1>3, <2>1, <2>2, <2>3, BookReconciles
<1>7. CASE ~over /\ ~ended /\ ~(o.filled > 0)
  <2>1. copy' = copy
    BY <1>1, <1>7
  <2>2. \/ pc' = "reconcile" /\ rows' = Tail(rows)
        \/ pc' = "escalate" /\ rows' = rows /\ Head(rows)[1] = "tp"
    BY <1>1 DEF Rest
  <2>3. WholeExits => Guarded(copy)
    BY <1>1, CopyGuarded
  <2> HIDE DEF over, ended, walks, o, w
  <2>. QED
    BY <1>1, <1>3, <2>1, <2>2, <2>3, BookReconciles DEF Escalating
<1>. QED
  BY <1>4, <1>5, <1>6, <1>7

LEMMA BookEscalateSeesFill ==
  ASSUME BookInv, EscalateSeesFill
  PROVE  BookInv'
<1> DEFINE w == Head(rows)
<1> DEFINE n == sells[OrderOf(w)].filled
<1> DEFINE q == MarkFilled(w, n)
<1>1. /\ pc = "escalateLook" /\ pc' = "reconcile" /\ rows' = Tail(rows)
      /\ copy' = q /\ UNCHANGED <<env, entry, sells, rec, seen, spent>>
  BY DEF EscalateSeesFill, NextRow, Continue
<1>2. Reconciling /\ rows # <<>>
  BY <1>1, BookRow DEF Escalating
<1>3. n \in Nat /\ n <= QtyOf(w)
  BY <1>2, RowOfOrder
<1> HIDE DEF n
<1>4. Marks(copy, q) /\ (WholeExits => Guarded(q))
  BY <1>2, <1>3, MarkFilledGuarded
<1>5. Kept
  BY <1>1, SameEntry, SameKept
<1> HIDE DEF q, w
<1>. QED
  BY <1>1, <1>2, <1>4, <1>5, BookReconciles

(* The close of a target that is sent once more *)
LEMMA BookEscalateCloses ==
  ASSUME BookInv, EscalateCloses
  PROVE  BookInv'
<1>1. pc = "escalateClose" /\ Reconciling /\ rows # <<>> /\ Head(rows)[1] = "tp"
  BY BookRow DEF EscalateCloses, Escalating
<1> DEFINE k == Head(rows)[2]
<1> DEFINE n == QtyOf(Head(rows))
<1>2. PICK kind \in {"limit", "market"} :
        /\ Submit(kind, n)
        /\ copy' = Resent(copy, k, NewId, kind = "limit")
  BY DEF EscalateCloses, CloseKinds, Resent
<1>3. /\ rows' = Tail(rows) /\ pc' = "reconcile" /\ UNCHANGED <<env, entry, rec, seen, spent>>
  BY DEF EscalateCloses, NextRow, Continue
<1> DEFINE rests == kind = "limit"
<1> DEFINE q == Resent(copy, k, NewId, rests)
<1>4. rests \in BOOLEAN /\ copy' = q /\ kind \in {"stop", "limit", "market", "buy"}
  BY <1>2
<1> HIDE DEF rests
<1>5. /\ IsResent(q, copy, k, NewId)
      /\ Sound(q) /\ Booked(q) = Booked(copy) /\ KnownRows(q) = KnownRows(copy)
      /\ Sends(q, n) /\ n \in 1 .. Qty /\ Armed(q)
  BY <1>1, <1>4, BookFacts, ResentSound
<1> HIDE DEF q, n, k
<1>6. /\ q \in Record /\ q.filled = copy.filled /\ q.covered = copy.covered
      /\ q.of = copy.of /\ q.is = copy.is /\ q.active = copy.active
  BY <1>5 DEF IsResent
<1>7. Kept /\ Goes(q)
  BY <1>2, <1>3, <1>4, <1>5, <1>6, SentGoes
<1>8. WholeExits => Guarded(q)
  BY <1>1, <1>5, <1>6, CopyGuarded, GuardedAlike
<1>9. rows' \in Seq(KnownRows(copy)) /\ rows' \in Seq(Source \X Nat)
  <2>1. Tail(rows) \in Seq(KnownRows(copy)) /\ KnownRows(copy) \subseteq Source \X Nat
    BY <1>1, BookFacts, RowFacts
  <2>. QED
    BY <1>3, <2>1, SeqOfMore
<1>10. ~Walking' /\ ~Flattening' /\ pc' \notin {"escalate", "attachStop", "tpClose", "smartClose"}
  BY <1>3 DEF Walking, Flattening
<1>11. KnownRows(copy)' = KnownRows(q)
  BY <1>4 DEF KnownRows
<1>12. RowsAreKnown'
  BY <1>5, <1>9, <1>10, <1>11 DEF RowsAreKnown
<1> DEFINE p == rec
<1>13. rec' = p /\ Goes(p) /\ (WholeExits => Guarded(p))
  BY <1>3, <1>7, RecGoes, BookFacts DEF Guards
<1> HIDE DEF p
<1>14. WholeExits' = WholeExits
  BY <1>3 DEF WholeExits
<1>15. seen' \in [filled : Int, over : BOOLEAN]
  BY <1>3, BookFacts
<1>. QED
  BY <1>4, <1>7, <1>8, <1>9, <1>10, <1>12, <1>13, <1>14, <1>15, BookNext

-----------------------------------------------------------------------------
(* The record is read and written, the user flattens, the process dies *)

FlattenSteps == {"flattenCancel", "flattenLook", "flattenClose"}

(* Wherever no exit is being reconciled or sent *)
LEMMA BookLeads ==
  ASSUME BookInv, Kept, NEW q, Goes(q), copy' = q, NEW p, Goes(p), rec' = p,
         rows' \in Seq(Source \X Nat), seen' \in [filled : Int, over : BOOLEAN],
         pc' \in Between \cup {"idle"} \cup FlattenSteps,
         pc' \in FlattenSteps => "flatten" \in spent',
         WholeExits' => Guarded(p) /\ Guarded(q)
  PROVE  BookInv'
<1>1. /\ ~Reconciling' /\ ~Walking' /\ pc' \notin {"escalate", "attachStop", "tpClose", "smartClose"}
      /\ Flattening' => "flatten" \in spent'
  BY DEF Between, FlattenSteps, Reconciling, Walking, Flattening
<1>2. RowsAreKnown'
  BY <1>1 DEF RowsAreKnown
<1>. QED
  BY <1>1, <1>2, BookNext

(* The copy is the record again. *)
LEMMA BookReads ==
  ASSUME BookInv, BeginPass \/ BeginFlatten \/ FlattenLookFails \/ Crash
  PROVE  BookInv'
<1>1. /\ copy' = rec /\ rec' = rec /\ UNCHANGED <<env, entry, sells>>
      /\ rows' \in {rows, <<>>} /\ seen' \in {seen, NothingSeen}
      /\ pc' \in Between \cup {"idle"} \cup FlattenSteps
      /\ spent \subseteq spent'
      /\ pc' \in FlattenSteps => "flatten" \in spent'
  <2>1. CASE BeginPass
    BY <2>1 DEF BeginPass, Continue, Between, FlattenSteps
  <2>2. CASE BeginFlatten
    BY <2>2 DEF BeginFlatten, Continue, Between, FlattenSteps
  <2>3. CASE FlattenLookFails
    BY <2>3 DEF FlattenLookFails, Continue, Between, FlattenSteps
  <2>4. CASE Crash
    BY <2>4 DEF Crash, Continue, Between, FlattenSteps
  <2>. QED
    BY <2>1, <2>2, <2>3, <2>4
<1>2. Kept
  BY <1>1, SameEntry, SameKept
<1>3. rows' \in Seq(Source \X Nat) /\ seen' \in [filled : Int, over : BOOLEAN]
  <2>1. NothingSeen \in [filled : Int, over : BOOLEAN] /\ <<>> \in Seq(Source \X Nat)
    BY DEF NothingSeen
  <2>2. seen \in [filled : Int, over : BOOLEAN] /\ rows \in Seq(Source \X Nat)
    BY BookFacts
  <2>. QED
    BY <1>1, <2>1, <2>2
<1>4. WholeExits' => Guarded(rec)
  BY <1>1, BookFacts DEF Guards, WholeExits
<1> DEFINE q == rec
<1>5. copy' = q /\ rec' = q /\ Goes(q) /\ (WholeExits' => Guarded(q))
  BY <1>1, <1>2, <1>4, RecGoes
<1> HIDE DEF q
<1>. QED
  BY <1>1, <1>2, <1>3, <1>5, BookLeads

LEMMA BookPersist ==
  ASSUME BookInv, Persist
  PROVE  BookInv'
<1>1. /\ pc = "persist" /\ pc' = "idle" /\ copy' = rec' /\ rec' \in {rec, copy}
      /\ UNCHANGED <<env, entry, sells, spent>> /\ rows' = <<>> /\ seen' = NothingSeen
  BY DEF Persist, Continue
<1>2. Kept
  BY <1>1, SameEntry, SameKept
<1>3. rows' \in Seq(Source \X Nat) /\ seen' \in [filled : Int, over : BOOLEAN]
  BY <1>1 DEF NothingSeen
<1>4. WholeExits' => Guarded(rec) /\ Guarded(copy)
  BY <1>1, BookFacts DEF Guards, WholeExits
<1> DEFINE q == rec'
<1>5. Goes(rec) /\ Goes(copy)
  BY <1>2, RecGoes
<1>6. CASE rec' = rec
  <2> DEFINE p == rec
  <2>1. copy' = p /\ rec' = p /\ Goes(p) /\ (WholeExits' => Guarded(p))
    BY <1>1, <1>4, <1>5, <1>6
  <2> HIDE DEF p
  <2>. QED
    BY <1>1, <1>2, <1>3, <2>1, BookLeads DEF FlattenSteps
<1>7. CASE rec' = copy
  <2> DEFINE p == copy
  <2>1. copy' = p /\ rec' = p /\ Goes(p) /\ (WholeExits' => Guarded(p))
    BY <1>1, <1>4, <1>5, <1>7
  <2> HIDE DEF p
  <2>. QED
    BY <1>1, <1>2, <1>3, <2>1, BookLeads DEF FlattenSteps
<1>. QED
  BY <1>1, <1>6, <1>7

(* What the broker holds of the option is a number, whatever the orders did. *)
LEMMA PositionIs ==
  ASSUME sells \in Seq(SellOrder), entry.filled \in Nat
  PROVE  Position \in Int /\ Resting \in Int
<1> DEFINE D == DOMAIN sells
<1> DEFINE sold == [i \in D |-> IF sells[i].kind = "buy" THEN -sells[i].filled ELSE sells[i].filled]
<1> DEFINE rest == [i \in D |-> Unfilled(sells[i])]
<1>1. Sold = SumOf(sold, D)
  BY ZenonT(40) DEF Sold, FoldSeq, FoldFunction, FoldFunctionOnSet, SumOf, MapThenSumSet, MapThenFoldSet
<1>2. Resting = SumOf(rest, D)
  BY DEF Resting, FoldSeq, FoldFunction, FoldFunctionOnSet, SumOf, MapThenSumSet, MapThenFoldSet
<1>3. \A i \in D : sold[i] \in Int /\ rest[i] \in Int
  <2> SUFFICES ASSUME NEW i \in D PROVE sold[i] \in Int /\ rest[i] \in Int
    OBVIOUS
  <2>1. sells[i] \in SellOrder
    OBVIOUS
  <2>2. sells[i].qty \in Nat /\ sells[i].filled \in Nat
    BY <2>1, OrderFields, ExitAssumption
  <2>. QED
    BY <2>2 DEF Unfilled
<1>4. IsFiniteSet(D)
  BY OrdersFinite
<1> HIDE DEF D, sold, rest
<1>5. SumOf(sold, D) \in Int /\ SumOf(rest, D) \in Int
  BY <1>3, <1>4, SumType
<1>. QED
  BY <1>1, <1>2, <1>5 DEF Position

(* While a flatten goes on, the record and the copy stay. *)
LEMMA BookFlattens ==
  ASSUME BookInv, Kept, Flattening, UNCHANGED <<rec, copy, rows, spent>>,
         seen' \in [filled : Int, over : BOOLEAN], pc' \in Between \cup FlattenSteps
  PROVE  BookInv'
<1>1. "flatten" \in spent' /\ ~WholeExits'
  BY BookFacts DEF UnderWay, WholeExits
<1>2. rows' \in Seq(Source \X Nat)
  BY BookFacts
<1> DEFINE q == copy
<1> DEFINE p == rec
<1>3. copy' = q /\ Goes(q) /\ rec' = p /\ Goes(p)
  BY RecGoes
<1> HIDE DEF p, q
<1>. QED
  BY <1>1, <1>2, <1>3, BookLeads

LEMMA BookFlattenQuantity ==
  ASSUME BookInv, FlattenQuantity > 0
  PROVE  FlattenQuantity \in 1 .. Qty /\ FlattenQuantity + Booked(copy) <= copy.filled
<1>1. /\ seen.filled \in Int /\ copy.filled \in 0 .. Qty /\ Booked(copy) \in Nat
      /\ Booked(copy) <= copy.filled /\ Qty \in Nat
  BY BookFacts, RecordFields, ExitAssumption
<1>2. Desired = copy.filled - Booked(copy)
  BY BookFacts, Remaining DEF Desired
<1> DEFINE m == Max({seen.filled, -seen.filled})
<1>3. m \in Int
  <2>1. -seen.filled \in Int
    BY ONLY <1>1
  <2>2. m = IF seen.filled >= -seen.filled THEN seen.filled ELSE -seen.filled
    BY <1>1, <2>1, MaxOfTwo
  <2> HIDE DEF m
  <2>. QED
    BY ONLY <1>1, <2>1, <2>2
<1>4. FlattenQuantity = Min({m, Desired})
  BY DEF FlattenQuantity
<1> HIDE DEF m
<1>5. Desired \in Int
  BY ONLY <1>1, <1>2
<1>6. FlattenQuantity = IF m <= Desired THEN m ELSE Desired
  BY <1>3, <1>4, <1>5, MinOfTwo
<1> DEFINE n == FlattenQuantity
<1>7. n > 0
  OBVIOUS
<1>8. n = IF m <= Desired THEN m ELSE Desired
  BY <1>6
<1> HIDE DEF n
<1>9. n \in 1 .. Qty /\ n + Booked(copy) <= copy.filled
  BY ONLY <1>1, <1>2, <1>3, <1>7, <1>8
<1>. QED
  BY <1>9 DEF n

LEMMA BookFlattenLooks ==
  ASSUME BookInv, FlattenCancels \/ FlattenLook \/ FlattenClosesNothing
  PROVE  BookInv'
<1>1. Flattening
  BY DEF FlattenCancels, FlattenLook, FlattenClosesNothing, Flattening
<1>2. CASE FlattenCancels
  <2>1. /\ pc' = "flattenLook" /\ UNCHANGED <<env, rec, copy, rows, seen, spent>>
        /\ CancelEntry \/ entry' = entry
        /\ \E ids : sells' = Cancel(ids)
    BY <1>2 DEF FlattenCancels, Continue
  <2>2. entry' \in [filled : 0 .. Qty, working : BOOLEAN] /\ entry.filled <= entry'.filled
    <3>1. entry \in [filled : 0 .. Qty, working : BOOLEAN] /\ entry.filled \in Nat
      BY BookFacts
    <3>2. CASE entry' = entry
      BY <3>1, <3>2
    <3>3. CASE CancelEntry
      <4> DEFINE b == entry.working /\ copy.filled = Qty
      <4>1. entry' = [entry EXCEPT !.working = b] /\ b \in BOOLEAN
        BY <3>1, <3>3 DEF CancelEntry
      <4> HIDE DEF b
      <4>. QED
        BY <3>1, <4>1
    <3>. QED
      BY <2>1, <3>2, <3>3
  <2>3. Kept
    BY <2>1, <2>2, CancelKept
  <2>4. seen' \in [filled : Int, over : BOOLEAN]
    BY <2>1, BookFacts
  <2>. QED
    BY <1>1, <2>1, <2>3, <2>4, BookFlattens DEF FlattenSteps
<1>3. CASE FlattenLook
  <2> DEFINE available == IF env.reserves THEN Max({0, Position - Resting}) ELSE Position
  <2>1. /\ pc' = "flattenClose" /\ UNCHANGED <<env, entry, sells, rec, copy, rows, spent>>
        /\ seen' = [filled |-> IF Position > 0 THEN available ELSE Position, over |-> FALSE]
    BY <1>3 DEF FlattenLook, Continue
  <2>2. Position \in Int /\ Resting \in Int
    BY BookFacts, PositionIs
  <2>3. available \in Int
    <3> DEFINE d == Position - Resting
    <3>1. d \in Int /\ 0 \in Int
      BY <2>2
    <3> HIDE DEF d
    <3>2. Max({0, d}) \in Int
      BY <3>1, MaxOfTwo
    <3>. QED
      BY <2>2, <3>2 DEF d
  <2> HIDE DEF available
  <2>4. seen' \in [filled : Int, over : BOOLEAN]
    BY <2>1, <2>2, <2>3
  <2>5. Kept
    BY <2>1, SameEntry, SameKept
  <2>. QED
    BY <1>1, <2>1, <2>4, <2>5, BookFlattens DEF FlattenSteps
<1>4. CASE FlattenClosesNothing
  <2>1. /\ pc' = "persist" /\ UNCHANGED <<env, entry, rec, copy, rows, seen, spent>>
    BY <1>4 DEF FlattenClosesNothing, Continue
  <2>2. Kept
    <3>1. CASE sells' = sells
      BY <2>1, <3>1, SameEntry, SameKept
    <3>2. CASE FlattenQuantity > 0 /\ sells' # sells
      <4>1. PICK kind \in {"stop", "limit", "market", "buy"} : SubmitLost(kind, FlattenQuantity)
        BY <1>4, <3>2 DEF FlattenClosesNothing
      <4>2. FlattenQuantity \in 1 .. Qty
        BY <3>2, BookFlattenQuantity
      <4>. QED
        BY <2>1, <4>1, <4>2, LostKept
    <3>. QED
      BY <1>4, <3>1, <3>2 DEF FlattenClosesNothing
  <2>3. seen' \in [filled : Int, over : BOOLEAN]
    BY <2>1, BookFacts
  <2>. QED
    BY <1>1, <2>1, <2>2, <2>3, BookFlattens DEF Between
<1>. QED
  BY <1>2, <1>3, <1>4

LEMMA BookFlattenCloses ==
  ASSUME BookInv, FlattenCloses
  PROVE  BookInv'
<1> DEFINE n == FlattenQuantity
<1> DEFINE r == Submitted(copy, "flatten", copy.submitted["flatten"] + n)
<1> DEFINE q == Off(r, 0)
<1>1. /\ pc = "flattenClose" /\ n > 0 /\ pc' = "persist" /\ copy' = q
      /\ UNCHANGED <<env, entry, rec, rows, seen, spent>>
  BY DEF FlattenCloses, Continue, Off
<1>2. n \in 1 .. Qty /\ n + Booked(copy) <= copy.filled
  BY <1>1, BookFlattenQuantity
<1>3. PICK kind \in {"stop", "limit", "market", "buy"} : Submit(kind, n)
  BY DEF FlattenCloses
<1> HIDE DEF n
<1>4. q \in Record /\ q.active = {} /\ Sound(q) /\ Sends(q, n)
  BY <1>2, BookFacts, FlattenCloseSound
<1> HIDE DEF r, q
<1>5. Armed(q)
  BY <1>4 DEF Armed
<1>6. Kept /\ Goes(q)
  BY <1>1, <1>2, <1>3, <1>4, <1>5, SentGoes
<1>7. ~WholeExits
  BY <1>1, BookFacts DEF UnderWay, Flattening, WholeExits
<1>. QED
  BY <1>1, <1>6, <1>7, BookGoesOn DEF Between

-----------------------------------------------------------------------------
(* The broker, and the invariant *)

LEMMA BookStays ==
  ASSUME BookInv, Kept, UNCHANGED <<rec, copy, pc, rows, seen, spent>>
  PROVE  BookInv'
<1>1. Goes(rec) /\ Goes(copy)
  BY RecGoes
<1>2. /\ RowsAreKnown' /\ (Flattening' => "flatten" \in spent')
      /\ rows' \in Seq(Source \X Nat) /\ seen' \in [filled : Int, over : BOOLEAN]
      /\ WholeExits' = WholeExits
  <2>1. RowsAreKnown /\ (Flattening => "flatten" \in spent)
        /\ rows \in Seq(Source \X Nat) /\ seen \in [filled : Int, over : BOOLEAN]
    BY BookFacts DEF Booking, UnderWay
  <2>2. /\ Reconciling' = Reconciling /\ Walking' = Walking /\ Flattening' = Flattening
        /\ KnownRows(copy)' = KnownRows(copy)
    BY DEF Reconciling, Walking, Flattening, KnownRows
  <2>3. RowsAreKnown'
    BY <2>1, <2>2 DEF RowsAreKnown
  <2>. QED
    BY <2>1, <2>2, <2>3 DEF WholeExits, Kept
<1> DEFINE q == copy
<1> DEFINE p == rec
<1>3. /\ copy' = q /\ Goes(q) /\ rec' = p /\ Goes(p)
      /\ pc' = "attachStop" => /\ AwaitsFills(q)
                               /\ q.covered < seen'.filled /\ seen'.filled = q.filled
      /\ pc' = "tpClose" => "tp" \in q.active
      /\ pc' = "smartClose" => Booked(q) < q.filled
      /\ WholeExits' => /\ Guarded(p)
                        /\ pc' \notin {"tpClose", "smartClose"} => Guarded(q)
  BY <1>1, <1>2, BookFacts DEF UnderWay, Guards
<1> HIDE DEF p, q
<1>. QED
  BY <1>2, <1>3, BookNext

LEMMA BookBroker ==
  ASSUME BookInv, Broker \/ UNCHANGED vars
  PROVE  BookInv'
<1>1. UNCHANGED <<env, rec, copy, pc, rows, seen, spent>>
  BY DEF Broker, EntryFills, EntryEnds, SellFills, SellRejected, CancelTakesEffect, vars
<1>2. entry \in [filled : 0 .. Qty, working : BOOLEAN] /\ entry.filled \in 0 .. Qty
  BY BookFacts
<1>3. CASE EntryFills
  <2>1. PICK k \in Amounts(Qty - entry.filled, "entry") :
          entry' = [filled |-> entry.filled + k, working |-> entry.filled + k < Qty]
    BY <1>3 DEF EntryFills
  <2>2. k \in Nat /\ entry.filled + k \in 0 .. Qty
    BY <1>2, ExitAssumption DEF Amounts
  <2>3. entry' \in [filled : 0 .. Qty, working : BOOLEAN] /\ entry.filled <= entry'.filled
    BY <1>2, <2>1, <2>2
  <2>4. Kept
    BY <1>1, <1>3, <2>3, SameKept DEF EntryFills
  <2>. QED
    BY <1>1, <2>4, BookStays
<1>4. CASE EntryEnds
  <2>1. entry' \in [filled : 0 .. Qty, working : BOOLEAN] /\ entry.filled <= entry'.filled
    <3>1. entry' = [entry EXCEPT !.working = FALSE] /\ entry.filled <= entry.filled
      BY <1>2, <1>4, ExitAssumption DEF EntryEnds
    <3>. QED
      BY ONLY <1>2, <3>1
  <2>2. Kept
    BY <1>1, <1>4, <2>1, SameKept DEF EntryEnds
  <2>. QED
    BY <1>1, <2>2, BookStays
<1>5. CASE \E i \in DOMAIN sells : SellFills(i) \/ SellRejected(i) \/ CancelTakesEffect(i)
  <2>1. PICK i \in DOMAIN sells : SellFills(i) \/ SellRejected(i) \/ CancelTakesEffect(i)
    BY <1>5
  <2>2. entry' = entry
    BY <2>1 DEF SellFills, SellRejected, CancelTakesEffect
  <2>3. Kept
    BY <1>1, <2>1, <2>2, BrokerKept
  <2>. QED
    BY <1>1, <2>3, BookStays
<1>6. CASE UNCHANGED vars
  <2>1. entry' = entry /\ sells' = sells
    BY <1>6 DEF vars
  <2>2. Kept
    BY <1>1, <2>1, SameEntry, SameKept
  <2>. QED
    BY <1>1, <2>2, BookStays
<1>. QED
  BY <1>3, <1>4, <1>5, <1>6 DEF Broker

LEMMA BookWorking ==
  ASSUME BookInv, Working
  PROVE  BookInv'
<1>1. CASE AttachNotNeeded \/ AttachLookFails \/ AttachStopFails \/ StopIdle \/ RowsDone
  BY <1>1, BookStepsKeepingCopy
<1>2. CASE AttachLook \/ AttachStop \/ AttachUnsupported
  BY <1>2, BookAttachLook, BookAttachStop, BookAttachUnsupported
<1>3. CASE StopWatches \/ StopFires \/ StopFireFails
  BY <1>3, BookStopWatches, BookStopFires, BookStopFireFails
<1>4. CASE TakeProfitIdle \/ TakeProfitCancelsStops \/ TakeProfitKeepsStops
             \/ TakeProfitCloses \/ TakeProfitCloseFails
  BY <1>4, BookIdles, BookTakesStopsAway, BookKeepsStops, BookTakeProfitCloses,
     BookTakeProfitCloseFails
<1>5. CASE SmartIdle \/ SmartCancelsStops \/ SmartKeepsStops \/ SmartCloses \/ SmartCloseFails
  BY <1>5, BookIdles, BookTakesStopsAway, BookKeepsStops, BookSmartCloses, BookSmartCloseFails
<1>6. CASE CollectRows \/ ReconcileRow \/ ReconcileFails
  BY <1>6, BookCollectRows, BookReconcileRow, BookKeepsRow
<1>7. CASE EscalateCancels \/ EscalateCancelFails \/ EscalateSeesFill \/ EscalateSeesNoFill
             \/ EscalateCloses \/ EscalateCloseFails
  BY <1>7, BookKeepsRow, BookEscalateSeesFill, BookEscalateCloses
<1>8. CASE Persist
  BY <1>8, BookPersist
<1>9. CASE FlattenCancels \/ FlattenLook \/ FlattenLookFails \/ FlattenCloses
             \/ FlattenClosesNothing
  BY <1>9, BookFlattenLooks, BookReads, BookFlattenCloses
<1>. QED
  BY <1>1, <1>2, <1>3, <1>4, <1>5, <1>6, <1>7, <1>8, <1>9 DEF Working

LEMMA BookNextKeeps ==
  ASSUME BookInv, [Next]_vars
  PROVE  BookInv'
<1>1. CASE BeginPass \/ BeginFlatten \/ Crash
  BY <1>1, BookReads
<1>2. CASE Working
  BY <1>2, BookWorking
<1>3. CASE Broker \/ UNCHANGED vars
  BY <1>3, BookBroker
<1>. QED
  BY <1>1, <1>2, <1>3 DEF Next

LEMMA BookInit ==
  ASSUME Init
  PROVE  BookInv
<1>1. /\ entry = [filled |-> 0, working |-> TRUE] /\ sells = <<>> /\ rec = NewRecord
      /\ copy = NewRecord /\ pc = "idle" /\ rows = <<>> /\ seen = NothingSeen
  BY DEF Init
<1>2. DOMAIN sells = {} /\ sells \in Seq(SellOrder)
  BY <1>1
<1>3. /\ NewRecord \in Record /\ Sound(NewRecord)
      /\ Booked(NewRecord) = 0 /\ NewRecord.targets = <<>>
  BY <1>1, NewRecordSound
<1>4. Ordered(NewRecord)
  <2>1. \A s \in Source : NewRecord.order[s] = 0
    BY DEF NewRecord
  <2>. QED
    BY <1>3, <2>1 DEF Ordered
<1>5. Armed(NewRecord)
  <2>1. NewRecord.active \cap {"stop", "tp"} = {}
    BY DEF NewRecord
  <2>. QED
    BY <2>1 DEF Armed
<1>6. Holds(copy) /\ Holds(rec)
  BY <1>1, <1>3, <1>4, <1>5 DEF Holds
<1>7. entry \in [filled : 0 .. Qty, working : BOOLEAN] /\ seen \in [filled : Int, over : BOOLEAN]
  BY <1>1, ExitAssumption DEF NothingSeen
<1>8. ~Reconciling /\ ~Walking /\ ~Flattening /\ pc = "idle"
  BY <1>1 DEF Reconciling, Walking, Flattening
<1>9. Booking
  BY <1>1, <1>2, <1>6, <1>7, <1>8 DEF Booking, Holds, RowsAreKnown
<1>10. Filling /\ UnderWay
  BY <1>2, <1>8 DEF Filling, UnderWay
<1>11. Guarded(rec) /\ Guarded(copy)
  BY <1>1, <1>3 DEF Guarded, NewRecord
<1>. QED
  BY <1>6, <1>9, <1>10, <1>11 DEF BookInv, Guards

LEMMA BookInvIsInvariant == Spec => []BookInv
<1>1. Init => BookInv
  BY BookInit
<1>2. BookInv /\ [Next]_vars => BookInv'
  BY BookNextKeeps
<1>. QED
  BY <1>1, <1>2, PTL DEF Spec

LEMMA ArmedHasContracts ==
  ASSUME BookInv
  PROVE  ArmedProtectionHasContracts
<1>1. ASSUME "stop" \in copy.active PROVE StopQuantity > 0
  BY <1>1, BookedStop, ExitAssumption
<1>2. ASSUME "tp" \in copy.active PROVE Pending(copy) # {} /\ CloseQuantity > 0
  <2>1. Pending(copy) # {}
    BY <1>2, BookFacts DEF Armed
  <2>2. CloseQuantity \in 1 .. Qty
    BY <1>2, <2>1, BookFacts, NextTargetIs
  <2>. QED
    BY <2>1, <2>2, ExitAssumption
<1>. QED
  BY <1>1, <1>2 DEF ArmedProtectionHasContracts

-----------------------------------------------------------------------------
(* Stops that are relied upon.  Until the user flattens, the stops a record lists
   are orders of the broker, and as long as its status is the entry's they still
   claim all that it holds to be covered. *)

StopsHold ==
    "flatten" \notin spent =>
        /\ copy.stops \subseteq DOMAIN sells
        /\ copy.of = "entry" => copy.covered <= ByStops

(* What a step may do to the record without a look at the orders *)
Abides(q) ==
    /\ q.stops \subseteq copy.stops
    /\ q.of = "entry" => copy.of = "entry" /\ q.covered = copy.covered

LEMMA NearAbides ==
  ASSUME NEW q, Near(copy, q), q.of = "entry" => copy.of = "entry"
  PROVE  Abides(q)
BY DEF Near, Abides

LEMMA MarksAbides ==
  ASSUME NEW q, Marks(copy, q)
  PROVE  Abides(q)
BY DEF Marks, Abides

LEMMA StopsAbide ==
  ASSUME ExitInv, ExitInv', StopsHold, NEW q, copy' = q, Abides(q),
         DOMAIN sells \subseteq DOMAIN sells', ByStops <= ByStops', spent \subseteq spent'
  PROVE  StopsHold'
<1>1. ByStops \in Nat /\ ByStops' \in Nat
  <2>1. Whole /\ Whole'
    BY DEF ExitInv, Types
  <2>. QED
    BY <2>1, ClaimTypes, ClaimTypesNext
<1>2. copy.covered \in Nat
  BY Facts, Quantities
<1> SUFFICES ASSUME "flatten" \notin spent'
             PROVE  /\ q.stops \subseteq DOMAIN sells'
                    /\ q.of = "entry" => q.covered <= ByStops'
  BY DEF StopsHold
<1>3. copy.stops \subseteq DOMAIN sells /\ (copy.of = "entry" => copy.covered <= ByStops)
  BY DEF StopsHold
<1>4. q.stops \subseteq DOMAIN sells'
  BY <1>3 DEF Abides
<1>5. q.of = "entry" => q.covered <= ByStops'
  <2> DEFINE b == ByStops'
  <2>1. b \in Nat /\ ByStops <= b
    BY <1>1
  <2> HIDE DEF b
  <2>2. q.of = "entry" => q.covered <= b
    BY <1>1, <1>2, <1>3, <2>1 DEF Abides
  <2>. QED
    BY <2>2 DEF b
<1>. QED
  BY <1>4, <1>5

(* The orders are those that were. *)
LEMMA StopsStand ==
  ASSUME ExitInv, ExitInv', StopsHold, NEW q, copy' = q, Abides(q), sells' = sells,
         spent \subseteq spent'
  PROVE  StopsHold'
<1>1. ByStops' = ByStops /\ ByStops \in Nat /\ DOMAIN sells \subseteq DOMAIN sells'
  BY SameOrdersClaim, Facts
<1>2. ByStops <= ByStops'
  BY <1>1
<1>. QED
  BY <1>1, <1>2, StopsAbide

(* One more exit rests at the broker. *)
LEMMA StopsBesideExit ==
  ASSUME ExitInv, ExitInv', StopsHold, NEW q, copy' = q, Abides(q),
         NEW kind \in {"limit", "market"}, NEW qty \in 1 .. Qty, Submit(kind, qty),
         spent \subseteq spent'
  PROVE  StopsHold'
<1>1. /\ ByStops' = ByStops + 0 /\ ByStops \in Nat /\ DOMAIN sells \subseteq DOMAIN sells'
  BY SubmitAdds, Facts
<1>2. ByStops <= ByStops'
  BY <1>1
<1>. QED
  BY <1>1, <1>2, StopsAbide

(* No stop that was at work, or has filled, is lost. *)
LEMMA StopsKept ==
  ASSUME ExitInv, ExitInv', StopsHold, copy' = copy, spent \subseteq spent', Lapse,
         \A i \in DOMAIN sells : sells[i].kind = "stop" /\ Live(sells[i]) => Live(sells'[i])
  PROVE  StopsHold'
<1> DEFINE e == StopClaims'
<1>1. \A i \in DOMAIN sells : e[i] \in Nat /\ StopClaims[i] \in Nat /\ StopClaims[i] <= e[i]
  <2>1. \A i \in DOMAIN sells : StopClaims[i] \in Nat
    BY Facts, ClaimValues
  <2>2. \A i \in DOMAIN sells : e[i] = StopClaims[i]
    BY DEF Lapse, StopClaims
  <2>. QED
    BY <2>1, <2>2
<1>2. IsFiniteSet(DOMAIN sells) /\ DOMAIN sells' = DOMAIN sells
  BY OrdersFinite, Facts DEF Whole, Lapse
<1>3. ByStops' = SumOf(e, DOMAIN sells)
  BY <1>2 DEF ByStops
<1> HIDE DEF e
<1>4. SumOf(StopClaims, DOMAIN sells) <= SumOf(e, DOMAIN sells)
  BY <1>1, <1>2, SumGrows
<1>5. ByStops <= ByStops'
  BY <1>3, <1>4 DEF ByStops
<1> DEFINE q == copy
<1>6. Abides(q) /\ copy' = q
  BY DEF Abides
<1> HIDE DEF q
<1>. QED
  BY <1>2, <1>5, <1>6, StopsAbide

LEMMA SameCopyAbides == Abides(copy)
BY DEF Abides

LEMMA StopsWhereNothingIsSent ==
  ASSUME ExitInv, ExitInv', StopsHold,
         BeginPass \/ AttachNotNeeded \/ AttachLookFails \/ AttachStopFails \/ StopIdle
           \/ TakeProfitIdle \/ RowsDone \/ CollectRows \/ ReconcileFails \/ EscalateCancelFails
           \/ EscalateSeesNoFill \/ EscalateCloseFails \/ Persist
  PROVE  StopsHold'
<1>1. copy' = copy
  BY NoOutage, Facts DEF BeginPass, AttachNotNeeded, AttachLookFails, AttachStopFails, StopIdle,
     TakeProfitIdle, RowsDone, CollectRows, ReconcileFails, EscalateCancelFails,
     EscalateSeesNoFill, EscalateCloseFails, Persist, ExitInv, Midway
<1>2. sells' = sells /\ spent' = spent
  BY DEF BeginPass, AttachNotNeeded, AttachLookFails, AttachStopFails, StopIdle,
     TakeProfitIdle, RowsDone, CollectRows, ReconcileFails, EscalateCancelFails,
     EscalateSeesNoFill, EscalateCloseFails, Persist, ExitInv, Types, Tame, SubmitLost
<1> DEFINE q == copy
<1>3. copy' = q /\ Abides(q)
  BY <1>1, SameCopyAbides
<1> HIDE DEF q
<1>. QED
  BY <1>2, <1>3, StopsStand

LEMMA StopsWhenLooking ==
  ASSUME ExitInv, ExitInv', BookInv, StopsHold, AttachLook
  PROVE  StopsHold'
<1>1. sells' = sells /\ spent' = spent /\ AwaitsFills(copy) /\ copy \in Record
  BY Facts DEF AttachLook, WaitsForFills
<1> DEFINE q == copy'
<1>2. q.stops = copy.stops /\ q.covered = copy.covered
  <2> DEFINE n == Max({copy.filled, entry.filled})
  <2>1. CASE copy' = [copy EXCEPT !.filled = n]
    <3> HIDE DEF n
    <3>. QED
      BY <1>1, <2>1 DEF Record
  <2>2. CASE copy' = Status(copy, "entry", "unfilled")
    BY <1>1, <2>2 DEF Record, Status
  <2>3. CASE copy' = copy
    BY <2>3
  <2> HIDE DEF q
  <2>. QED
    BY <2>1, <2>2, <2>3 DEF AttachLook
<1>3. Abides(q)
  BY <1>1, <1>2 DEF Abides, AwaitsFills
<1>4. copy' = q
  OBVIOUS
<1> HIDE DEF q
<1>. QED
  BY <1>1, <1>3, <1>4, StopsStand

LEMMA StopsOfSoftware ==
  ASSUME ExitInv, ExitInv', BookInv, StopsHold, AttachUnsupported
  PROVE  StopsHold'
<1> DEFINE q == Status(ArmTakeProfit(ArmStop(copy, copy.filled)), "entry", "unsupported")
<1>1. /\ sells' = sells /\ spent' = spent /\ copy' = q /\ AwaitsFills(copy) /\ copy.filled > 0
  BY FillsAreNew DEF AttachUnsupported
<1>2. q.stops = copy.stops /\ q.covered = copy.covered
  BY <1>1, Facts, SoftwareTakesOver
<1> HIDE DEF q
<1>3. Abides(q)
  BY <1>1, <1>2 DEF Abides, AwaitsFills
<1>. QED
  BY <1>1, <1>3, StopsStand

(* A stop that is attached covers what it is recorded to. *)
LEMMA StopsAttached ==
  ASSUME ExitInv, ExitInv', BookInv, StopsHold, AttachStop
  PROVE  StopsHold'
<1>1. /\ pc = "attachStop" /\ Submit("stop", Uncovered) /\ spent' = spent
  BY DEF AttachStop
<1>2. /\ AwaitsFills(copy) /\ Uncovered \in 1 .. Qty
      /\ copy.covered + Uncovered = copy.filled /\ copy.filled \in Nat
  BY <1>1, FillsAreNew, BookFacts
<1>3. /\ NewId \in Nat /\ DOMAIN sells' = DOMAIN sells \cup {NewId}
      /\ ByStops' = ByStops + Uncovered
  BY <1>1, <1>2, Facts, SubmitAdds
<1> DEFINE id == NewId
<1> DEFINE more == Uncovered
<1> DEFINE r == ArmTakeProfit(WithStop(copy, id, more))
<1> DEFINE is == IF r.covered >= Qty \/ seen.over THEN "attached" ELSE "partial"
<1> DEFINE q == StopAttached(copy, id, more, is)
<1>4. copy' = q
  BY DEF AttachStop, StopAttached, WithStop
<1>5. q.covered = copy.covered + more /\ q.stops = copy.stops \cup {id}
  <2>1. /\ id \in Nat /\ more \in 1 .. Qty /\ copy.covered + more <= copy.filled
        /\ is \in {"attached", "partial"}
    BY <1>2, <1>3
  <2>2. copy \in Record /\ Sound(copy)
    BY Facts
  <2>3. q = StopAttached(copy, id, more, is)
    OBVIOUS
  <2> HIDE DEF id, more, is, q
  <2>. QED
    BY ONLY <1>2, <2>1, <2>2, <2>3, StopIsAttached
<1> HIDE DEF q
<1> SUFFICES ASSUME "flatten" \notin spent'
             PROVE  /\ q.stops \subseteq DOMAIN sells'
                    /\ q.covered <= ByStops'
  BY <1>4 DEF StopsHold
<1>6. copy.stops \subseteq DOMAIN sells /\ copy.covered <= ByStops
  BY <1>1, <1>2 DEF StopsHold, AwaitsFills
<1>7. q.covered <= ByStops'
  <2>1. ByStops \in Nat /\ copy.covered \in Nat /\ more \in Nat /\ ByStops' = ByStops + more
    BY <1>2, <1>3, Facts, Quantities, ExitAssumption
  <2> DEFINE b == ByStops'
  <2>2. b = ByStops + more
    BY <2>1
  <2> HIDE DEF b, more
  <2>3. q.covered <= b
    BY ONLY <1>5, <1>6, <2>1, <2>2
  <2>. QED
    BY <2>3 DEF b
<1>. QED
  BY <1>3, <1>5, <1>6, <1>7

(* An exit is tried or given up: the stops are as they were. *)
LEMMA StopsWhenRetried ==
  ASSUME ExitInv, ExitInv', StopsHold, sells' = sells, spent' = spent,
         NEW b, Near(copy, b), NEW s \in Software, NEW q, Kin(Retry(b, s), q),
         q.of = s, copy' = q
  PROVE  StopsHold'
<1>1. Near(copy, q) /\ q.of # "entry"
  <2>1. Kin(b, Retry(b, s))
    BY RetryKin DEF Near
  <2>. QED
    BY <2>1, NearKin, KinKin DEF Software
<1>2. Abides(q)
  BY <1>1, NearAbides
<1>. QED
  BY <1>2, StopsStand

LEMMA StopsWhenWatched ==
  ASSUME ExitInv, ExitInv', BookInv, StopsHold, StopWatches
  PROVE  StopsHold'
<1> DEFINE b == CASE quote = "low" -> copy.breach + 1
                  [] quote = "none" -> copy.breach
                  [] OTHER -> 0
<1> DEFINE q == Watched(copy, StopQuantity, b)
<1>1. /\ "stop" \in copy.active /\ sells' = sells /\ spent' = spent
      /\ quote = "low" => copy.breach + 1 < Confirm
  BY DEF StopWatches
<1>2. copy' = q
  <2>1. AsksQuote(copy, "stop") = copy
    BY NoOutage
  <2>. QED
    BY <2>1 DEF StopWatches, Watched
<1>3. copy \in Record /\ copy.breach \in 0 .. Confirm /\ Confirm \in Nat
  BY Facts, RecordFields, ExitAssumption
<1>4. b \in 0 .. Confirm
  BY ONLY <1>1, <1>3
<1> HIDE DEF b
<1>5. StopQuantity \in 0 .. Qty
  BY <1>1, BookedStop
<1>6. Kin(copy, q) /\ q.of = copy.of
  BY <1>3, <1>4, <1>5, WatchedKin
<1> HIDE DEF q
<1>7. Abides(q)
  BY <1>6, KinNear, NearAbides
<1>. QED
  BY <1>1, <1>2, <1>7, StopsStand

LEMMA StopsWhenExitFails ==
  ASSUME ExitInv, ExitInv', BookInv, StopsHold,
         StopFireFails \/ TakeProfitCloseFails \/ SmartCloseFails
  PROVE  StopsHold'
<1>1. sells' = sells /\ spent' = spent
  BY DEF StopFireFails, TakeProfitCloseFails, SmartCloseFails, SubmitLost, ExitInv, Types, Tame
<1>2. copy \in Record
  BY Facts
<1>3. CASE StopFireFails
  <2> DEFINE b == Reset(copy, StopQuantity)
  <2> DEFINE q == Retry(b, "stop")
  <2>1. "stop" \in copy.active
    BY <1>3 DEF StopFireFails, Breached
  <2>2. copy' = q
    <3>1. AsksQuote(copy, "stop") = copy
      BY NoOutage
    <3>. QED
      BY <1>3, <3>1 DEF StopFireFails, Reset
  <2>3. StopQuantity \in 0 .. Qty
    BY <2>1, BookedStop
  <2>4. Near(copy, b)
    BY <1>2, <2>3, ResetKin, KinNear
  <2> HIDE DEF b
  <2>5. q.of = "stop" /\ Kin(b, q) /\ "stop" \in Software
    BY <2>4, RetryKin DEF Near, Software
  <2> HIDE DEF q
  <2>6. Near(copy, q) /\ q.of # "entry"
    BY <2>4, <2>5, NearKin
  <2>7. Abides(q)
    BY <2>6, NearAbides
  <2>. QED
    BY <1>1, <2>2, <2>7, StopsStand
<1>4. CASE SmartCloseFails
  <2> DEFINE q == Retry(copy, "smart")
  <2>1. copy' = q
    <3>1. NoAlert(copy) = copy
      BY Facts, NoAlertKin
    <3>. QED
      BY <1>4, <3>1 DEF SmartCloseFails
  <2>2. q.of = "smart" /\ Near(copy, q)
    BY <1>2, RetryKin, KinNear DEF Software
  <2> HIDE DEF q
  <2>3. Abides(q)
    BY <2>2, NearAbides
  <2>. QED
    BY <1>1, <2>1, <2>3, StopsStand
<1>5. CASE TakeProfitCloseFails
  <2> DEFINE r == Retry(copy, "tp")
  <2> DEFINE n == RemainingOpen(r)
  <2> DEFINE q == ArmStop(r, n)
  <2>1. copy' = r \/ (copy' = q /\ n > 0)
    BY <1>5 DEF TakeProfitCloseFails
  <2>2. pc = "tpClose" /\ "tp" \in copy.active /\ copy.filled > 0
    BY <1>5, BookFacts DEF TakeProfitCloseFails, UnderWay, Sound
  <2>3. /\ Near(copy, r) /\ r.of = "tp" /\ r \in Record
    BY <1>2, RetryKin, KinNear DEF Software, Near
  <2>4. n \in 0 .. Qty
    <3>1. Booked(r) = Booked(copy) /\ r.filled = copy.filled
      BY <2>3, NearBooked DEF Near
    <3>2. r.filled \in 0 .. Qty /\ Booked(r) \in Nat /\ r.filled \in Nat
      BY <2>3, RecordFields, Quantities
    <3>3. RemainingOpen(r) = r.filled - Booked(r) /\ Booked(r) <= r.filled
      <4>1. Sound(copy)
        BY Facts
      <4>2. (\A s \in Source : r.closed[s] <= r.submitted[s]) /\ Booked(r) <= r.filled
        BY <2>3, <3>1, <4>1 DEF Sound, Near
      <4>. QED
        BY <2>2, <2>3, <3>1, <4>2, RemainingIs
    <3>. QED
      BY <3>2, <3>3, ExitAssumption
  <2> HIDE DEF n, r
  <2>5. Near(r, q) /\ q.of = r.of
    BY <2>3, <2>4, ArmStopKin, KinNear
  <2> HIDE DEF q
  <2>6. Near(copy, q) /\ q.of = "tp"
    BY <2>3, <2>5 DEF Near
  <2>7. Abides(q) /\ Abides(r)
    BY <2>3, <2>6, NearAbides
  <2>. QED
    BY <1>1, <2>1, <2>7, StopsStand
<1>. QED
  BY <1>3, <1>4, <1>5

LEMMA StopsWhenIdle ==
  ASSUME ExitInv, ExitInv', StopsHold, SmartIdle
  PROVE  StopsHold'
<1> DEFINE b == Activate(copy, "smart", FALSE)
<1>1. sells' = sells /\ spent' = spent /\ copy \in Record /\ copy' \in {copy, b}
  BY Facts DEF SmartIdle
<1>2. Near(copy, b) /\ b.of = copy.of
  BY <1>1, ActivateKin, KinNear DEF Software
<1> HIDE DEF b
<1>3. Abides(b) /\ Abides(copy)
  BY <1>2, NearAbides, SameCopyAbides
<1>4. PICK q \in {copy, b} : copy' = q
  BY <1>1
<1>5. Abides(q)
  BY <1>3, <1>4
<1>. QED
  BY <1>1, <1>4, <1>5, StopsStand

(* An exit that has gone out no longer has the status of the entry. *)
LEMMA StopsWhenExitGoes ==
  ASSUME ExitInv, ExitInv', BookInv, StopsHold, StopFires \/ SmartCloses \/ TakeProfitCloses
  PROVE  StopsHold'
<1>0. spent' = spent
  BY DEF StopFires, SmartCloses, TakeProfitCloses
<1>1. CASE StopFires
  <2> DEFINE qty == StopQuantity
  <2> DEFINE a == Reset(copy, 0)
  <2> DEFINE b == Activate(a, "stop", FALSE)
  <2> DEFINE r == Submitted(b, "stop", qty)
  <2> DEFINE q == Only(r, r.active \ {"tp", "smart"})
  <2>1. "stop" \in copy.active /\ Submit("market", qty)
    BY <1>1 DEF StopFires, Breached
  <2>2. copy' = WithoutRest(r, {"tp", "smart"})
    <3>1. AsksQuote(copy, "stop") = copy
      BY NoOutage
    <3>. QED
      BY <1>1, <3>1 DEF StopFires, Reset
  <2>3. /\ qty = copy.filled - Booked(copy) /\ qty \in 1 .. Qty /\ copy.filled > 0 /\ qty > 0
    BY <2>1, BookedStop, ExitAssumption
  <2>4. Near(copy, b)
    <3>1. copy \in Record /\ 0 \in 0 .. Qty
      BY Facts, ExitAssumption
    <3>2. Kin(copy, a)
      BY <3>1, ResetKin
    <3> HIDE DEF a
    <3>3. Kin(a, b)
      BY <3>2, ActivateKin DEF Kin, Software
    <3> HIDE DEF b
    <3>. QED
      BY <3>2, <3>3, KinKin, KinNear
  <2> HIDE DEF b, qty, r
  <2>5. /\ r \in Record /\ RemainingOpen(r) = 0 /\ r.of = "stop" /\ SentAs(b, "stop", qty, r)
    BY <2>3, <2>4, BookFacts, TheRestIsSent DEF r
  <2>6. copy' = q
    BY <2>2, <2>5 DEF WithoutRest, Only
  <2>7. q.of = "stop" /\ q.stops = r.stops
    <3>1. r.active \ {"tp", "smart"} \in SUBSET Software
      BY <2>5, RecordFields
    <3>. QED
      BY <2>5, <3>1, OnlyKin DEF Kin
  <2> HIDE DEF q
  <2>8. Abides(q)
    BY <2>4, <2>5, <2>7 DEF Abides, SentAs, Near
  <2>. QED
    BY <1>0, <2>1, <2>3, <2>6, <2>8, StopsBesideExit
<1>2. CASE SmartCloses
  <2> DEFINE n == RemainingOpen(copy)
  <2> DEFINE r == Submitted(copy, "smart", n)
  <2> DEFINE m == IF "stop" \in r.active THEN 0 ELSE r.stopQty
  <2> DEFINE q == Off(r, m)
  <2>1. pc = "smartClose" /\ Submit("market", n)
    BY <1>2 DEF SmartCloses
  <2>2. copy' = q
    <3>1. NoAlert(copy) = copy
      BY Facts, NoAlertKin
    <3>. QED
      BY <1>2, <3>1 DEF SmartCloses, Off
  <2>3. n = copy.filled - Booked(copy) /\ n > 0 /\ n \in 1 .. Qty /\ copy.filled > 0
    BY <2>1, OpenRest
  <2>4. Near(copy, copy)
    BY Facts DEF Near
  <2> DEFINE b == copy
  <2>5. Near(copy, b) /\ r = Submitted(b, "smart", n)
    BY <2>4
  <2> HIDE DEF n, b, r
  <2>6. r \in Record /\ r.of = "smart" /\ SentAs(b, "smart", n, r)
    BY <2>3, <2>5, BookFacts, TheRestIsSent
  <2>7. m \in 0 .. Qty
    BY <2>6, RecordFields, ExitAssumption
  <2> HIDE DEF m
  <2>8. q.of = "smart" /\ q.stops = r.stops
    BY <2>6, <2>7, OffKin DEF Kin
  <2> HIDE DEF q
  <2>9. Abides(q)
    BY <2>5, <2>6, <2>8 DEF Abides, SentAs, Near
  <2>. QED
    BY <1>0, <2>1, <2>2, <2>3, <2>9, StopsBesideExit
<1>3. CASE TakeProfitCloses
  <2> DEFINE n == CloseQuantity
  <2> DEFINE t(kind) == TargetSent(copy, NextTarget, kind)
  <2> DEFINE r(kind) == Submitted(t(kind), "tp", copy.submitted["tp"] + n)
  <2> DEFINE a(kind) == Activate(r(kind), "tp", Pending(r(kind)) # {})
  <2> DEFINE b(kind) == StopForTheRest(a(kind), n)
  <2> DEFINE q(kind) == WithoutRest(b(kind), {"smart"})
  <2>1. pc = "tpClose" /\ \E kind \in CloseKinds(0) : Submit(kind, n) /\ copy' = q(kind)
    BY <1>3 DEF TakeProfitCloses
  <2>2. PICK kind \in {"limit", "market"} : Submit(kind, n) /\ copy' = q(kind)
    BY <2>1 DEF CloseKinds
  <2>3. "tp" \in copy.active /\ Pending(copy) # {} /\ Booking
    BY <2>1, BookFacts DEF UnderWay, Armed
  <2> DEFINE p == q(kind)
  <2>4. p.of = "tp" /\ p.stops = copy.stops /\ n \in 1 .. Qty
    BY <2>3, TargetCloseSound
  <2>5. copy' = p /\ Submit(kind, n)
    BY <2>2
  <2> HIDE DEF p, q, n
  <2>6. Abides(p)
    BY <2>4 DEF Abides
  <2>. QED
    BY <1>0, <2>4, <2>5, <2>6, StopsBesideExit
<1>. QED
  BY <1>1, <1>2, <1>3

LEMMA StopsWhenSentAgain ==
  ASSUME ExitInv, ExitInv', BookInv, StopsHold, EscalateCloses
  PROVE  StopsHold'
<1> DEFINE w == Head(rows)
<1> DEFINE n == QtyOf(w)
<1>1. pc = "escalateClose" /\ spent' = spent /\ Walking
  BY DEF EscalateCloses, Walking
<1>2. PICK kind \in {"limit", "market"} :
        Submit(kind, n) /\ copy' = Resent(copy, w[2], NewId, kind = "limit")
  BY DEF EscalateCloses, CloseKinds, Resent
<1>3. Reconciling /\ rows # <<>> /\ w[1] = "tp" /\ Booking
  BY <1>1, WalkingFacts, ExitBooking
<1>4. n \in 1 .. Qty
  BY <1>3, TargetRowIs
<1> DEFINE q == Resent(copy, w[2], NewId, kind = "limit")
<1>5. IsResent(q, copy, w[2], NewId)
  <2> DEFINE rests == kind = "limit"
  <2>1. rests \in BOOLEAN /\ q = Resent(copy, w[2], NewId, rests)
    OBVIOUS
  <2> HIDE DEF rests, q
  <2>. QED
    BY <1>3, <2>1, ResentSound
<1>6. copy' = q /\ Submit(kind, n)
  BY <1>2
<1> HIDE DEF q, n, w
<1>7. Abides(q)
  BY <1>5 DEF IsResent, Abides
<1>. QED
  BY <1>1, <1>4, <1>6, <1>7, StopsBesideExit

LEMMA StopsWhenReconciled ==
  ASSUME ExitInv, ExitInv', BookInv, StopsHold, ReconcileRow \/ EscalateSeesFill
  PROVE  StopsHold'
<1> DEFINE w == Head(rows)
<1> DEFINE o == sells[OrderOf(w)]
<1> DEFINE n == IF o.filled = 0 THEN QtyOf(w) ELSE o.filled
<1>1. sells' = sells /\ spent' = spent
  BY DEF ReconcileRow, EscalateSeesFill
<1>2. Reconciling /\ rows # <<>> /\ Booking
  BY WalkingFacts, ExitBooking DEF ReconcileRow, EscalateSeesFill, Reconciling, Walking
<1>3. /\ o.filled \in Nat /\ o.filled <= QtyOf(w) /\ QtyOf(w) \in Nat
  BY <1>2, RowOfOrder
<1>4. copy' \in {MarkFilled(w, n), MarkFilled(w, o.filled), MarkFailed(w),
                 MarkPartial(w, o.filled), copy}
  BY DEF ReconcileRow, EscalateSeesFill
<1>5. n \in Nat /\ n <= QtyOf(w)
  BY <1>3
<1> DEFINE m == o.filled
<1>6. m \in Nat /\ m <= QtyOf(w)
  BY <1>3
<1> DEFINE all == {MarkFilled(w, n), MarkFilled(w, m), MarkFailed(w), MarkPartial(w, m), copy}
<1>7. copy' \in all
  BY <1>4
<1> HIDE DEF n, m, o
<1>8. \A q \in all : Abides(q)
  <2>1. Marks(copy, MarkFilled(w, n)) /\ Marks(copy, MarkFilled(w, m))
    BY <1>2, <1>5, <1>6, MarkFilledMarks
  <2>2. Marks(copy, MarkFailed(w)) /\ Marks(copy, MarkPartial(w, m))
    BY <1>2, <1>6, MarkFailedMarks, MarkPartialMarks
  <2>3. Abides(MarkFilled(w, n)) /\ Abides(MarkFilled(w, m))
    BY <2>1, MarksAbides
  <2>4. Abides(MarkFailed(w)) /\ Abides(MarkPartial(w, m))
    BY <2>2, MarksAbides
  <2> HIDE DEF w
  <2>. QED
    BY <2>3, <2>4, SameCopyAbides
<1> HIDE DEF all
<1>9. PICK q \in all : copy' = q
  BY <1>7
<1>10. Abides(q)
  BY <1>8, <1>9
<1>. QED
  BY <1>1, <1>9, <1>10, StopsStand

(* Only a limit is taken away to be sent again. *)
LEMMA StopsWhenEscalating ==
  ASSUME ExitInv, ExitInv', StopsHold, EscalateCancels
  PROVE  StopsHold'
<1> DEFINE w == Head(rows)
<1> DEFINE k == OrderOf(w)
<1>1. pc = "escalate" /\ sells' = Cancel({k}) /\ copy' = copy /\ spent' = spent
  BY DEF EscalateCancels
<1>2. Reconciling /\ rows # <<>> /\ w[1] = "tp" /\ Booking
  BY <1>1, WalkingFacts, ExitBooking
<1>3. sells[k].kind # "stop"
  BY <1>2, TargetRowIs, Facts DEF ExitsAreKnown, Fits
<1> HIDE DEF k, w
<1>4. /\ Lapse /\ \A i \in DOMAIN sells : i # k => sells'[i] = sells[i]
  <2> DEFINE ids == {k}
  <2>1. sells' = Cancel(ids) /\ \A i : i # k => i \notin ids
    BY <1>1
  <2> HIDE DEF ids
  <2>2. /\ Lapse
        /\ \A i \in DOMAIN sells : ~(i \in ids /\ Cancelable(i)) => sells'[i] = sells[i]
    BY <2>1, Facts, CancelLapses DEF Tame
  <2>. QED
    BY <2>1, <2>2
<1>. QED
  BY <1>1, <1>3, <1>4, StopsKept

(* Where the stops are taken away the record no longer counts on them; where one
   of them cannot be, the status is that of the exit which waits or has failed. *)
LEMMA StopsWhenTakenAway ==
  ASSUME ExitInv, ExitInv', StopsHold, TakeProfitCancelsStops \/ SmartCancelsStops
  PROVE  StopsHold'
<1>1. TakeStopsAway(copy) /\ spent' = spent
  BY NoOutage DEF TakeProfitCancelsStops, SmartCancelsStops
<1>2. StopsCanBeCanceled /\ sells' = Cancel(copy.stops)
  BY <1>1 DEF TakeStopsAway
<1>3. Lapse /\ ByStops' = 0
  BY <1>2, StopsGone
<1>4. CASE copy.stops = {}
  <2>1. copy' = copy
    BY <1>1, <1>4 DEF TakeStopsAway
  <2>2. \A i \in DOMAIN sells : ~(sells[i].kind = "stop" /\ Live(sells[i]))
    BY <1>4, Facts DEF StopsAreKnown
  <2>. QED
    BY <1>1, <1>3, <2>1, <2>2, StopsKept
<1>5. CASE copy.stops # {}
  <2>1. copy' = NoStops(copy)
    BY <1>1, <1>5 DEF TakeStopsAway, NoStops
  <2> DEFINE q == NoStops(copy)
  <2>2. q.stops = {} /\ q.covered = 0 /\ copy' = q
    BY <2>1, Facts, NoStopsFields
  <2> HIDE DEF q
  <2>3. copy'.stops \subseteq DOMAIN sells' /\ copy'.covered <= ByStops'
    BY <1>3, <2>2
  <2>. QED
    BY <2>3 DEF StopsHold
<1>. QED
  BY <1>4, <1>5

LEMMA StopsWhenKept ==
  ASSUME ExitInv, ExitInv', StopsHold, TakeProfitKeepsStops \/ SmartKeepsStops
  PROVE  StopsHold'
<1>1. PICK s \in {"tp", "smart"} : StopsStay(copy, s)
  <2>1. NoAlert(copy) = copy
    BY Facts, NoAlertKin
  <2>. QED
    BY <2>1, NoOutage DEF TakeProfitKeepsStops, SmartKeepsStops
<1>2. spent' = spent /\ DOMAIN sells' = DOMAIN sells
  BY <1>1 DEF TakeProfitKeepsStops, SmartKeepsStops, StopsStay, Cancel
<1> DEFINE q == Retry(copy, s)
<1>3. copy' = q
  BY <1>1 DEF StopsStay
<1>4. q.of = s /\ Kin(copy, q)
  BY Facts, RetryKin DEF Software
<1> HIDE DEF q
<1>5. q.stops = copy.stops /\ q.of # "entry"
  BY <1>4 DEF Kin
<1>. QED
  BY <1>2, <1>3, <1>5 DEF StopsHold

(* Stops fill, and nobody else ends them. *)
LEMMA StopsAtTheBroker ==
  ASSUME ExitInv, ExitInv', StopsHold, Broker
  PROVE  StopsHold'
<1>1. copy' = copy /\ spent' = spent
  BY DEF Broker, EntryFills, EntryEnds, SellFills, SellRejected, CancelTakesEffect
<1>2. CASE EntryFills \/ EntryEnds
  <2>1. sells' = sells
    BY <1>2 DEF EntryFills, EntryEnds
  <2> DEFINE q == copy
  <2>2. copy' = q /\ Abides(q)
    BY <1>1, SameCopyAbides
  <2> HIDE DEF q
  <2>. QED
    BY <1>1, <2>1, <2>2, StopsStand
<1>3. ASSUME NEW k \in DOMAIN sells, SellFills(k) \/ SellRejected(k) \/ CancelTakesEffect(k)
      PROVE  StopsHold'
  <2>1. Lapse
    BY <1>3, Facts, BrokerLapses
  <2>2. sells[k] \in SellOrder /\ sells[k].state # "canceling" /\ sells \in Seq(SellOrder)
    BY Facts DEF Whole
  <2>3. ASSUME NEW i \in DOMAIN sells, sells[i].kind = "stop", Live(sells[i])
        PROVE  Live(sells'[i])
    <3>1. CASE i # k
      <4>1. sells'[i] = sells[i]
        BY <1>3, <2>2, <3>1 DEF SellFills, SellRejected, CancelTakesEffect
      <4>. QED
        BY <2>3, <4>1
    <3>2. CASE i = k
      <4>1. PICK n \in Amounts(sells[k].qty - sells[k].filled, "exit") :
               sells' = [sells EXCEPT ![k].filled = @ + n,
                           ![k].state = IF sells[k].filled + n = sells[k].qty THEN "filled" ELSE @]
        BY <1>3, <2>2, <2>3, <3>2 DEF SellFills, SellRejected, CancelTakesEffect
      <4> DEFINE m == sells[k].filled + n
      <4> DEFINE st == IF m = sells[k].qty THEN "filled" ELSE sells[k].state
      <4> DEFINE o == [sells[k] EXCEPT !.filled = m, !.state = st]
      <4>2. sells'[k] = o
        BY <2>2, <4>1
      <4>3. st \in {"working", "filled"}
        BY <2>3, <3>2 DEF Live
      <4> HIDE DEF m, st
      <4>4. o.state = st
        BY <2>2 DEF SellOrder
      <4>. QED
        BY <3>2, <4>2, <4>3, <4>4 DEF Live
    <3>. QED
      BY <3>1, <3>2
  <2>. QED
    BY <1>1, <2>1, <2>3, StopsKept
<1>. QED
  BY <1>2, <1>3 DEF Broker

(* Once the user flattens nothing is asked. *)
LEMMA StopsOfNoConcern ==
  ASSUME ExitInv, BookInv,
         BeginFlatten \/ FlattenCancels \/ FlattenLook \/ FlattenLookFails \/ FlattenCloses
           \/ FlattenClosesNothing
  PROVE  StopsHold'
<1>1. BeginFlatten => "flatten" \in spent'
  BY DEF BeginFlatten
<1>2. ~BeginFlatten => Flattening /\ spent' = spent
  BY DEF FlattenCancels, FlattenLook, FlattenLookFails, FlattenCloses, FlattenClosesNothing,
         Flattening
<1>3. Flattening => "flatten" \in spent
  BY BookFacts DEF UnderWay
<1>. QED
  BY <1>1, <1>2, <1>3 DEF StopsHold

LEMMA StopsNext ==
  ASSUME ExitInv, ExitInv', BookInv, StopsHold, [Next]_vars
  PROVE  StopsHold'
<1>1. CASE BeginPass \/ AttachNotNeeded \/ AttachLookFails \/ AttachStopFails \/ StopIdle
             \/ TakeProfitIdle \/ RowsDone \/ CollectRows \/ ReconcileFails \/ EscalateCancelFails
             \/ EscalateSeesNoFill \/ EscalateCloseFails \/ Persist
  BY <1>1, StopsWhereNothingIsSent
<1>2. CASE AttachLook \/ AttachStop \/ AttachUnsupported
  BY <1>2, StopsWhenLooking, StopsAttached, StopsOfSoftware
<1>3. CASE StopWatches \/ StopFireFails \/ TakeProfitCloseFails \/ SmartCloseFails \/ SmartIdle
  BY <1>3, StopsWhenWatched, StopsWhenExitFails, StopsWhenIdle
<1>4. CASE StopFires \/ SmartCloses \/ TakeProfitCloses
  BY <1>4, StopsWhenExitGoes
<1>5. CASE TakeProfitCancelsStops \/ SmartCancelsStops \/ TakeProfitKeepsStops \/ SmartKeepsStops
  BY <1>5, StopsWhenTakenAway, StopsWhenKept
<1>6. CASE ReconcileRow \/ EscalateSeesFill \/ EscalateCancels \/ EscalateCloses
  BY <1>6, StopsWhenReconciled, StopsWhenEscalating, StopsWhenSentAgain
<1>7. CASE BeginFlatten \/ FlattenCancels \/ FlattenLook \/ FlattenLookFails \/ FlattenCloses
             \/ FlattenClosesNothing
  BY <1>7, StopsOfNoConcern
<1>8. CASE Crash
  BY <1>8, Facts DEF Crash, Tame
<1>9. CASE Broker
  BY <1>9, StopsAtTheBroker
<1>10. CASE UNCHANGED vars
  <2>1. copy' = copy /\ sells' = sells /\ spent' = spent
    BY <1>10 DEF vars
  <2> DEFINE q == copy
  <2>2. copy' = q /\ Abides(q)
    BY <2>1, SameCopyAbides
  <2> HIDE DEF q
  <2>. QED
    BY <2>1, <2>2, StopsStand
<1>. QED
  BY <1>1, <1>2, <1>3, <1>4, <1>5, <1>6, <1>7, <1>8, <1>9, <1>10 DEF Next, Working

-----------------------------------------------------------------------------
(* What covers the open contracts *)

(* The stops at work of the record claim all that stops claim. *)
LEMMA StopsAreCover ==
  ASSUME ExitInv, copy.stops \subseteq DOMAIN sells
  PROVE  /\ MapThenSumSet(LAMBDA i : sells[i].qty, StopsAtWork(copy)) \in Nat
         /\ ByStops <= MapThenSumSet(LAMBDA i : sells[i].qty, StopsAtWork(copy))
<1> DEFINE D == DOMAIN sells
<1> DEFINE S == StopsAtWork(copy)
<1> DEFINE f == [i \in D |-> sells[i].qty]
<1>1. S \subseteq D /\ \A i \in S : f[i] = sells[i].qty
  BY DEF StopsAtWork
<1>2. IsFiniteSet(D) /\ IsFiniteSet(S)
  BY <1>1, Facts, OrdersFinite, FS_Subset DEF Whole
<1>3. MapThenSumSet(LAMBDA i : sells[i].qty, S) = SumOf(f, S)
  <2> HIDE DEF D, S, f
  <2> DEFINE Quantity(g) == g = [T \in SUBSET S |-> IF T = {} THEN 0
                                   ELSE sells[Taken(T)].qty + g[T \ {Taken(T)}]]
  <2>1. MapThenSumSet(LAMBDA i : sells[i].qty, S) = (CHOOSE g : Quantity(g))[S]
    BY DEF MapThenSumSet, MapThenFoldSet, Taken
  <2>2. ASSUME NEW g PROVE Quantity(g) <=> IsSum(f, g, S)
    <3>1. \A T \in SUBSET S : T # {} => f[Taken(T)] = sells[Taken(T)].qty
      BY <1>1, TakenFromSet
    <3>2. \A T \in SUBSET S : Added(f, g, T) = IF T = {} THEN 0
                                   ELSE sells[Taken(T)].qty + g[T \ {Taken(T)}]
      BY <3>1 DEF Added
    <3>. QED
      BY <3>2 DEF IsSum
  <2> HIDE DEF Quantity
  <2>3. \E g : Quantity(g)
    BY <1>2, <2>2, SumExists
  <2>4. Quantity(CHOOSE g : Quantity(g))
    BY <2>3
  <2>5. IsSum(f, CHOOSE g : Quantity(g), S)
    BY <2>2, <2>4
  <2>6. S \in SUBSET S
    OBVIOUS
  <2>. QED
    BY <1>2, <2>1, <2>5, <2>6, SumOfIs
<1>4. \A i \in D : f[i] \in Nat /\ StopClaims[i] \in Nat /\ StopClaims[i] <= f[i]
  <2> SUFFICES ASSUME NEW i \in D
               PROVE  f[i] \in Nat /\ StopClaims[i] \in Nat /\ StopClaims[i] <= f[i]
    OBVIOUS
  <2>1. sells[i].qty \in Nat
    BY Facts, OrderFields, ExitAssumption DEF Whole
  <2>. QED
    BY <2>1 DEF StopClaims
<1>5. \A i \in D : i \notin S => StopClaims[i] = 0
  BY Facts DEF StopClaims, StopsAreKnown, StopsAtWork, Live
<1>6. ByStops = SumOf(StopClaims, D)
  BY DEF ByStops
<1> HIDE DEF D, S, f
<1>7. SumOf(StopClaims, D) = SumOf(StopClaims, S)
  BY <1>1, <1>2, <1>4, <1>5, SumOfPart
<1>8. SumOf(StopClaims, S) <= SumOf(f, S) /\ SumOf(f, S) \in Nat
  BY <1>1, <1>2, <1>4, SumGrows, SumType
<1>. QED
  BY <1>3, <1>6, <1>7, <1>8 DEF S

LEMMA IdleIsCovered ==
  ASSUME ExitInv, BookInv, StopsHold, "flatten" \notin spent, pc = "idle", rec.filled > 0
  PROVE  RemainingOpen(rec) <= Cover(rec) \/ Waits(rec) \/ GivenUp(rec)
<1>1. copy = rec
  BY DEF ExitInv, Midway
<1>2. Guarded(rec)
  BY Facts, BookFacts DEF Guards, WholeExits, Tame
<1>3. /\ RemainingOpen(rec) = rec.filled - Booked(rec) /\ Booked(rec) \in Nat
      /\ rec.filled \in Nat
  BY <1>1, Facts, Remaining
<1>4. /\ rec.stops \subseteq DOMAIN sells
      /\ rec.of = "entry" => rec.covered <= ByStops
  BY <1>1 DEF StopsHold
<1> DEFINE n == MapThenSumSet(LAMBDA i : sells[i].qty, StopsAtWork(rec))
<1>5. n \in Nat /\ ByStops <= n /\ ByStops \in Nat
  BY <1>1, <1>4, Facts, StopsAreCover
<1>6. Cover(rec) = n + (IF "stop" \in rec.active THEN rec.stopQty ELSE 0)
  BY DEF Cover
<1> HIDE DEF n
<1>7. rec.stopQty \in Nat /\ rec.covered \in Nat
  BY <1>1, Facts, Quantities
<1>8. "stop" \in rec.active => rec.stopQty = rec.filled - Booked(rec)
  BY BookFacts DEF Holds, Armed
<1>9. Cover(rec) \in Nat /\ n <= Cover(rec)
  BY <1>5, <1>6, <1>7
<1>10. CASE Booked(rec) = rec.filled
  BY <1>3, <1>9, <1>10
<1>11. CASE AwaitsFills(rec) \/ (rec.of \in {"tp", "smart"} /\ rec.is = "retry")
  BY <1>11 DEF Waits
<1>12. CASE rec.is = "failed"
  BY <1>12 DEF GivenUp
<1>13. CASE "stop" \in rec.active
  BY <1>3, <1>5, <1>6, <1>7, <1>8, <1>13
<1>14. CASE rec.of = "entry" /\ rec.is = "attached" /\ rec.covered = rec.filled
  BY <1>3, <1>4, <1>5, <1>7, <1>9, <1>14
<1>. QED
  BY <1>2, <1>10, <1>11, <1>12, <1>13, <1>14 DEF Guarded

LEMMA StopsInit ==
  ASSUME Init, ExitInv
  PROVE  StopsHold
<1>1. copy = NewRecord /\ NewRecord.stops = {} /\ NewRecord.covered = 0
  BY DEF Init, NewRecord
<1>2. ByStops \in Nat
  BY Facts
<1>. QED
  BY <1>1, <1>2 DEF StopsHold

(* Until the user flattens, between two passes, every contract the record knows
   to be open is covered by a broker stop or by the software stop, unless the
   monitor still waits to attach one, an exit that took the stops away waits for
   its retry, or an exit failed and the user has been told: in every environment
   in which broker and process behave.  And in every environment an armed software
   stop or take profit that a pass evaluates has contracts to sell: for every
   quantity, any number of faults and any number of passes. *)
THEOREM OpenContractsHaveCover == Spec => []OpenContractsAreCovered
<1> DEFINE Inv == BookInv /\ (Tame => ExitInv /\ StopsHold)
<1>1. Init => Inv
  BY BookInit, InitFits, StopsInit
<1>2. Inv /\ [Next]_vars => Inv'
  <2> SUFFICES ASSUME Inv, [Next]_vars
               PROVE  Inv'
    OBVIOUS
  <2>1. BookInv'
    BY BookNextKeeps
  <2>2. ASSUME Tame' PROVE ExitInv' /\ StopsHold'
    <3>1. Tame
      BY <2>2, EnvironmentStays DEF Tame
    <3>2. ExitInv'
      BY <3>1, NextKeeps
    <3>. QED
      BY <3>1, <3>2, StopsNext
  <2>. QED
    BY <2>1, <2>2
<1>3. Inv => OpenContractsAreCovered
  BY ArmedHasContracts, IdleIsCovered DEF OpenContractsAreCovered
<1>. QED
  BY <1>1, <1>2, <1>3, PTL DEF Spec

-----------------------------------------------------------------------------
(* The types of the position *)

(* What is no part of the books *)
Sundry ==
    /\ env \in Environment /\ pc \in Steps /\ quote \in Quotes /\ canceled \in BOOLEAN
    /\ faults \in 0 .. MaxFaults /\ spent \subseteq {"crash", "flatten"}

LEMMA FaultCounts ==
  ASSUME Sundry, Fault \/ faults' = faults
  PROVE  faults' \in 0 .. MaxFaults
BY ExitAssumption DEF Sundry, Fault

(* A step that goes on where the handler is, and may have a call fail *)
LEMMA SundryGoesOn ==
  ASSUME Sundry, pc' \in Steps, canceled' \in BOOLEAN, Fault \/ faults' = faults,
         env' = env, quote' = quote, spent' = spent
  PROVE  Sundry'
<1>1. faults' \in 0 .. MaxFaults
  BY FaultCounts
<1>. QED
  BY <1>1 DEF Sundry

LEMMA SundryNext ==
  ASSUME Sundry, [Next]_vars
  PROVE  Sundry'
<1>1. CASE AttachNotNeeded \/ AttachLook \/ AttachLookFails \/ AttachStop \/ AttachUnsupported
             \/ AttachStopFails
  <2>1. /\ pc' \in Steps /\ canceled' = canceled /\ (Fault \/ faults' = faults)
        /\ env' = env /\ quote' = quote /\ spent' = spent
    BY <1>1 DEF AttachNotNeeded, AttachLook, AttachLookFails, AttachStop, AttachUnsupported,
                AttachStopFails, Continue, Steps
  <2>2. pc \in Steps /\ canceled \in BOOLEAN
    BY DEF Sundry
  <2>. QED
    BY <2>1, <2>2, SundryGoesOn
<1>2. CASE StopIdle \/ StopWatches \/ StopFires \/ StopFireFails
  <2>1. /\ pc' \in Steps /\ canceled' = canceled /\ (Fault \/ faults' = faults)
        /\ env' = env /\ quote' = quote /\ spent' = spent
    BY <1>2 DEF StopIdle, StopWatches, StopFires, StopFireFails, Continue, Steps
  <2>2. pc \in Steps /\ canceled \in BOOLEAN
    BY DEF Sundry
  <2>. QED
    BY <2>1, <2>2, SundryGoesOn
<1>3. CASE TakeProfitIdle \/ TakeProfitCancelsStops \/ TakeProfitKeepsStops
             \/ TakeProfitCloses \/ TakeProfitCloseFails
  <2>1. /\ pc' \in Steps /\ (canceled' = canceled \/ canceled' \in BOOLEAN)
        /\ Fault \/ faults' = faults
        /\ env' = env /\ quote' = quote /\ spent' = spent
    BY <1>3 DEF TakeProfitIdle, TakeProfitCancelsStops, TakeProfitKeepsStops, TakeProfitCloses,
                TakeProfitCloseFails, TakeStopsAway, StopsStay, Continue, Steps
  <2>2. pc \in Steps /\ canceled \in BOOLEAN
    BY DEF Sundry
  <2>. QED
    BY <2>1, <2>2, SundryGoesOn
<1>4. CASE SmartIdle \/ SmartCancelsStops \/ SmartKeepsStops \/ SmartCloses \/ SmartCloseFails
  <2>1. /\ pc' \in Steps /\ (canceled' = canceled \/ canceled' \in BOOLEAN)
        /\ Fault \/ faults' = faults
        /\ env' = env /\ quote' = quote /\ spent' = spent
    BY <1>4 DEF SmartIdle, SmartCancelsStops, SmartKeepsStops, SmartCloses, SmartCloseFails,
                TakeStopsAway, StopsStay, Continue, Steps
  <2>2. pc \in Steps /\ canceled \in BOOLEAN
    BY DEF Sundry
  <2>. QED
    BY <2>1, <2>2, SundryGoesOn
<1>5. CASE CollectRows \/ ReconcileRow \/ ReconcileFails \/ RowsDone
  <2>1. /\ pc' \in Steps \/ pc' = pc
        /\ canceled' = canceled
        /\ Fault \/ faults' = faults
        /\ env' = env /\ quote' = quote /\ spent' = spent
    BY <1>5 DEF CollectRows, ReconcileRow, ReconcileFails, RowsDone, Continue, Steps
  <2>2. pc \in Steps /\ canceled \in BOOLEAN
    BY DEF Sundry
  <2>. QED
    BY <2>1, <2>2, SundryGoesOn
<1>6. CASE EscalateCancels \/ EscalateCancelFails \/ EscalateSeesFill \/ EscalateSeesNoFill
             \/ EscalateCloses \/ EscalateCloseFails
  <2>1. /\ pc' \in Steps /\ canceled' = canceled /\ (Fault \/ faults' = faults)
        /\ env' = env /\ quote' = quote /\ spent' = spent
    BY <1>6 DEF EscalateCancels, EscalateCancelFails, EscalateSeesFill, EscalateSeesNoFill,
                EscalateCloses, EscalateCloseFails, NextRow, Continue, Steps
  <2>2. pc \in Steps /\ canceled \in BOOLEAN
    BY DEF Sundry
  <2>. QED
    BY <2>1, <2>2, SundryGoesOn
<1>7. CASE FlattenCancels \/ FlattenLook \/ FlattenLookFails \/ FlattenCloses
             \/ FlattenClosesNothing
  <2>1. /\ pc' \in Steps /\ canceled' = canceled /\ (Fault \/ faults' = faults)
        /\ env' = env /\ quote' = quote /\ spent' = spent
    BY <1>7 DEF FlattenCancels, FlattenLook, FlattenLookFails, FlattenCloses,
                FlattenClosesNothing, Continue, Steps
  <2>2. pc \in Steps /\ canceled \in BOOLEAN
    BY DEF Sundry
  <2>. QED
    BY <2>1, <2>2, SundryGoesOn
<1>8. CASE BeginPass \/ Persist
  BY <1>8 DEF BeginPass, Persist, Continue, Steps, Quotes, Sundry
<1>9. CASE BeginFlatten \/ Crash
  BY <1>9 DEF BeginFlatten, Crash, Continue, Steps, Quotes, Sundry
<1>10. CASE Broker
  BY <1>10 DEF Broker, EntryFills, EntryEnds, SellFills, SellRejected, CancelTakesEffect, Sundry
<1>11. CASE UNCHANGED vars
  BY <1>11 DEF vars, Sundry
<1>. QED
  BY <1>1, <1>2, <1>3, <1>4, <1>5, <1>6, <1>7, <1>8, <1>9, <1>10, <1>11 DEF Next, Working

LEMMA SundryInit ==
  ASSUME Init
  PROVE  Sundry
<1>1. /\ env \in Environment /\ pc = "idle" /\ quote = "none" /\ canceled = FALSE
      /\ faults = 0 /\ spent = {}
  BY DEF Init
<1>2. 0 \in 0 .. MaxFaults
  BY ExitAssumption
<1>. QED
  BY <1>1, <1>2 DEF Sundry, Steps, Quotes

(* Every reachable state of the position is well typed: no counter of retries,
   breaches, confirmations or passes without a quote leaves its range, no
   quantity is negative or more than the entry asked for. *)
THEOREM ExitTypesHold == Spec => []TypeOK
<1>1. Init => BookInv /\ Sundry
  BY BookInit, SundryInit
<1>2. BookInv /\ Sundry /\ [Next]_vars => (BookInv /\ Sundry)'
  BY BookNextKeeps, SundryNext
<1>3. BookInv /\ Sundry => TypeOK
  BY BookFacts DEF Sundry, TypeOK, Holds
<1>. QED
  BY <1>1, <1>2, <1>3, PTL DEF Spec

-----------------------------------------------------------------------------
(* The instance looks on *)

LEMMA InstanceSteps ==
  ASSUME [InstanceNext]_<<vars, shownVars>>
  PROVE  [Next]_vars
<1>1. CASE Speaking
  BY <1>1 DEF Speaking, Next, Working
<1>2. CASE Silent
  BY <1>2 DEF Silent, Next, Working
<1>. QED
  BY <1>1, <1>2 DEF InstanceNext

(* The instance only looks on: each of its steps is one of the position, or none.
   What events it is told, and what it makes of them, holds up no pass and no
   flatten. *)
THEOREM InstanceImplementsExit == InstanceSpec => Spec
<1>1. InstanceInit => Init
  BY DEF InstanceInit
<1>2. [InstanceNext]_<<vars, shownVars>> => [Next]_vars
  BY InstanceSteps
<1>. QED
  BY <1>1, <1>2, PTL DEF InstanceSpec, Spec

(* So all that is proved of the position is so for the instance, too. *)
THEOREM InstanceIsSafe == InstanceSpec => [](NeverOverclosed /\ OpenContractsAreCovered)
BY InstanceImplementsExit, ClosesNoMoreThanHeld, OpenContractsHaveCover, PTL

ShownTypes ==
    /\ lifecycle \in Lifecycles
    /\ said \in [now : Lifecycles, event : Lifecycles \cup {"none"}]

LEMMA LifecycleOfOrders ==
  ASSUME NEW r, NEW smart
  PROVE  Lifecycle(r, smart) \in Lifecycles
BY DEF Lifecycle, Lifecycles, Watching, Manual

LEMMA NextLifecycleIsOne ==
  ASSUME NEW current \in Lifecycles, NEW requested \in Lifecycles
  PROVE  NextLifecycle(current, requested) \in Lifecycles
BY DEF NextLifecycle

LEMMA TellsAState ==
  ASSUME ShownTypes, NEW state \in Lifecycles, Tells(state) \/ Notes(state)
  PROVE  ShownTypes'
BY NextLifecycleIsOne DEF ShownTypes, Tells, Notes

LEMMA ShownNext ==
  ASSUME ShownTypes, [InstanceNext]_<<vars, shownVars>>
  PROVE  ShownTypes'
<1>1. CASE Hears
  BY <1>1 DEF ShownTypes, Hears
<1>2. ASSUME NEW state, Tells(state) \/ Notes(state),
             state \in {"exiting", "monitoring", "closed", Manual, said.now}
      PROVE  ShownTypes'
  <2>1. state \in Lifecycles
    BY <1>2 DEF ShownTypes, Lifecycles, Watching
  <2>. QED
    BY <1>2, <2>1, TellsAState
<1>3. CASE Shows
  <2>1. said.now \in Lifecycles /\ (said.event # "none" => said.event \in Lifecycles)
    BY DEF ShownTypes
  <2> DEFINE told == IF said.event = "none" THEN said.now ELSE NextLifecycle(said.now, said.event)
  <2>2. told \in Lifecycles
    BY <2>1, NextLifecycleIsOne
  <2>3. PICK smart \in SmartQuantities(copy) :
           lifecycle' = IF copy.alert THEN lifecycle ELSE NextLifecycle(told, Lifecycle(copy, smart))
    BY <1>3 DEF Shows
  <2> HIDE DEF told
  <2>4. lifecycle' \in Lifecycles
    BY <2>2, <2>3, LifecycleOfOrders, NextLifecycleIsOne DEF ShownTypes
  <2>5. said' = [now |-> lifecycle', event |-> "none"]
    BY <1>3 DEF Shows
  <2>. QED
    BY <2>4, <2>5 DEF ShownTypes
<1>4. CASE UNCHANGED shownVars
  BY <1>4 DEF shownVars, ShownTypes
<1>5. \A state \in {"exiting", "monitoring"} :
         OrManual(state) \in {"exiting", "monitoring", "closed", Manual, said.now}
  BY DEF OrManual
<1>6. OfRow \in {"exiting", "monitoring", "closed", Manual, said.now}
  BY DEF OfRow
<1>7. Speaking => \/ Hears \/ Shows
                  \/ \E state \in {"exiting", "monitoring", "closed", Manual, said.now} :
                        Tells(state) \/ Notes(state)
  BY <1>5, <1>6 DEF Speaking
<1>. QED
  BY <1>1, <1>2, <1>3, <1>4, <1>7 DEF InstanceNext

(* Every state of the instance is well typed: whatever it is told in whatever
   order, it is in one of its lifecycle states. *)
THEOREM InstanceTypesHold == InstanceSpec => []InstanceTypes
<1>1. InstanceInit => ShownTypes
  BY LifecycleOfOrders DEF InstanceInit, ShownTypes
<1>2. ShownTypes /\ [InstanceNext]_<<vars, shownVars>> => ShownTypes'
  BY ShownNext
<1>3. ShownTypes /\ TypeOK => InstanceTypes
  BY DEF ShownTypes, InstanceTypes
<1>. QED
  BY <1>1, <1>2, <1>3, InstanceImplementsExit, ExitTypesHold, PTL DEF InstanceSpec

=============================================================================
