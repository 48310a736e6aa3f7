------------------------ MODULE SingleLegExit_proofs ------------------------
(***************************************************************************)
(* NeverOverclosed for every entry quantity, and every environment in      *)
(* which broker and process behave: what rests at the broker and what has  *)
(* been sold is never more than the entry has filled.                      *)
(***************************************************************************)
EXTENDS SingleLegExit, Sums, SequenceTheorems

-----------------------------------------------------------------------------
(* What closing orders claim of the position: their whole quantity while they
   work or when they have filled. *)

Live(o) == o.state \in {"working", "filled"}
ExitClaims == [i \in DOMAIN sells |->
                 IF Live(sells[i]) /\ sells[i].kind # "stop" THEN sells[i].qty ELSE 0]
StopClaims == [i \in DOMAIN sells |->
                 IF Live(sells[i]) /\ sells[i].kind = "stop" THEN sells[i].qty ELSE 0]
ByExits == SumOf(ExitClaims, DOMAIN sells)
ByStops == SumOf(StopClaims, DOMAIN sells)

(* What a record holds as sold or on its way, and its targets still to be sent. *)
Booked(r) == r.submitted["stop"] + r.submitted["tp"] + r.submitted["smart"] + r.submitted["flatten"]
Left(r, k) == IF k \in DOMAIN r.targets /\ r.targets[k].state = "pending" THEN r.targets[k].qty ELSE 0

Walking == pc \in {"escalateLook", "escalateClose"}
Reconciling == pc \in {"reconcile", "escalate"} \/ Walking
Flattening == pc \in {"flattenCancel", "flattenLook", "flattenClose"}

(* The limit an escalation has taken away and not sent again *)
Flying == IF Walking THEN QtyOf(Head(rows)) ELSE 0

-----------------------------------------------------------------------------
(* The inductive invariant *)

(* A closing order fills as a whole, and none buys. *)
Whole ==
    /\ sells \in Seq(SellOrder)
    /\ \A i \in DOMAIN sells :
          /\ sells[i].kind # "buy" /\ sells[i].state # "canceling"
          /\ sells[i].filled = IF sells[i].state = "filled" THEN sells[i].qty ELSE 0

Types ==
    /\ Tame
    /\ entry \in [filled : 0 .. Qty, working : BOOLEAN]
    /\ Whole
    /\ rows \in Seq(Source \X Nat)
    /\ seen \in [filled : Int, over : BOOLEAN]

(* What the record says fits together, whatever the broker does. *)
Sound(r) ==
    /\ r.filled <= entry.filled /\ r.covered <= r.filled
    /\ \A s \in Source : r.closed[s] <= r.submitted[s]
    /\ Booked(r) <= r.filled
    /\ r.of = "entry" => Booked(r) = 0
    /\ r.submitted["stop"] + r.submitted["smart"] > 0 => Booked(r) = r.filled
    /\ r.active \cap {"stop", "tp"} # {} => r.filled > 0
    /\ "stop" \in r.active => ~AwaitsFills(r) /\ r.stopQty >= r.filled - Booked(r)
    /\ "tp" \in r.active => Left(r, 1) + Left(r, 2) <= r.filled - Booked(r)
    /\ Len(r.targets) <= 2

(* The broker's stops are those of the record, and none is left beside a
   software stop; an exit the record knows is at the broker what it says. *)
StopsAreKnown(r) ==
    /\ \A i \in DOMAIN sells : Live(sells[i]) /\ sells[i].kind = "stop" => i \in r.stops
    /\ ByStops <= r.covered
    /\ "stop" \in r.active \/ ~env.nativeStop => ByStops = 0

ExitsAreKnown(r) ==
    /\ \A k \in DOMAIN r.targets : r.targets[k].state # "pending" =>
          /\ r.targets[k].order \in DOMAIN sells
          /\ sells[r.targets[k].order].kind # "stop"
          /\ sells[r.targets[k].order].qty = r.targets[k].qty
    /\ \A s \in Source \ {"tp"} : r.order[s] # 0 =>
          r.order[s] \in DOMAIN sells /\ sells[r.order[s]].qty <= r.submitted[s]

KnownRows(r) ==
    {w \in Source \X Nat :
        IF w[1] = "tp" THEN w[2] \in DOMAIN r.targets /\ r.targets[w[2]].state # "pending"
                       ELSE r.order[w[1]] # 0}

RowsAreKnown ==
    /\ Reconciling => rows \in Seq(KnownRows(copy))
    /\ pc = "escalate" \/ Walking => rows # <<>> /\ Head(rows)[1] = "tp"

(* What reconciliation needs of the record: whatever the broker does, its exits are
   orders of the broker, for at most what they are booked with. *)
Ordered(r) ==
    /\ \A k \in DOMAIN r.targets : r.targets[k].state # "pending" =>
          /\ r.targets[k].order \in DOMAIN sells
          /\ sells[r.targets[k].order].qty = r.targets[k].qty
    /\ \A s \in Source \ {"tp"} : r.order[s] # 0 =>
          r.order[s] \in DOMAIN sells /\ sells[r.order[s]].qty <= r.submitted[s]

(* The same while one more exit is sent, for qty contracts *)
Sends(r, qty) ==
    /\ \A k \in DOMAIN r.targets : r.targets[k].state # "pending" =>
          \/ /\ r.targets[k].order \in DOMAIN sells
             /\ sells[r.targets[k].order].qty = r.targets[k].qty
          \/ r.targets[k].order = NewId /\ r.targets[k].qty = qty
    /\ \A s \in Source \ {"tp"} : r.order[s] # 0 =>
          \/ r.order[s] \in DOMAIN sells /\ sells[r.order[s]].qty <= r.submitted[s]
          \/ r.order[s] = NewId /\ qty <= r.submitted[s]

(* A protection that is armed has contracts to sell. *)
Armed(r) ==
    /\ "stop" \in r.active => r.stopQty > 0 /\ r.stopQty = r.filled - Booked(r)
    /\ "tp" \in r.active => Pending(r) # {}

Booking ==
    /\ entry \in [filled : 0 .. Qty, working : BOOLEAN]
    /\ sells \in Seq(SellOrder)
    /\ rows \in Seq(Source \X Nat)
    /\ seen \in [filled : Int, over : BOOLEAN]
    /\ copy \in Record /\ Sound(copy) /\ Ordered(copy)
    /\ RowsAreKnown

(* What the steps in the middle of a handler rely on *)
Midway ==
    /\ pc = "idle" \/ Flattening => copy = rec
    /\ pc = "attachStop" => /\ AwaitsFills(copy)
                            /\ copy.covered < seen.filled /\ seen.filled <= copy.filled
    /\ pc = "tpClose" => /\ ByStops = 0
                         /\ "tp" \in copy.active /\ Pending(copy) # {}
    /\ pc = "smartClose" => ByStops = 0 /\ Booked(copy) < copy.filled
    /\ pc = "flattenClose" => 0 <= seen.filled /\ seen.filled + ByExits + ByStops <= entry.filled

Claims ==
    /\ ByExits + Flying <= Booked(copy)
    /\ ByExits + ByStops + Flying <= entry.filled

Fits(r) == r \in Record /\ ~r.alert /\ Sound(r) /\ StopsAreKnown(r) /\ ExitsAreKnown(r)

ExitInv ==
    /\ Types
    /\ Fits(copy)
    /\ RowsAreKnown
    /\ Midway
    /\ Claims

-----------------------------------------------------------------------------
(* Claims under the broker's and the handlers' calls *)

LEMMA OrdersFinite == ASSUME sells \in Seq(SellOrder) PROVE IsFiniteSet(DOMAIN sells)
BY FS_Interval

LEMMA OrderFields ==
  ASSUME NEW o \in SellOrder
  PROVE  /\ o.qty \in 1 .. Qty /\ o.filled \in 0 .. Qty
         /\ o.state \in {"working", "canceling", "filled", "canceled", "rejected"}
         /\ o.kind \in {"stop", "limit", "market", "buy"}
BY DEF SellOrder

LEMMA ClaimValues ==
  ASSUME Whole
  PROVE  /\ \A i \in DOMAIN sells : ExitClaims[i] \in Nat /\ StopClaims[i] \in Nat
         /\ ByExits \in Nat /\ ByStops \in Nat
<1>1. \A i \in DOMAIN sells : sells[i] \in SellOrder
  BY DEF Whole
<1>2. \A i \in DOMAIN sells : sells[i].qty \in Nat
  BY <1>1, OrderFields, ExitAssumption
<1>3. \A i \in DOMAIN sells : ExitClaims[i] \in Nat /\ StopClaims[i] \in Nat
  BY <1>2 DEF ExitClaims, StopClaims
<1>4. IsFiniteSet(DOMAIN sells)
  BY OrdersFinite DEF Whole
<1>. QED
  BY <1>3, <1>4, SumType DEF ByExits, ByStops

LEMMA ClaimTypes == Whole => ByExits \in Nat /\ ByStops \in Nat
BY ClaimValues

LEMMA ClaimTypesNext == Whole' => (ByExits \in Nat /\ ByStops \in Nat)'
BY ClaimTypes, PTL

(* What a call to the broker may do to the orders that are there. *)
Lapse ==
    /\ Whole'
    /\ DOMAIN sells' = DOMAIN sells
    /\ \A i \in DOMAIN sells :
          /\ sells'[i].kind = sells[i].kind /\ sells'[i].qty = sells[i].qty
          /\ Live(sells'[i]) => Live(sells[i])

LEMMA LapseShrinks ==
  ASSUME Whole, Lapse
  PROVE  ByExits' <= ByExits /\ ByStops' <= ByStops
<1>1. \A i \in DOMAIN sells : ExitClaims[i] \in Nat /\ StopClaims[i] \in Nat
  BY ClaimValues
<1>2. \A i \in DOMAIN sells : /\ ExitClaims'[i] \in Nat /\ ExitClaims'[i] <= ExitClaims[i]
                              /\ StopClaims'[i] \in Nat /\ StopClaims'[i] <= StopClaims[i]
  BY <1>1 DEF Lapse, ExitClaims, StopClaims, Live
<1>3. IsFiniteSet(DOMAIN sells) /\ DOMAIN sells' = DOMAIN sells
  BY OrdersFinite DEF Whole, Lapse
<1>4. SumOf(ExitClaims', DOMAIN sells) <= SumOf(ExitClaims, DOMAIN sells)
  BY <1>1, <1>2, <1>3, SumGrows
<1>5. SumOf(StopClaims', DOMAIN sells) <= SumOf(StopClaims, DOMAIN sells)
  BY <1>1, <1>2, <1>3, SumGrows
<1>. QED
  BY <1>3, <1>4, <1>5 DEF ByExits, ByStops

LEMMA SameOrdersClaim ==
  ASSUME sells' = sells
  PROVE  ByExits' = ByExits /\ ByStops' = ByStops
BY DEF ByExits, ByStops, ExitClaims, StopClaims

(* A new order adds its quantity to what its kind claims. *)
LEMMA SubmitAdds ==
  ASSUME Whole, NEW kind \in {"stop", "limit", "market"}, NEW qty \in 1 .. Qty, Submit(kind, qty)
  PROVE  /\ Whole'
         /\ NewId \in Nat \ {0} /\ NewId \notin DOMAIN sells
         /\ DOMAIN sells' = DOMAIN sells \cup {NewId}
         /\ \A i \in DOMAIN sells : sells'[i] = sells[i]
         /\ sells'[NewId].kind = kind /\ sells'[NewId].qty = qty
         /\ ByExits' = ByExits + (IF kind = "stop" THEN 0 ELSE qty)
         /\ ByStops' = ByStops + (IF kind = "stop" THEN qty ELSE 0)
<1> DEFINE o == [kind |-> kind, qty |-> qty, filled |-> 0, state |-> "working"]
<1>0. qty \in Nat \ {0} /\ o \in SellOrder
  BY ExitAssumption DEF SellOrder
<1>1. sells' = Append(sells, o) /\ sells \in Seq(SellOrder)
  BY DEF Submit, Whole
<1> HIDE DEF o
<1>2. /\ sells' \in Seq(SellOrder)
      /\ NewId \in Nat \ {0} /\ NewId \notin DOMAIN sells
      /\ DOMAIN sells' = DOMAIN sells \cup {NewId}
      /\ \A i \in DOMAIN sells : sells'[i] = sells[i]
      /\ sells'[NewId] = o
  BY <1>0, <1>1 DEF NewId
<1>3. o.kind = kind /\ o.qty = qty /\ o.filled = 0 /\ o.state = "working"
  BY DEF o
<1>4. Whole'
  BY <1>2, <1>3 DEF Whole
<1>5. /\ \A i \in DOMAIN sells : ExitClaims'[i] = ExitClaims[i] /\ StopClaims'[i] = StopClaims[i]
      /\ ExitClaims'[NewId] = IF kind = "stop" THEN 0 ELSE qty
      /\ StopClaims'[NewId] = IF kind = "stop" THEN qty ELSE 0
  BY <1>2, <1>3 DEF ExitClaims, StopClaims, Live
<1>6. /\ \A i \in DOMAIN sells : ExitClaims[i] \in Nat /\ StopClaims[i] \in Nat
      /\ ByExits \in Nat /\ ByStops \in Nat
  BY ClaimValues
<1>7. IsFiniteSet(DOMAIN sells)
  BY OrdersFinite DEF Whole
<1>8. \A i \in DOMAIN sells \cup {NewId} : ExitClaims'[i] \in Int /\ StopClaims'[i] \in Int
  BY <1>0, <1>5, <1>6
<1>9. /\ SumOf(ExitClaims', DOMAIN sells \cup {NewId}) = SumOf(ExitClaims', DOMAIN sells) + ExitClaims'[NewId]
      /\ SumOf(StopClaims', DOMAIN sells \cup {NewId}) = SumOf(StopClaims', DOMAIN sells) + StopClaims'[NewId]
  <2> DEFINE D == DOMAIN sells
  <2> DEFINE e == ExitClaims'
  <2> DEFINE f == StopClaims'
  <2>1. IsFiniteSet(D) /\ NewId \notin D /\ \A i \in D \cup {NewId} : e[i] \in Int /\ f[i] \in Int
    BY <1>2, <1>7, <1>8
  <2> HIDE DEF D, e, f
  <2>2. SumOf(e, D \cup {NewId}) = SumOf(e, D) + e[NewId]
    BY <2>1, SumWith
  <2>3. SumOf(f, D \cup {NewId}) = SumOf(f, D) + f[NewId]
    BY <2>1, SumWith
  <2>. QED
    BY <2>2, <2>3 DEF D, e, f
<1>10. SumOf(ExitClaims', DOMAIN sells) = SumOf(ExitClaims, DOMAIN sells)
  BY <1>5, <1>7, SumSame
<1>11. SumOf(StopClaims', DOMAIN sells) = SumOf(StopClaims, DOMAIN sells)
  BY <1>5, <1>7, SumSame
<1>12. ByExits' = ByExits + ExitClaims'[NewId] /\ ByStops' = ByStops + StopClaims'[NewId]
  BY <1>2, <1>9, <1>10, <1>11 DEF ByExits, ByStops
<1>. QED
  BY <1>2, <1>3, <1>4, <1>5, <1>12

(* Canceled orders claim nothing, and nothing else changes. *)
LEMMA CancelLapses ==
  ASSUME Whole, ~env.late, NEW ids, sells' = Cancel(ids)
  PROVE  /\ Lapse
         /\ \A i \in DOMAIN sells : i \in ids /\ Cancelable(i) => ~Live(sells'[i])
         /\ \A i \in DOMAIN sells : ~(i \in ids /\ Cancelable(i)) => sells'[i] = sells[i]
<1>1. DOMAIN sells' = DOMAIN sells
  BY DEF Cancel
<1>2. \A i \in DOMAIN sells : sells[i] \in SellOrder
  BY DEF Whole
<1>3. ASSUME NEW i \in DOMAIN sells
      PROVE  /\ sells'[i] \in SellOrder
             /\ sells'[i].kind = sells[i].kind /\ sells'[i].qty = sells[i].qty
             /\ sells'[i].filled = sells[i].filled
             /\ sells'[i].state = IF i \in ids /\ Cancelable(i) THEN "canceled" ELSE sells[i].state
             /\ ~(i \in ids /\ Cancelable(i)) => sells'[i] = sells[i]
  <2>1. CASE i \in ids /\ Cancelable(i)
    <3>1. sells'[i] = [sells[i] EXCEPT !.state = "canceled"]
      BY <2>1 DEF Cancel
    <3>. QED
      BY <1>2, <2>1, <3>1 DEF SellOrder
  <2>2. CASE ~(i \in ids /\ Cancelable(i))
    <3>1. sells'[i] = sells[i]
      BY <2>2 DEF Cancel
    <3>. QED
      BY <1>2, <2>2, <3>1
  <2>. QED
    BY <2>1, <2>2
<1>4. sells' \in Seq(SellOrder)
  <2>1. sells \in Seq(SellOrder) /\ DOMAIN sells = 1 .. Len(sells) /\ Len(sells) \in Nat
    BY DEF Whole
  <2>2. sells' = [i \in DOMAIN sells |-> sells'[i]]
    BY DEF Cancel
  <2>3. sells' \in [1 .. Len(sells) -> SellOrder]
    BY <1>3, <2>1, <2>2
  <2>. QED
    BY <2>1, <2>3, IsASeq
<1>5. Whole'
  <2> SUFFICES ASSUME NEW i \in DOMAIN sells
               PROVE  /\ sells'[i].kind # "buy" /\ sells'[i].state # "canceling"
                      /\ sells'[i].filled = IF sells'[i].state = "filled" THEN sells'[i].qty ELSE 0
    BY <1>1, <1>4 DEF Whole
  <2>. QED
    BY <1>3 DEF Whole, Cancelable
<1>. QED
  BY <1>1, <1>3, <1>5 DEF Lapse, Live, Cancelable

LEMMA CancelOne ==
  ASSUME Whole, ~env.late, NEW k \in DOMAIN sells, Cancelable(k), sells[k].kind # "stop",
         sells' = Cancel({k})
  PROVE  ByExits' = ByExits - sells[k].qty
<1> DEFINE D == DOMAIN sells
<1> DEFINE e == ExitClaims'
<1>1. /\ Lapse /\ ~Live(sells'[k])
      /\ \A i \in D : i # k => sells'[i] = sells[i]
  BY CancelLapses
<1>2. IsFiniteSet(D) /\ IsFiniteSet(D \ {k}) /\ k \in D
  BY OrdersFinite, FS_Subset DEF Whole
<1>3. /\ \A i \in D : i # k => e[i] = ExitClaims[i]
      /\ e[k] = 0 /\ ExitClaims[k] = sells[k].qty
  BY <1>1 DEF Lapse, ExitClaims, Live, Cancelable
<1>4. \A i \in D : ExitClaims[i] \in Int /\ e[i] \in Int
  BY <1>3, ClaimValues
<1>5. ByExits = SumOf(ExitClaims, D) /\ ByExits' = SumOf(e, D)
  BY <1>1 DEF ByExits, Lapse
<1> HIDE DEF e, D
<1>6. SumOf(ExitClaims, D) = ExitClaims[k] + SumOf(ExitClaims, D \ {k})
  BY <1>2, <1>4, SumWithout
<1>7. SumOf(e, D) = e[k] + SumOf(e, D \ {k})
  BY <1>2, <1>4, SumWithout
<1>8. SumOf(e, D \ {k}) = SumOf(ExitClaims, D \ {k})
  BY <1>2, <1>3, SumSame
<1>9. SumOf(ExitClaims, D \ {k}) \in Int /\ sells[k].qty \in Int
  <2>1. SumOf(ExitClaims, D \ {k}) \in Int
    BY <1>2, <1>4, SumType
  <2>. QED
    BY <1>3, <1>4, <1>2, <2>1
<1>. QED
  BY <1>3, <1>5, <1>6, <1>7, <1>8, <1>9

(* Exits fill as a whole; a fill or a refusal claims no more than the order did. *)
LEMMA BrokerLapses ==
  ASSUME Tame, Whole, NEW k \in DOMAIN sells,
         SellFills(k) \/ SellRejected(k) \/ CancelTakesEffect(k)
  PROVE  Lapse
<1>1. \A i \in DOMAIN sells : sells[i] \in SellOrder
  BY DEF Whole
<1>2. sells[k].qty \in Nat /\ sells[k].qty \in 1 .. Qty
  BY <1>1, OrderFields, ExitAssumption
<1>3. sells[k].state # "canceling" /\ sells[k].kind # "buy"
  BY DEF Whole
<1>4. PICK o : /\ o \in SellOrder /\ sells' = [sells EXCEPT ![k] = o]
               /\ o.kind = sells[k].kind /\ o.qty = sells[k].qty /\ o.state # "canceling"
               /\ o.filled = IF o.state = "filled" THEN o.qty ELSE 0
               /\ Live(o) => Live(sells[k])
  <2>1. CASE SellFills(k)
    <3>1. sells[k].state = "working" /\ sells[k].filled = 0
      BY <1>3, <2>1 DEF SellFills, Alive, Whole
    <3>2. Amounts(sells[k].qty - sells[k].filled, "exit") = {sells[k].qty}
      BY <1>2, <3>1 DEF Amounts, Tame
    <3>3. sells' = [sells EXCEPT ![k].filled = @ + sells[k].qty,
                        ![k].state = IF sells[k].filled + sells[k].qty = sells[k].qty THEN "filled" ELSE @]
      BY <2>1, <3>2 DEF SellFills
    <3> DEFINE o == [sells[k] EXCEPT !.filled = sells[k].qty, !.state = "filled"]
    <3>4. /\ o \in SellOrder /\ o.kind = sells[k].kind /\ o.qty = sells[k].qty
          /\ o.state = "filled" /\ o.filled = sells[k].qty
      <4>1. sells[k] \in SellOrder /\ sells[k].qty \in 0 .. Qty
        BY <1>1, <1>2, ExitAssumption
      <4>. QED
        BY <4>1 DEF SellOrder
    <3>5. sells' = [sells EXCEPT ![k] = o]
      <4>1. sells[k].filled + sells[k].qty = sells[k].qty
        BY <1>2, <3>1
      <4>2. [sells[k] EXCEPT !.filled = @ + sells[k].qty,
                !.state = IF sells[k].filled + sells[k].qty = sells[k].qty THEN "filled" ELSE @] = o
        BY <4>1
      <4>. QED
        BY <3>3, <4>2
    <3> HIDE DEF o
    <3>. QED
      BY <3>1, <3>4, <3>5 DEF Live
  <2>2. CASE SellRejected(k)
    <3>1. sells[k].state = "working" /\ sells[k].filled = 0
      BY <2>2 DEF SellRejected, Whole
    <3> DEFINE o == [sells[k] EXCEPT !.state = "rejected"]
    <3>2. /\ o \in SellOrder /\ o.kind = sells[k].kind /\ o.qty = sells[k].qty
          /\ o.state = "rejected" /\ o.filled = 0
      BY <1>1, <3>1 DEF SellOrder
    <3>3. sells' = [sells EXCEPT ![k] = o]
      BY <2>2, <3>1 DEF SellRejected
    <3> HIDE DEF o
    <3>. QED
      BY <3>1, <3>2, <3>3 DEF Live
  <2>3. CASE CancelTakesEffect(k)
    BY <1>3, <2>3 DEF CancelTakesEffect
  <2>. QED
    BY <2>1, <2>2, <2>3
<1>5. /\ sells' \in Seq(SellOrder) /\ DOMAIN sells' = DOMAIN sells
      /\ sells'[k] = o /\ \A i \in DOMAIN sells : i # k => sells'[i] = sells[i]
  BY <1>4 DEF Whole
<1>6. Whole'
  <2>1. \A i \in DOMAIN sells :
          /\ sells'[i].kind # "buy" /\ sells'[i].state # "canceling"
          /\ sells'[i].filled = IF sells'[i].state = "filled" THEN sells'[i].qty ELSE 0
    BY <1>3, <1>4, <1>5 DEF Whole
  <2>. QED
    BY <1>5, <2>1 DEF Whole
<1>. QED
  BY <1>4, <1>5, <1>6 DEF Lapse

(* The totals of the model are those of the invariant. *)
LEMMA SoldAndResting ==
  ASSUME Whole
  PROVE  /\ Sold \in Int /\ Resting \in Nat
         /\ Sold + Resting = ByExits + ByStops
         /\ Exiting = ByExits
<1> DEFINE D == DOMAIN sells
<1> DEFINE sold == [i \in D |-> IF sells[i].kind = "buy" THEN -sells[i].filled ELSE sells[i].filled]
<1> DEFINE rest == [i \in D |-> Unfilled(sells[i])]
<1> DEFINE exit == [i \in D |-> IF Counts(sells[i]) THEN sells[i].qty ELSE 0]
<1> DEFINE both == [i \in D |-> ExitClaims[i] + StopClaims[i]]
<1>1. Sold = SumOf(sold, D)
  BY ZenonT(40) DEF Sold, FoldSeq, FoldFunction, FoldFunctionOnSet, SumOf, MapThenSumSet, MapThenFoldSet
<1>2. Resting = SumOf(rest, D)
  BY DEF Resting, FoldSeq, FoldFunction, FoldFunctionOnSet, SumOf, MapThenSumSet, MapThenFoldSet
<1>3. Exiting = SumOf(exit, D)
  BY DEF Exiting, FoldSeq, FoldFunction, FoldFunctionOnSet, SumOf, MapThenSumSet, MapThenFoldSet
<1>4. \A i \in D : sells[i] \in SellOrder
  BY DEF Whole
<1>5. \A i \in D : /\ sold[i] \in Nat /\ rest[i] \in Nat /\ exit[i] = ExitClaims[i]
                   /\ sold[i] + rest[i] = both[i]
  <2> SUFFICES ASSUME NEW i \in D
               PROVE  /\ sold[i] \in Nat /\ rest[i] \in Nat /\ exit[i] = ExitClaims[i]
                      /\ sold[i] + rest[i] = both[i]
    OBVIOUS
  <2>1. /\ sells[i].qty \in Nat
        /\ sells[i].state \in {"working", "filled", "canceled", "rejected"}
        /\ sells[i].kind \in {"stop", "limit", "market"}
        /\ sells[i].filled = IF sells[i].state = "filled" THEN sells[i].qty ELSE 0
    BY <1>4, OrderFields, ExitAssumption DEF Whole
  <2>. QED
    BY <2>1 DEF Unfilled, Alive, Counts, ExitClaims, StopClaims, Live
<1>6. \A i \in D : ExitClaims[i] \in Nat /\ StopClaims[i] \in Nat /\ both[i] = ExitClaims[i] + StopClaims[i]
  BY ClaimValues
<1>7. IsFiniteSet(D)
  BY OrdersFinite DEF Whole
<1>8. ByExits = SumOf(ExitClaims, D) /\ ByStops = SumOf(StopClaims, D)
  BY DEF ByExits, ByStops
<1> HIDE DEF D, sold, rest, exit, both
<1>9. SumOf(exit, D) = SumOf(ExitClaims, D)
  BY <1>5, <1>7, SumSame
<1>10. SumOf(both, D) = SumOf(ExitClaims, D) + SumOf(StopClaims, D)
  BY <1>6, <1>7, SumAdds
<1>11. SumOf(both, D) = SumOf(sold, D) + SumOf(rest, D)
  BY <1>5, <1>7, SumAdds
<1>12. SumOf(sold, D) \in Nat /\ SumOf(rest, D) \in Nat
  BY <1>5, <1>7, SumType
<1>. QED
  BY <1>1, <1>2, <1>3, <1>8, <1>9, <1>10, <1>11, <1>12

-----------------------------------------------------------------------------
(* Records *)

LEMMA RecordFields ==
  ASSUME NEW r \in Record
  PROVE  /\ r.of \in Source \cup {"entry"}
         /\ r.filled \in 0 .. Qty /\ r.covered \in 0 .. Qty /\ r.stopQty \in 0 .. Qty
         /\ r.breach \in 0 .. Confirm
         /\ r.stops \in SUBSET Nat /\ r.active \in SUBSET Software
         /\ r.retries \in [Software -> 0 .. MaxRetries]
         /\ r.order \in [Source -> Nat]
         /\ r.submitted \in [Source -> 0 .. Qty] /\ r.closed \in [Source -> 0 .. Qty]
         /\ r.exit \in [Source -> {"none", "partial", "filled", "failed"}]
         /\ r.targets \in Seq(Target)
BY DEF Record

LEMMA TargetFields ==
  ASSUME NEW t \in Target
  PROVE  /\ t.qty \in 1 .. Qty /\ t.filled \in 0 .. Qty /\ t.order \in Nat /\ t.cycle \in Nat
         /\ t.resting \in BOOLEAN
         /\ t.state \in {"pending", "submitted", "partial", "filled", "failed", "skipped"}
BY DEF Target

LEMMA Quantities ==
  ASSUME NEW r \in Record
  PROVE  /\ r.filled \in Nat /\ r.covered \in Nat /\ r.stopQty \in Nat
         /\ \A s \in Source : r.closed[s] \in Nat /\ r.submitted[s] \in Nat
         /\ Booked(r) \in Nat /\ Left(r, 1) \in Nat /\ Left(r, 2) \in Nat
<1>1. /\ r.filled \in Nat /\ r.covered \in Nat /\ r.stopQty \in Nat
      /\ \A s \in Source : r.closed[s] \in Nat /\ r.submitted[s] \in Nat
  BY RecordFields, ExitAssumption
<1>2. Booked(r) \in Nat
  BY <1>1 DEF Booked, Source
<1>3. \A k \in DOMAIN r.targets : r.targets[k].qty \in Nat
  <2>1. r.targets \in Seq(Target)
    BY RecordFields
  <2>2. \A k \in DOMAIN r.targets : r.targets[k] \in Target
    BY <2>1
  <2>. QED
    BY <2>2, TargetFields, ExitAssumption
<1>. QED
  BY <1>1, <1>2, <1>3 DEF Left

(* What is closed was submitted, so what is submitted is all that counts. *)
LEMMA ClosedOrPendingIsBooked ==
  ASSUME NEW r \in Record, \A s \in Source : r.closed[s] <= r.submitted[s]
  PROVE  ClosedOrPending(r) = Booked(r)
<1> DEFINE f == [s \in Source |-> Max({r.closed[s], r.submitted[s]})]
<1>1. ClosedOrPending(r) = SumOf(f, Source)
  BY ZenonT(40) DEF ClosedOrPending, SumOf, MapThenSumSet, MapThenFoldSet
<1>2. \A s \in Source : f[s] = r.submitted[s] /\ f[s] \in Int
  <2> SUFFICES ASSUME NEW s \in Source PROVE f[s] = r.submitted[s] /\ f[s] \in Int
    OBVIOUS
  <2>1. r.closed[s] \in Int /\ r.submitted[s] \in Int /\ r.closed[s] <= r.submitted[s]
    BY Quantities
  <2>2. Max({r.closed[s], r.submitted[s]}) = r.submitted[s]
    BY <2>1, MaxOfTwo
  <2>. QED
    BY <2>1, <2>2
<1> HIDE DEF f
<1>3. IsFiniteSet({"stop"}) /\ IsFiniteSet({"stop", "tp"}) /\ IsFiniteSet({"stop", "tp", "smart"})
  <2>1. IsFiniteSet({"stop"})
    BY FS_Singleton
  <2>2. IsFiniteSet({"stop"} \cup {"tp"}) /\ {"stop"} \cup {"tp"} = {"stop", "tp"}
    BY <2>1, FS_AddElement
  <2>3. /\ IsFiniteSet({"stop", "tp"} \cup {"smart"})
        /\ {"stop", "tp"} \cup {"smart"} = {"stop", "tp", "smart"}
    BY <2>2, FS_AddElement
  <2>. QED
    BY <2>1, <2>2, <2>3
<1>4. SumOf(f, {"stop"}) = f["stop"]
  <2>1. SumOf(f, {} \cup {"stop"}) = SumOf(f, {}) + f["stop"]
    BY <1>2, FS_EmptySet, SumWith DEF Source
  <2>2. {} \cup {"stop"} = {"stop"}
    OBVIOUS
  <2>. QED
    BY <1>2, <2>1, <2>2, SumEmpty DEF Source
<1>5. SumOf(f, {"stop", "tp"}) = f["stop"] + f["tp"]
  <2>1. SumOf(f, {"stop"} \cup {"tp"}) = SumOf(f, {"stop"}) + f["tp"]
    BY <1>2, <1>3, SumWith DEF Source
  <2>2. {"stop"} \cup {"tp"} = {"stop", "tp"}
    OBVIOUS
  <2>. QED
    BY <1>4, <2>1, <2>2
<1>6. SumOf(f, {"stop", "tp", "smart"}) = f["stop"] + f["tp"] + f["smart"]
  <2>1. SumOf(f, {"stop", "tp"} \cup {"smart"}) = SumOf(f, {"stop", "tp"}) + f["smart"]
    BY <1>2, <1>3, SumWith DEF Source
  <2>2. {"stop", "tp"} \cup {"smart"} = {"stop", "tp", "smart"}
    OBVIOUS
  <2>. QED
    BY <1>5, <2>1, <2>2
<1>7. SumOf(f, Source) = f["stop"] + f["tp"] + f["smart"] + f["flatten"]
  <2>1. SumOf(f, {"stop", "tp", "smart"} \cup {"flatten"}) = SumOf(f, {"stop", "tp", "smart"}) + f["flatten"]
    BY ZenonT(40), <1>2, <1>3, SumWith DEF Source
  <2>2. {"stop", "tp", "smart"} \cup {"flatten"} = Source
    BY DEF Source
  <2>. QED
    BY <1>6, <2>1, <2>2
<1>. QED
  BY <1>1, <1>2, <1>7 DEF Booked, Source

LEMMA Remaining ==
  ASSUME NEW r \in Record, Sound(r)
  PROVE  /\ ClosedOrPending(r) = Booked(r)
         /\ r.filled > 0 => RemainingOpen(r) = r.filled - Booked(r)
         /\ RemainingOpen(r) \in Nat
         /\ Max({0, r.filled - ClosedOrPending(r)}) = r.filled - Booked(r)
<1>1. ClosedOrPending(r) = Booked(r) /\ Booked(r) <= r.filled
  BY ClosedOrPendingIsBooked DEF Sound
<1>2. Booked(r) \in Nat /\ r.filled \in Nat /\ Qty \in Nat
  BY Quantities, ExitAssumption
<1> DEFINE open == (IF r.filled = 0 THEN Qty ELSE r.filled) - ClosedOrPending(r)
<1>3. open \in Int /\ r.filled - ClosedOrPending(r) \in Int
  BY <1>1, <1>2
<1>4. RemainingOpen(r) = IF 0 >= open THEN 0 ELSE open
  BY <1>3, MaxOfTwo DEF RemainingOpen
<1>5. Max({0, r.filled - ClosedOrPending(r)})
        = IF 0 >= r.filled - ClosedOrPending(r) THEN 0 ELSE r.filled - ClosedOrPending(r)
  BY <1>3, MaxOfTwo
<1>. QED
  BY SMTT(30), <1>1, <1>2, <1>3, <1>4, <1>5

(* The fields the claims are counted by, which most of the handlers leave. *)
Kin(r, q) ==
    /\ q \in Record /\ q.alert = r.alert
    /\ q.filled = r.filled /\ q.covered = r.covered /\ q.stops = r.stops
    /\ q.submitted = r.submitted /\ q.closed = r.closed
    /\ q.order = r.order /\ q.targets = r.targets

(* The same, whatever has been noted of a quote that is missing *)
Near(r, q) ==
    /\ q \in Record
    /\ q.filled = r.filled /\ q.covered = r.covered /\ q.stops = r.stops
    /\ q.submitted = r.submitted /\ q.closed = r.closed
    /\ q.order = r.order /\ q.targets = r.targets

LEMMA KinNear == ASSUME NEW r, NEW q, Kin(r, q) PROVE Near(r, q)
BY DEF Kin, Near

LEMMA StatusKin ==
  ASSUME NEW r \in Record, NEW of \in Source \cup {"entry"},
         NEW is \in {"pending", "partial", "attached", "unsupported", "unfilled",
                     "submitted", "filled", "failed", "retry"}
  PROVE  /\ Kin(r, Status(r, of, is))
         /\ Status(r, of, is).of = of /\ Status(r, of, is).is = is
         /\ Status(r, of, is).active = r.active /\ Status(r, of, is).stopQty = r.stopQty
BY DEF Kin, Record, Status

LEMMA ActivateKin ==
  ASSUME NEW r \in Record, NEW s \in Software
  PROVE  /\ Kin(r, Activate(r, s, TRUE)) /\ Kin(r, Activate(r, s, FALSE))
         /\ Activate(r, s, TRUE).active = r.active \cup {s}
         /\ Activate(r, s, FALSE).active = r.active \ {s}
         /\ Activate(r, s, TRUE).of = r.of /\ Activate(r, s, FALSE).of = r.of
         /\ Activate(r, s, TRUE).is = r.is /\ Activate(r, s, FALSE).is = r.is
         /\ Activate(r, s, TRUE).stopQty = r.stopQty /\ Activate(r, s, FALSE).stopQty = r.stopQty
BY ZenonT(40) DEF Kin, Record, Activate

LEMMA StopQtyKin ==
  ASSUME NEW r \in Record, NEW qty \in 0 .. Qty
  PROVE  /\ Kin(r, [r EXCEPT !.stopQty = qty]) /\ [r EXCEPT !.stopQty = qty].stopQty = qty
         /\ [r EXCEPT !.stopQty = qty].active = r.active
         /\ [r EXCEPT !.stopQty = qty].of = r.of /\ [r EXCEPT !.stopQty = qty].is = r.is
BY DEF Kin, Record

LEMMA ArmStopKin ==
  ASSUME NEW r \in Record, NEW qty \in 0 .. Qty
  PROVE  /\ Kin(r, ArmStop(r, qty)) /\ ArmStop(r, qty).stopQty = qty
         /\ ArmStop(r, qty).active = r.active \cup {"stop"}
         /\ ArmStop(r, qty).of = r.of /\ ArmStop(r, qty).is = r.is
<1> DEFINE q == Activate(r, "stop", TRUE)
<1>1. /\ Kin(r, q) /\ q.active = r.active \cup {"stop"} /\ q.of = r.of /\ q.is = r.is
  BY ActivateKin DEF Software
<1>2. ArmStop(r, qty) = [q EXCEPT !.stopQty = qty]
  BY DEF ArmStop
<1> HIDE DEF q
<1>. QED
  BY <1>1, <1>2, StopQtyKin DEF Kin

LEMMA RetryKin ==
  ASSUME NEW r \in Record, NEW s \in Software
  PROVE  /\ Kin(r, Retry(r, s))
         /\ Retry(r, s).of = s /\ Retry(r, s).is \in {"retry", "failed"}
         /\ Retry(r, s).is = "retry" => s \in Retry(r, s).active
         /\ \A x \in Software \ {s} : x \in Retry(r, s).active <=> x \in r.active
         /\ Retry(r, s).stopQty = r.stopQty
<1> DEFINE n == Min({r.retries[s] + 1, MaxRetries})
<1> DEFINE t == [r EXCEPT !.retries[s] = n]
<1> DEFINE on == n < MaxRetries
<1> DEFINE q == Activate(t, s, on)
<1>1. n \in 0 .. MaxRetries
  <2>1. r.retries[s] \in 0 .. MaxRetries /\ MaxRetries \in Nat
    BY RecordFields, ExitAssumption
  <2>2. n = IF r.retries[s] + 1 <= MaxRetries THEN r.retries[s] + 1 ELSE MaxRetries
    BY <2>1, MinOfTwo
  <2>. QED
    BY <2>1, <2>2
<1> HIDE DEF n
<1>2. /\ t \in Record /\ t.alert = r.alert /\ Kin(r, t)
      /\ t.active = r.active /\ t.stopQty = r.stopQty
  BY <1>1 DEF Record, Kin
<1>3. on \in BOOLEAN /\ s \in Source
  BY DEF Software, Source
<1> HIDE DEF t, on
<1>4. /\ Kin(t, q) /\ q.active = (IF on THEN t.active \cup {s} ELSE t.active \ {s})
      /\ q.stopQty = t.stopQty
  <2>1. on => q = Activate(t, s, TRUE)
    BY <1>3
  <2>2. ~on => q = Activate(t, s, FALSE)
    BY <1>3
  <2>3. /\ Kin(t, Activate(t, s, TRUE)) /\ Kin(t, Activate(t, s, FALSE))
        /\ Activate(t, s, TRUE).active = t.active \cup {s}
        /\ Activate(t, s, FALSE).active = t.active \ {s}
        /\ Activate(t, s, TRUE).stopQty = t.stopQty /\ Activate(t, s, FALSE).stopQty = t.stopQty
    BY <1>2, ActivateKin
  <2> HIDE DEF q
  <2>. QED
    BY <2>1, <2>2, <2>3
<1>5. q \in Record /\ q.alert = r.alert
  BY <1>2, <1>4 DEF Kin
<1> HIDE DEF q
<1>6. Retry(r, s) = Status(q, s, IF on THEN "retry" ELSE "failed")
  BY DEF Retry, q, t, on, n
<1> DEFINE is == IF on THEN "retry" ELSE "failed"
<1>7. is \in {"retry", "failed"} /\ (is = "retry" => on)
  OBVIOUS
<1> HIDE DEF is
<1>8. /\ Kin(q, Status(q, s, is)) /\ Status(q, s, is).of = s /\ Status(q, s, is).is = is
      /\ Status(q, s, is).active = q.active /\ Status(q, s, is).stopQty = q.stopQty
  BY <1>3, <1>5, <1>7, StatusKin
<1>9. Retry(r, s) = Status(q, s, is)
  BY <1>6 DEF is
<1>. QED
  BY <1>2, <1>4, <1>7, <1>8, <1>9 DEF Kin

LEMMA NoAlertKin ==
  ASSUME NEW r \in Record, ~r.alert
  PROVE  NoAlert(r) = r
BY DEF NoAlert, Record

(* q is r with one more exit submitted. *)
SentAs(r, s, qty, q) ==
    /\ q \in Record /\ q.alert = r.alert
    /\ q.filled = r.filled /\ q.covered = r.covered /\ q.stops = r.stops
    /\ q.closed = r.closed /\ q.targets = r.targets
    /\ q.active = r.active /\ q.stopQty = r.stopQty
    /\ q.of = s /\ q.is = "submitted"
    /\ q.submitted = [r.submitted EXCEPT ![s] = qty]
    /\ q.order = [r.order EXCEPT ![s] = NewId]

LEMMA SubmittedFields ==
  ASSUME NEW r \in Record, NEW s \in Source, NEW qty \in 0 .. Qty, NewId \in Nat
  PROVE  SentAs(r, s, qty, Submitted(r, s, qty))
<1> DEFINE id == NewId
<1> HIDE DEF id
<1> DEFINE q == [r EXCEPT !.order[s] = id, !.submitted[s] = qty]
<1>1. id \in Nat /\ Submitted(r, s, qty) = Status(q, s, "submitted")
  BY DEF Submitted, id
<1>2. /\ q \in Record /\ q.alert = r.alert /\ q.filled = r.filled /\ q.covered = r.covered
      /\ q.stops = r.stops /\ q.closed = r.closed /\ q.targets = r.targets
      /\ q.active = r.active /\ q.stopQty = r.stopQty
      /\ q.submitted = [r.submitted EXCEPT ![s] = qty]
      /\ q.order = [r.order EXCEPT ![s] = id]
  BY <1>1 DEF Record
<1> HIDE DEF q
<1>3. /\ Kin(q, Status(q, s, "submitted"))
      /\ Status(q, s, "submitted").of = s /\ Status(q, s, "submitted").is = "submitted"
      /\ Status(q, s, "submitted").active = q.active /\ Status(q, s, "submitted").stopQty = q.stopQty
  BY <1>2, StatusKin
<1>. QED
  BY <1>1, <1>2, <1>3 DEF Kin, id, SentAs

-----------------------------------------------------------------------------
(* What keeps the record in step with the broker *)

(* An alteration of the status, or of what is active, that arms no take profit
   and arms a software stop only for all that is left, with no stop beside it. *)
LEMMA KinFits ==
  ASSUME NEW r, NEW q, Fits(r), Kin(r, q),
         q.of = "entry" => r.of = "entry", "tp" \in q.active => "tp" \in r.active,
         "stop" \in q.active => /\ ByStops = 0 /\ q.filled > 0 /\ ~AwaitsFills(q)
                                /\ q.stopQty >= q.filled - Booked(q)
  PROVE  Fits(q) /\ Booked(q) = Booked(r)
<1>1. q \in Record /\ Booked(q) = Booked(r) /\ Left(q, 1) = Left(r, 1) /\ Left(q, 2) = Left(r, 2)
  BY DEF Kin, Booked, Left
<1>2. Sound(q)
  <2>1. /\ q.filled <= entry.filled /\ q.covered <= q.filled
        /\ \A s \in Source : q.closed[s] <= q.submitted[s]
        /\ Booked(q) <= q.filled /\ Len(q.targets) <= 2
        /\ q.submitted["stop"] + q.submitted["smart"] > 0 => Booked(q) = q.filled
        /\ q.of = "entry" => Booked(q) = 0
    BY <1>1 DEF Fits, Sound, Kin
  <2>2. q.active \cap {"stop", "tp"} # {} => q.filled > 0
    BY <1>1 DEF Fits, Sound, Kin
  <2>3. "tp" \in q.active => Left(q, 1) + Left(q, 2) <= q.filled - Booked(q)
    BY <1>1 DEF Fits, Sound, Kin
  <2>. QED
    BY <2>1, <2>2, <2>3 DEF Sound
<1>3. StopsAreKnown(q)
  BY DEF Fits, StopsAreKnown, Kin
<1>4. ExitsAreKnown(q)
  BY DEF Fits, ExitsAreKnown, Kin
<1>. QED
  BY <1>1, <1>2, <1>3, <1>4 DEF Fits, Kin

(* The same, when a stop that is armed is the one that was. *)
LEMMA KinKeepsStop ==
  ASSUME NEW r, NEW q, Fits(r), Kin(r, q),
         q.of = "entry" => r.of = "entry", "tp" \in q.active => "tp" \in r.active,
         "stop" \in q.active => /\ "stop" \in r.active /\ ~AwaitsFills(q)
                                /\ q.stopQty = r.stopQty
  PROVE  Fits(q) /\ Booked(q) = Booked(r)
<1>1. Booked(q) = Booked(r) /\ q.filled = r.filled
  BY DEF Kin, Booked
<1>2. ASSUME "stop" \in q.active
      PROVE  /\ ByStops = 0 /\ q.filled > 0 /\ ~AwaitsFills(q)
             /\ q.stopQty >= q.filled - Booked(q)
  BY <1>1, <1>2 DEF Fits, Sound, StopsAreKnown
<1>. QED
  BY <1>2, KinFits

LEMMA SameLapses == ASSUME Whole, sells' = sells PROVE Lapse
BY DEF Whole, Lapse

LEMMA FitsCarries ==
  ASSUME NEW q, Fits(q), copy' = q, env' = env, Whole, Lapse,
         entry.filled \in Nat, entry'.filled \in Nat, entry.filled <= entry'.filled
  PROVE  Fits(copy)'
<1>1. /\ ByStops' <= ByStops /\ ByStops \in Nat /\ ByStops' \in Nat
      /\ DOMAIN sells' = DOMAIN sells
      /\ \A i \in DOMAIN sells : /\ sells'[i].kind = sells[i].kind /\ sells'[i].qty = sells[i].qty
                                 /\ Live(sells'[i]) => Live(sells[i])
  <2>1. Whole'
    BY DEF Lapse
  <2>2. ByStops' \in Nat
    BY <2>1, ClaimTypesNext
  <2>. QED
    BY <2>2, LapseShrinks, ClaimValues DEF Lapse
<1>2. q \in Record /\ Sound(q) /\ StopsAreKnown(q) /\ ExitsAreKnown(q)
  BY DEF Fits
<1>3. q.filled \in Nat /\ q.covered \in Nat
  BY <1>2, Quantities
<1>4. Sound(copy)'
  <2>1. q.filled <= entry'.filled
    BY <1>2, <1>3 DEF Sound
  <2>. QED
    BY <1>2, <2>1 DEF Sound, Booked, Left, AwaitsFills
<1>5. StopsAreKnown(copy)'
  BY <1>1, <1>2, <1>3 DEF StopsAreKnown
<1>6. ExitsAreKnown(copy)'
  BY <1>1, <1>2 DEF ExitsAreKnown
<1>. QED
  BY <1>2, <1>4, <1>5, <1>6 DEF Fits

Between == {"attach", "stop", "tp", "smart", "rows", "persist"}

(* Between two parts of a pass nothing is asked but that the copy fits. *)
LEMMA ReachesBetween ==
  ASSUME Types', Fits(copy)', pc' \in Between,
         ByExits' <= Booked(copy'), ByExits' + ByStops' <= entry'.filled
  PROVE  ExitInv'
<1>1. /\ ~Walking' /\ ~Reconciling' /\ ~Flattening' /\ Flying' = 0
      /\ pc' \notin {"idle", "escalate", "attachStop", "tpClose", "smartClose", "flattenClose"}
  BY DEF Between, Walking, Reconciling, Flattening, Flying
<1>2. RowsAreKnown'
  BY <1>1 DEF RowsAreKnown
<1>3. Midway'
  BY <1>1 DEF Midway
<1>4. Claims'
  <2>1. ByExits' \in Nat /\ ByStops' \in Nat
    <3>1. Whole'
      BY DEF Types
    <3>. QED
      BY <3>1, ClaimTypesNext
  <2>2. Booked(copy)' = Booked(copy')
    BY DEF Booked
  <2>. QED
    BY <1>1, <2>1, <2>2 DEF Claims
<1>. QED
  BY <1>2, <1>3, <1>4 DEF ExitInv

(* What every step may use *)
LEMMA Facts ==
  ASSUME ExitInv
  PROVE  /\ Tame /\ Whole /\ Fits(copy)
         /\ copy \in Record /\ Sound(copy) /\ ~copy.alert
         /\ StopsAreKnown(copy) /\ ExitsAreKnown(copy)
         /\ entry.filled \in Nat /\ entry.filled \in 0 .. Qty
         /\ ByExits \in Nat /\ ByStops \in Nat /\ Booked(copy) \in Nat /\ copy.filled \in Nat
         /\ copy.filled <= entry.filled /\ Booked(copy) <= copy.filled
         /\ ~Walking => ByExits <= Booked(copy) /\ ByExits + ByStops <= entry.filled
<1>1. Types /\ Tame /\ Whole /\ Fits(copy) /\ copy \in Record /\ Sound(copy) /\ ~copy.alert
      /\ StopsAreKnown(copy) /\ ExitsAreKnown(copy)
  BY DEF ExitInv, Types, Fits
<1>2. entry.filled \in Nat /\ entry.filled \in 0 .. Qty
  BY <1>1, ExitAssumption DEF Types
<1>3. ByExits \in Nat /\ ByStops \in Nat
  BY <1>1, ClaimValues
<1>4. Booked(copy) \in Nat /\ copy.filled \in Nat
  BY <1>1, Quantities
<1>5. ~Walking => ByExits <= Booked(copy) /\ ByExits + ByStops <= entry.filled
  BY <1>3 DEF ExitInv, Claims, Flying
<1>. QED
  BY <1>1, <1>2, <1>3, <1>4, <1>5 DEF Sound

LEMMA BookingFacts ==
  ASSUME Booking
  PROVE  /\ copy \in Record /\ Sound(copy) /\ Ordered(copy) /\ sells \in Seq(SellOrder)
         /\ entry.filled \in Nat /\ entry.filled \in 0 .. Qty
         /\ Booked(copy) \in Nat /\ copy.filled \in Nat
         /\ copy.filled <= entry.filled /\ Booked(copy) <= copy.filled
         /\ NewId \in Nat /\ NewId \notin DOMAIN sells
<1>1. copy \in Record /\ Sound(copy) /\ Ordered(copy) /\ sells \in Seq(SellOrder)
  BY DEF Booking
<1>2. entry.filled \in Nat /\ entry.filled \in 0 .. Qty
  BY ExitAssumption DEF Booking
<1>3. Booked(copy) \in Nat /\ copy.filled \in Nat
  BY <1>1, Quantities
<1>4. NewId \in Nat /\ NewId \notin DOMAIN sells
  BY <1>1 DEF NewId
<1>. QED
  BY <1>1, <1>2, <1>3, <1>4 DEF Sound

LEMMA ExitBooking == ASSUME ExitInv PROVE Booking
<1>1. Ordered(copy)
  BY Facts DEF ExitsAreKnown, Ordered
<1>. QED
  BY <1>1, Facts DEF Booking, ExitInv, Types, Whole

(* A step that leaves broker, rows and answers alone and goes on in the pass *)
LEMMA GoesOn ==
  ASSUME ExitInv, NEW q, copy' = q, Fits(q), Booked(q) = Booked(copy),
         UNCHANGED <<env, entry, rows, seen>>, Lapse, ~Walking, pc' \in Between
  PROVE  ExitInv'
<1>1. Fits(copy)'
  BY Facts, FitsCarries
<1>2. Types'
  BY DEF ExitInv, Types, Tame, Lapse
<1>3. ByExits' <= ByExits /\ ByStops' <= ByStops
  BY Facts, LapseShrinks
<1>4. ByExits' \in Nat /\ ByStops' \in Nat
  <2>1. Whole'
    BY DEF Lapse
  <2>. QED
    BY <2>1, ClaimTypesNext
<1>5. ByExits' <= Booked(copy') /\ ByExits' + ByStops' <= entry'.filled
  BY <1>3, <1>4, Facts
<1>. QED
  BY <1>1, <1>2, <1>5, ReachesBetween

-----------------------------------------------------------------------------
(* Attaching *)

LEMMA NoOutage == ASSUME ExitInv, NEW r, NEW s PROVE AsksQuote(r, s) = r
BY DEF ExitInv, Types, Tame, AsksQuote

LEMMA SameOrders == ASSUME ExitInv, sells' = sells PROVE Lapse
BY Facts, SameLapses

LEMMA StepsKeepingCopy ==
  ASSUME ExitInv,
         BeginPass \/ AttachNotNeeded \/ AttachLookFails \/ AttachStopFails \/ StopIdle
           \/ TakeProfitIdle \/ RowsDone
  PROVE  ExitInv'
<1>1. copy' = copy
  BY NoOutage DEF BeginPass, AttachNotNeeded, AttachLookFails, AttachStopFails, StopIdle,
                  TakeProfitIdle, RowsDone, ExitInv, Midway
<1>2. UNCHANGED <<env, entry, sells, rows, seen>>
  BY DEF BeginPass, AttachNotNeeded, AttachLookFails, AttachStopFails, StopIdle,
         TakeProfitIdle, RowsDone, ExitInv, Types, Tame, SubmitLost
<1>3. ~Walking /\ pc' \in Between
  BY DEF BeginPass, AttachNotNeeded, AttachLookFails, AttachStopFails, StopIdle,
         TakeProfitIdle, RowsDone, Continue, Walking, Between
<1>. QED
  BY <1>1, <1>2, <1>3, Facts, SameOrders, GoesOn

(* As long as the monitor waits for fills nothing is submitted. *)
LEMMA NothingSent ==
  ASSUME NEW r \in Record, Sound(r), r.of = "entry"
  PROVE  Booked(r) = 0 /\ \A s \in Source : r.submitted[s] = 0
<1> DEFINE a == r.submitted["stop"]
<1> DEFINE b == r.submitted["tp"]
<1> DEFINE c == r.submitted["smart"]
<1> DEFINE d == r.submitted["flatten"]
<1>1. a \in Nat /\ b \in Nat /\ c \in Nat /\ d \in Nat
  BY Quantities DEF Source
<1>2. Booked(r) = 0 /\ Booked(r) = a + b + c + d
  BY DEF Sound, Booked
<1>3. \A s \in Source : r.submitted[s] \in {a, b, c, d}
  BY DEF Source
<1> HIDE DEF a, b, c, d
<1>4. a = 0 /\ b = 0 /\ c = 0 /\ d = 0
  BY <1>1, <1>2
<1>. QED
  BY <1>2, <1>3, <1>4

(* Fills that come to be known leave more to sell. *)
LEMMA FillsSound ==
  ASSUME NEW r \in Record, Sound(r), AwaitsFills(r), NEW n \in 0 .. Qty, r.filled <= n,
         n <= entry.filled, NEW q, q = [r EXCEPT !.filled = n]
  PROVE  /\ Sound(q) /\ AwaitsFills(q) /\ Booked(q) = Booked(r) /\ "stop" \notin q.active
         /\ q \in Record /\ q.alert = r.alert /\ q.filled = n /\ q.covered = r.covered
         /\ q.stops = r.stops
         /\ q.submitted = r.submitted /\ q.closed = r.closed /\ q.order = r.order
         /\ q.targets = r.targets /\ q.active = r.active /\ q.of = r.of /\ q.is = r.is
         /\ q.stopQty = r.stopQty
<1>2. /\ q \in Record /\ q.alert = r.alert /\ q.filled = n /\ q.covered = r.covered
      /\ q.stops = r.stops
      /\ q.submitted = r.submitted /\ q.closed = r.closed /\ q.order = r.order
      /\ q.targets = r.targets /\ q.active = r.active /\ q.of = r.of /\ q.is = r.is
      /\ q.stopQty = r.stopQty
  BY DEF Record
<1>3. /\ Booked(q) = Booked(r) /\ Left(q, 1) = Left(r, 1) /\ Left(q, 2) = Left(r, 2)
      /\ AwaitsFills(q)
  BY <1>2 DEF Booked, Left, AwaitsFills
<1>4. /\ Booked(r) = 0 /\ r.submitted["stop"] = 0 /\ r.submitted["smart"] = 0
      /\ r.filled \in Nat /\ r.covered \in Nat /\ n \in Nat
      /\ Left(r, 1) \in Nat /\ Left(r, 2) \in Nat
  BY NothingSent, Quantities, ExitAssumption DEF AwaitsFills, Source
<1>5. "stop" \notin q.active
  BY <1>2 DEF Sound
<1>6. Sound(q)
  <2>1. q.filled <= entry.filled /\ q.covered <= q.filled /\ Len(q.targets) <= 2
    BY <1>2, <1>4 DEF Sound
  <2>2. \A s \in Source : q.closed[s] <= q.submitted[s]
    BY <1>2 DEF Sound
  <2>3. /\ Booked(q) <= q.filled /\ Booked(q) = 0
        /\ ~(q.submitted["stop"] + q.submitted["smart"] > 0)
    BY <1>2, <1>3, <1>4
  <2>4. q.active \cap {"stop", "tp"} # {} => q.filled > 0
    BY <1>2, <1>4 DEF Sound
  <2>5. "tp" \in q.active => Left(q, 1) + Left(q, 2) <= q.filled - Booked(q)
    BY <1>2, <1>3, <1>4 DEF Sound
  <2>. QED
    BY <1>5, <2>1, <2>2, <2>3, <2>4, <2>5 DEF Sound
<1>. QED
  BY <1>2, <1>3, <1>5, <1>6

LEMMA FillsKnown ==
  ASSUME NEW r, Fits(r), AwaitsFills(r), NEW n \in 0 .. Qty, r.filled <= n, n <= entry.filled
  PROVE  /\ Fits([r EXCEPT !.filled = n]) /\ AwaitsFills([r EXCEPT !.filled = n])
         /\ Booked([r EXCEPT !.filled = n]) = Booked(r)
         /\ [r EXCEPT !.filled = n].filled = n /\ [r EXCEPT !.filled = n].covered = r.covered
<1> DEFINE q == [r EXCEPT !.filled = n]
<1>1. r \in Record /\ Sound(r)
  BY DEF Fits
<1>2. /\ q \in Record /\ q.alert = r.alert /\ q.filled = n /\ q.covered = r.covered
      /\ q.stops = r.stops /\ q.submitted = r.submitted /\ q.order = r.order
      /\ q.targets = r.targets /\ q.active = r.active
      /\ Sound(q) /\ AwaitsFills(q) /\ Booked(q) = Booked(r)
  BY <1>1, FillsSound
<1> HIDE DEF q
<1>3. StopsAreKnown(q) /\ ExitsAreKnown(q)
  BY <1>2 DEF Fits, StopsAreKnown, ExitsAreKnown
<1>. QED
  BY <1>2, <1>3 DEF Fits, q

LEMMA AttachLookStep ==
  ASSUME ExitInv, AttachLook
  PROVE  ExitInv'
<1>1. /\ AwaitsFills(copy) /\ ~Walking /\ UNCHANGED <<env, entry, sells, rows>>
  BY DEF AttachLook, WaitsForFills, Walking
<1>2. CASE HasNewFills
  <2>1. /\ copy' = [copy EXCEPT !.filled = Max({copy.filled, entry.filled})]
        /\ seen' = [filled |-> entry.filled, over |-> ~entry.working]
        /\ pc' = "attachStop" /\ entry.filled > copy.covered
    BY <1>2 DEF AttachLook, HasNewFills, Continue
  <2>2. Max({copy.filled, entry.filled}) = entry.filled
    BY Facts, MaxOfTwo
  <2> DEFINE q == [copy EXCEPT !.filled = entry.filled]
  <2>3. copy' = q
    BY <2>1, <2>2
  <2>4. /\ Fits(q) /\ AwaitsFills(q) /\ Booked(q) = Booked(copy)
        /\ q.filled = entry.filled /\ q.covered = copy.covered
    BY <1>1, Facts, FillsKnown
  <2> HIDE DEF q
  <2>5. Fits(copy)'
    BY <1>1, <2>3, <2>4, Facts, SameOrders, FitsCarries
  <2>6. Types'
    BY <1>1, <2>1, Facts, SameOrders DEF ExitInv, Types, Tame, Lapse
  <2>7. /\ ~Walking' /\ ~Reconciling' /\ ~Flattening' /\ Flying' = 0
    BY <2>1 DEF Walking, Reconciling, Flattening, Flying
  <2>8. RowsAreKnown'
    BY <2>1, <2>7 DEF RowsAreKnown
  <2>9. Midway'
    <3>1. AwaitsFills(copy)'
      BY <2>3, <2>4 DEF AwaitsFills
    <3>2. copy'.covered < seen'.filled /\ seen'.filled <= copy'.filled
      <4>1. seen'.filled = entry.filled /\ copy'.filled = entry.filled /\ copy'.covered = copy.covered
        BY <2>1, <2>3, <2>4
      <4>2. copy.covered < entry.filled /\ entry.filled \in Nat
        BY <2>1, Facts, Quantities
      <4>. QED
        BY <4>1, <4>2
    <3>. QED
      BY <2>1, <2>7, <3>1, <3>2 DEF Midway
  <2>10. Claims'
    <3>1. ByExits' = ByExits /\ ByStops' = ByStops /\ Booked(copy)' = Booked(q)
      BY <1>1, <2>3, SameOrdersClaim DEF Booked
    <3>. QED
      BY <1>1, <2>4, <2>7, <3>1, Facts DEF Claims
  <2>. QED
    BY <2>5, <2>6, <2>8, <2>9, <2>10 DEF ExitInv
<1>3. CASE ~HasNewFills
  <2> DEFINE q == Status(copy, "entry", "unfilled")
  <2>1. (copy' = q \/ copy' = copy) /\ seen' = seen /\ pc' = "stop"
    BY <1>3 DEF AttachLook, Continue
  <2>2. /\ Kin(copy, q) /\ q.of = "entry" /\ q.is = "unfilled"
        /\ q.active = copy.active /\ q.stopQty = copy.stopQty
    BY Facts, StatusKin
  <2> HIDE DEF q
  <2>3. Fits(q) /\ Booked(q) = Booked(copy)
    BY <1>1, <2>2, Facts, KinKeepsStop DEF AwaitsFills
  <2>4. pc' \in Between
    BY <2>1 DEF Between
  <2>5. Lapse
    BY <1>1, SameOrders
  <2>. QED
    BY <1>1, <2>1, <2>3, <2>4, <2>5, Facts, GoesOn
<1>. QED
  BY <1>2, <1>3

LEMMA Halves == \A n \in Nat : n >= 2 => n \div 2 \in 1 .. n - 1
OBVIOUS

LEMMA NewTargetFields ==
  ASSUME NEW qty \in 1 .. Qty
  PROVE  NewTarget(qty) \in Target /\ NewTarget(qty).qty = qty /\ NewTarget(qty).state = "pending"
BY ExitAssumption DEF NewTarget, Target

(* The take profit is for what is filled, or has been armed before. *)
LEMMA TakeProfitArmed ==
  ASSUME NEW r \in Record, r.filled > 0, Len(r.targets) <= 2, NEW q, q = ArmTakeProfit(r)
  PROVE  /\ q \in Record /\ q.alert = r.alert /\ q.filled = r.filled /\ q.covered = r.covered
         /\ q.stops = r.stops /\ q.submitted = r.submitted /\ q.closed = r.closed
         /\ q.order = r.order /\ q.of = r.of /\ q.is = r.is /\ q.stopQty = r.stopQty
         /\ q.active = r.active \cup {"tp"} /\ Len(q.targets) <= 2
         /\ \/ "tp" \in r.active /\ q.targets = r.targets
            \/ /\ \A k \in DOMAIN q.targets : q.targets[k].state = "pending"
               /\ Left(q, 1) + Left(q, 2) = q.filled
<1>1. CASE "tp" \in r.active /\ r.targets # <<>>
  <2>1. q = r
    BY <1>1 DEF ArmTakeProfit
  <2>. QED
    BY <1>1, <2>1
<1>2. CASE ~("tp" \in r.active /\ r.targets # <<>>)
  <2> DEFINE a == Activate(r, "tp", TRUE)
  <2> DEFINE ts == IF env.tiered /\ r.filled >= 2
                     THEN <<NewTarget(r.filled \div 2), NewTarget(r.filled - r.filled \div 2)>>
                     ELSE <<NewTarget(r.filled)>>
  <2>1. q = [a EXCEPT !.targets = ts]
    BY <1>2 DEF ArmTakeProfit
  <2>2. /\ Kin(r, a) /\ a.active = r.active \cup {"tp"} /\ a.of = r.of /\ a.is = r.is
        /\ a.stopQty = r.stopQty
    BY ActivateKin DEF Software
  <2>3. r.filled \in 1 .. Qty
    BY RecordFields, ExitAssumption
  <2>4. /\ ts \in Seq(Target) /\ Len(ts) <= 2
        /\ \A k \in DOMAIN ts : ts[k].state = "pending"
        /\ (IF 1 \in DOMAIN ts THEN ts[1].qty ELSE 0) + (IF 2 \in DOMAIN ts THEN ts[2].qty ELSE 0)
             = r.filled
    <3>1. CASE env.tiered /\ r.filled >= 2
      <4> DEFINE m == r.filled \div 2
      <4>1. m \in 1 .. Qty /\ r.filled - m \in 1 .. Qty /\ m + (r.filled - m) = r.filled
        <5>1. r.filled \in Nat /\ m \in 1 .. r.filled - 1
          BY <2>3, <3>1, Halves, ExitAssumption
        <5> HIDE DEF m
        <5>. QED
          BY <2>3, <5>1, ExitAssumption
      <4>2. ts = <<NewTarget(m), NewTarget(r.filled - m)>>
        BY <3>1
      <4> HIDE DEF m, ts
      <4>3. /\ NewTarget(m) \in Target /\ NewTarget(m).qty = m /\ NewTarget(m).state = "pending"
            /\ NewTarget(r.filled - m) \in Target /\ NewTarget(r.filled - m).qty = r.filled - m
            /\ NewTarget(r.filled - m).state = "pending"
        BY <4>1, NewTargetFields
      <4>. QED
        BY <4>1, <4>2, <4>3
    <3>2. CASE ~(env.tiered /\ r.filled >= 2)
      <4>1. ts = <<NewTarget(r.filled)>>
        BY <3>2
      <4> HIDE DEF ts
      <4>2. /\ NewTarget(r.filled) \in Target /\ NewTarget(r.filled).qty = r.filled
            /\ NewTarget(r.filled).state = "pending"
        BY <2>3, NewTargetFields
      <4>. QED
        BY <2>3, <4>1, <4>2, ExitAssumption
    <3>. QED
      BY <3>1, <3>2
  <2> HIDE DEF ts, a
  <2>5. a \in Record
    BY <2>2 DEF Kin
  <2>6. /\ q \in Record /\ q.targets = ts /\ q.alert = a.alert /\ q.filled = a.filled
        /\ q.covered = a.covered /\ q.stops = a.stops /\ q.submitted = a.submitted
        /\ q.closed = a.closed /\ q.order = a.order /\ q.of = a.of /\ q.is = a.is
        /\ q.stopQty = a.stopQty /\ q.active = a.active
    BY ONLY <2>1, <2>4, <2>5 DEF Record
  <2>7. Left(q, 1) + Left(q, 2) = q.filled
    BY <2>2, <2>4, <2>6 DEF Left, Kin
  <2>. QED
    BY <2>2, <2>4, <2>6, <2>7 DEF Kin
<1>. QED
  BY <1>1, <1>2

(* What a record with an armed take profit has to satisfy, when nothing is sent yet *)
LEMMA ArmedIsSound ==
  ASSUME NEW r \in Record, Sound(r), AwaitsFills(r), NEW q \in Record,
         q.filled = r.filled, r.filled > 0, q.covered <= q.filled,
         q.submitted = r.submitted, q.closed = r.closed, q.of = "entry", Len(q.targets) <= 2,
         "stop" \in q.active => ~AwaitsFills(q) /\ q.stopQty >= q.filled,
         \/ "tp" \in r.active /\ q.targets = r.targets
         \/ Left(q, 1) + Left(q, 2) = q.filled
  PROVE  Sound(q) /\ Booked(q) = 0
<1>1. /\ Booked(r) = 0 /\ r.submitted["stop"] = 0 /\ r.submitted["smart"] = 0
      /\ r.filled \in Nat
  BY NothingSent, Quantities DEF AwaitsFills, Source
<1>2. Booked(q) = 0
  BY <1>1 DEF Booked
<1>3. Left(q, 1) + Left(q, 2) <= q.filled - Booked(q) \/ "tp" \notin q.active
  <2>1. CASE "tp" \in r.active /\ q.targets = r.targets
    <3>1. Left(q, 1) = Left(r, 1) /\ Left(q, 2) = Left(r, 2)
      BY <2>1 DEF Left
    <3>. QED
      BY <1>1, <1>2, <2>1, <3>1 DEF Sound
  <2>2. CASE Left(q, 1) + Left(q, 2) = q.filled
    BY <1>1, <1>2, <2>2
  <2>. QED
    BY <2>1, <2>2
<1>4. /\ \A s \in Source : q.closed[s] <= q.submitted[s]
      /\ q.filled <= entry.filled
  BY DEF Sound
<1>5. /\ Booked(q) <= q.filled /\ ~(q.submitted["stop"] + q.submitted["smart"] > 0)
      /\ "stop" \in q.active => q.stopQty >= q.filled - Booked(q)
  BY <1>1, <1>2
<1>. QED
  BY <1>2, <1>3, <1>4, <1>5 DEF Sound

LEMMA SomethingIsPending ==
  ASSUME NEW q, Left(q, 1) + Left(q, 2) > 0
  PROVE  Pending(q) # {}
BY DEF Left, Pending

(* A broker stop for more of what is filled, and the take profit with it *)
WithStop(r, id, more) == [r EXCEPT !.stops = @ \cup {id}, !.covered = @ + more]
StopAttached(r, id, more, is) == Status(ArmTakeProfit(WithStop(r, id, more)), "entry", is)

LEMMA StopIsAttached ==
  ASSUME NEW r \in Record, Sound(r), AwaitsFills(r), NEW id \in Nat,
         NEW more \in 1 .. Qty, r.covered + more <= r.filled, NEW is \in {"attached", "partial"},
         NEW q, q = StopAttached(r, id, more, is)
  PROVE  /\ q \in Record /\ q.alert = r.alert /\ q.filled = r.filled
         /\ q.covered = r.covered + more /\ q.stops = r.stops \cup {id}
         /\ q.submitted = r.submitted /\ q.closed = r.closed /\ q.order = r.order
         /\ q.of = "entry" /\ q.is = is /\ "stop" \notin q.active
         /\ Sound(q) /\ Booked(q) = 0 /\ Booked(r) = 0
         /\ ArmTakeProfit(WithStop(r, id, more)).covered = r.covered + more
         /\ \A k \in DOMAIN q.targets : q.targets[k].state # "pending" =>
              k \in DOMAIN r.targets /\ q.targets[k] = r.targets[k]
         /\ Armed(r) => Armed(q)
<1> DEFINE b == WithStop(r, id, more)
<1> DEFINE p == ArmTakeProfit(b)
<1>1. /\ r.filled \in 0 .. Qty /\ r.covered \in Nat /\ more \in Nat /\ more > 0
      /\ r.covered + more \in 0 .. Qty /\ r.filled > 0
  <2>1. r.filled \in 0 .. Qty /\ r.covered \in Nat /\ Qty \in Nat
    BY RecordFields, Quantities, ExitAssumption
  <2>2. more \in 1 .. Qty /\ r.covered + more <= r.filled
    OBVIOUS
  <2>. QED
    BY ONLY <2>1, <2>2
<1>2. /\ b \in Record /\ b.alert = r.alert /\ b.filled = r.filled /\ b.covered = r.covered + more
      /\ b.stops = r.stops \cup {id} /\ b.submitted = r.submitted
      /\ b.closed = r.closed /\ b.order = r.order /\ b.targets = r.targets
      /\ b.active = r.active /\ b.of = r.of /\ b.is = r.is /\ b.stopQty = r.stopQty
  <2>1. r \in Record /\ id \in Nat
    OBVIOUS
  <2>. QED
    BY ONLY <1>1, <2>1 DEF Record, WithStop
<1> HIDE DEF b
<1>3. b.filled > 0 /\ Len(b.targets) <= 2
  BY <1>1, <1>2 DEF Sound
<1>4. /\ p \in Record /\ p.alert = b.alert /\ p.filled = b.filled /\ p.covered = b.covered
      /\ p.stops = b.stops /\ p.submitted = b.submitted /\ p.closed = b.closed
      /\ p.order = b.order /\ p.active = b.active \cup {"tp"} /\ Len(p.targets) <= 2
      /\ \/ "tp" \in b.active /\ p.targets = b.targets
         \/ /\ \A k \in DOMAIN p.targets : p.targets[k].state = "pending"
            /\ Left(p, 1) + Left(p, 2) = p.filled
  BY ONLY <1>2, <1>3, TakeProfitArmed
<1>5. q = Status(p, "entry", is)
  BY DEF StopAttached, b
<1> HIDE DEF p
<1>6. /\ Kin(p, q) /\ q.of = "entry" /\ q.is = is /\ q.active = p.active
  BY <1>4, <1>5, StatusKin
<1>7. "stop" \notin q.active
  BY <1>2, <1>4, <1>6 DEF Sound
<1>8. /\ q \in Record /\ q.alert = r.alert /\ q.filled = r.filled
      /\ q.covered = r.covered + more /\ q.stops = r.stops \cup {id}
      /\ q.submitted = r.submitted /\ q.closed = r.closed /\ q.order = r.order
      /\ q.targets = p.targets /\ q.filled = p.filled
  BY <1>2, <1>4, <1>6 DEF Kin
<1>9. /\ Left(q, 1) = Left(p, 1) /\ Left(q, 2) = Left(p, 2) /\ Pending(q) = Pending(p)
  BY <1>8 DEF Left, Pending
<1>10. Sound(q) /\ Booked(q) = 0
  <2>1. q.covered <= q.filled /\ q.filled = r.filled /\ Len(q.targets) <= 2
    BY <1>1, <1>4, <1>8
  <2>2. \/ "tp" \in r.active /\ q.targets = r.targets
        \/ Left(q, 1) + Left(q, 2) = q.filled
    BY <1>2, <1>4, <1>8, <1>9
  <2>. QED
    BY <1>1, <1>6, <1>7, <1>8, <2>1, <2>2, ArmedIsSound
<1>11. \A k \in DOMAIN q.targets : q.targets[k].state # "pending" =>
         k \in DOMAIN r.targets /\ q.targets[k] = r.targets[k]
  BY <1>2, <1>4, <1>8
<1>12. Armed(r) => Armed(q)
  <2> SUFFICES ASSUME Armed(r) PROVE Pending(q) # {}
    BY <1>7 DEF Armed
  <2>1. CASE "tp" \in r.active /\ q.targets = r.targets
    BY <2>1 DEF Armed, Pending
  <2>2. CASE Left(q, 1) + Left(q, 2) = q.filled
    BY <1>1, <1>8, <2>2, SomethingIsPending
  <2>. QED
    BY <1>2, <1>4, <1>8, <1>9, <2>1, <2>2
<1>13. Booked(r) = 0 /\ p.covered = r.covered + more
  BY <1>2, <1>4, NothingSent DEF AwaitsFills
<1>. QED
  BY <1>6, <1>7, <1>8, <1>10, <1>11, <1>12, <1>13 DEF p, b

(* Without broker stops the software stop is for all that is filled. *)
LEMMA SoftwareTakesOver ==
  ASSUME NEW r \in Record, Sound(r), AwaitsFills(r), r.filled > 0,
         NEW q, q = Status(ArmTakeProfit(ArmStop(r, r.filled)), "entry", "unsupported")
  PROVE  /\ q \in Record /\ q.alert = r.alert /\ q.filled = r.filled /\ q.covered = r.covered
         /\ q.stops = r.stops /\ q.submitted = r.submitted /\ q.closed = r.closed
         /\ q.order = r.order /\ q.of = "entry" /\ q.is = "unsupported"
         /\ Sound(q) /\ Booked(q) = 0 /\ Booked(r) = 0
         /\ "stop" \in q.active /\ q.stopQty = q.filled
         /\ \A k \in DOMAIN q.targets : q.targets[k].state # "pending" =>
              k \in DOMAIN r.targets /\ q.targets[k] = r.targets[k]
         /\ Armed(r) => Armed(q)
<1> DEFINE b == ArmStop(r, r.filled)
<1> DEFINE p == ArmTakeProfit(b)
<1>1. r.filled \in 0 .. Qty /\ r.filled \in Nat
  BY RecordFields, Quantities
<1>2. /\ Kin(r, b) /\ b.stopQty = r.filled /\ b.active = r.active \cup {"stop"}
      /\ b.of = r.of /\ b.is = r.is
  BY <1>1, ArmStopKin
<1> HIDE DEF b
<1>3. b.filled > 0 /\ Len(b.targets) <= 2 /\ b \in Record
  BY <1>1, <1>2 DEF Sound, Kin
<1>4. /\ p \in Record /\ p.alert = b.alert /\ p.filled = b.filled /\ p.covered = b.covered
      /\ p.stops = b.stops /\ p.submitted = b.submitted /\ p.closed = b.closed
      /\ p.order = b.order /\ p.of = b.of /\ p.is = b.is /\ p.stopQty = b.stopQty
      /\ p.active = b.active \cup {"tp"} /\ Len(p.targets) <= 2
      /\ \/ "tp" \in b.active /\ p.targets = b.targets
         \/ /\ \A k \in DOMAIN p.targets : p.targets[k].state = "pending"
            /\ Left(p, 1) + Left(p, 2) = p.filled
  BY <1>3, TakeProfitArmed
<1>5. q = Status(p, "entry", "unsupported")
  BY DEF b
<1> HIDE DEF p
<1>6. /\ Kin(p, q) /\ q.of = "entry" /\ q.is = "unsupported" /\ q.active = p.active
      /\ q.stopQty = p.stopQty
  BY <1>4, <1>5, StatusKin
<1>7. /\ q \in Record /\ q.alert = r.alert /\ q.filled = r.filled /\ q.covered = r.covered
      /\ q.stops = r.stops /\ q.submitted = r.submitted /\ q.closed = r.closed
      /\ q.order = r.order /\ q.targets = p.targets /\ q.filled = p.filled
      /\ q.stopQty = r.filled /\ "stop" \in q.active /\ ~AwaitsFills(q)
  BY <1>2, <1>4, <1>6 DEF Kin, AwaitsFills
<1>8. /\ Left(q, 1) = Left(p, 1) /\ Left(q, 2) = Left(p, 2)
  BY <1>7 DEF Left
<1>9. \/ "tp" \in r.active /\ q.targets = r.targets
      \/ Left(q, 1) + Left(q, 2) = q.filled
  BY <1>2, <1>4, <1>7, <1>8 DEF Kin
<1>10. Sound(q) /\ Booked(q) = 0
  <2>1. q.covered <= q.filled /\ q.stopQty >= q.filled /\ Len(q.targets) <= 2
    BY <1>1, <1>4, <1>7 DEF Sound
  <2>. QED
    BY <1>6, <1>7, <1>9, <2>1, ArmedIsSound
<1>11. \A k \in DOMAIN q.targets : q.targets[k].state # "pending" =>
         k \in DOMAIN r.targets /\ q.targets[k] = r.targets[k]
  BY <1>2, <1>4, <1>7 DEF Kin
<1>12. Armed(r) => Armed(q)
  <2> SUFFICES ASSUME Armed(r) PROVE Pending(q) # {}
    BY <1>1, <1>7, <1>10 DEF Armed
  <2>1. CASE "tp" \in r.active /\ q.targets = r.targets
    BY <2>1 DEF Armed, Pending
  <2>2. CASE Left(q, 1) + Left(q, 2) = q.filled
    BY <1>1, <1>7, <2>2, SomethingIsPending
  <2>. QED
    BY <1>9, <2>1, <2>2
<1>13. Booked(r) = 0
  BY NothingSent DEF AwaitsFills
<1>. QED
  BY <1>6, <1>7, <1>10, <1>11, <1>12, <1>13

LEMMA AttachStopStep ==
  ASSUME ExitInv, AttachStop
  PROVE  ExitInv'
<1>1. /\ pc = "attachStop" /\ env.nativeStop /\ Submit("stop", Uncovered) /\ pc' = "stop"
      /\ UNCHANGED <<env, entry, rows, seen>> /\ ~Walking
  BY DEF AttachStop, Continue, Walking
<1>2. /\ AwaitsFills(copy) /\ copy.covered < seen.filled /\ seen.filled <= copy.filled
      /\ copy.covered \in Nat /\ seen.filled \in Int
  BY <1>1, Facts, Quantities DEF ExitInv, Midway, Types
<1>3. Uncovered \in 1 .. Qty /\ copy.covered + Uncovered = seen.filled
  BY <1>2, Facts, RecordFields, ExitAssumption DEF Uncovered
<1>4. /\ Whole' /\ NewId \in Nat \ {0} /\ NewId \notin DOMAIN sells
      /\ DOMAIN sells' = DOMAIN sells \cup {NewId}
      /\ \A i \in DOMAIN sells : sells'[i] = sells[i]
      /\ ByExits' = ByExits /\ ByStops' = ByStops + Uncovered
  BY <1>1, <1>3, Facts, SubmitAdds
<1> DEFINE id == NewId
<1> DEFINE more == Uncovered
<1> DEFINE r == ArmTakeProfit(WithStop(copy, id, more))
<1> DEFINE is == IF r.covered >= Qty \/ seen.over THEN "attached" ELSE "partial"
<1> DEFINE q == StopAttached(copy, id, more, is)
<1>5. copy' = q
  BY DEF AttachStop, StopAttached, WithStop
<1>6. /\ q \in Record /\ q.alert = copy.alert
      /\ q.covered = copy.covered + more /\ q.stops = copy.stops \cup {id}
      /\ q.submitted = copy.submitted /\ q.order = copy.order /\ "stop" \notin q.active
      /\ Sound(q) /\ Booked(q) = 0 /\ Booked(copy) = 0
      /\ \A k \in DOMAIN q.targets : q.targets[k].state # "pending" =>
           k \in DOMAIN copy.targets /\ q.targets[k] = copy.targets[k]
  <2>1. /\ id \in Nat /\ more \in 1 .. Qty /\ copy.covered + more <= copy.filled
        /\ is \in {"attached", "partial"}
    BY <1>2, <1>3, <1>4
  <2>2. copy \in Record /\ Sound(copy)
    BY Facts
  <2>3. q = StopAttached(copy, id, more, is)
    OBVIOUS
  <2> HIDE DEF id, more, is, q
  <2>. QED
    BY ONLY <1>2, <2>1, <2>2, <2>3, StopIsAttached
<1> HIDE DEF q
<1>12. Fits(copy)'
  <2>2. Sound(copy)'
    BY <1>1, <1>5, <1>6 DEF Sound, Booked, Left, AwaitsFills
  <2>3. StopsAreKnown(copy)'
    <3>1. \A i \in DOMAIN sells' : Live(sells'[i]) /\ sells'[i].kind = "stop" => i \in q.stops
      BY <1>4, <1>6, Facts DEF StopsAreKnown
    <3>2. ByStops' <= q.covered
      BY <1>2, <1>3, <1>4, <1>6, Facts DEF StopsAreKnown
    <3>. QED
      BY <1>1, <1>5, <1>6, <3>1, <3>2 DEF StopsAreKnown
  <2>4. ExitsAreKnown(copy)'
    BY <1>4, <1>5, <1>6, Facts DEF ExitsAreKnown
  <2>. QED
    BY <1>5, <1>6, <2>2, <2>3, <2>4, Facts DEF Fits
<1>13. Types'
  BY <1>1, <1>4 DEF ExitInv, Types, Tame
<1>14. ByExits' <= Booked(copy') /\ ByExits' + ByStops' <= entry'.filled
  <2>2. ByStops <= copy.covered
    BY Facts DEF StopsAreKnown
  <2>. QED
    BY <1>1, <1>2, <1>3, <1>4, <1>5, <1>6, <2>2, Facts
<1>. QED
  BY <1>1, <1>12, <1>13, <1>14, ReachesBetween DEF Between

LEMMA AttachUnsupportedStep ==
  ASSUME ExitInv, AttachUnsupported
  PROVE  ExitInv'
<1>1. /\ pc = "attachStop" /\ ~env.nativeStop /\ pc' = "stop" /\ ~Walking
      /\ UNCHANGED <<env, entry, sells, rows, seen>>
  BY DEF AttachUnsupported, Continue, Walking
<1>2. AwaitsFills(copy) /\ copy.filled > 0 /\ copy.filled \in 0 .. Qty
  <2>1. copy.covered < seen.filled /\ seen.filled <= copy.filled /\ AwaitsFills(copy)
        /\ copy.covered \in Nat /\ seen.filled \in Int
    BY <1>1, Facts, Quantities DEF ExitInv, Midway, Types
  <2>. QED
    BY <2>1, Facts, RecordFields
<1> DEFINE q == Status(ArmTakeProfit(ArmStop(copy, copy.filled)), "entry", "unsupported")
<1>3. copy' = q
  BY DEF AttachUnsupported
<1>4. /\ q \in Record /\ ~q.alert /\ q.covered = copy.covered /\ q.stops = copy.stops
      /\ q.submitted = copy.submitted /\ q.order = copy.order
      /\ Sound(q) /\ Booked(q) = Booked(copy)
      /\ \A k \in DOMAIN q.targets : q.targets[k].state # "pending" =>
           k \in DOMAIN copy.targets /\ q.targets[k] = copy.targets[k]
  BY <1>2, Facts, SoftwareTakesOver
<1> HIDE DEF q
<1>9. Fits(q)
  <2>2. StopsAreKnown(q)
    BY <1>1, <1>4, Facts DEF StopsAreKnown
  <2>3. ExitsAreKnown(q)
    BY <1>4, Facts DEF ExitsAreKnown
  <2>. QED
    BY <1>4, <2>2, <2>3 DEF Fits
<1>. QED
  BY <1>1, <1>3, <1>4, <1>9, SameOrders, GoesOn DEF Between

-----------------------------------------------------------------------------
(* Sending an exit, and the software stop *)

LEMMA RemainingIs ==
  ASSUME NEW r \in Record, \A s \in Source : r.closed[s] <= r.submitted[s],
         Booked(r) <= r.filled
  PROVE  /\ r.filled > 0 => RemainingOpen(r) = r.filled - Booked(r)
         /\ RemainingOpen(r) \in Nat
<1>1. ClosedOrPending(r) = Booked(r)
  BY ClosedOrPendingIsBooked
<1>2. Booked(r) \in Nat /\ r.filled \in Nat /\ Qty \in Nat
  BY Quantities, ExitAssumption
<1> DEFINE open == (IF r.filled = 0 THEN Qty ELSE r.filled) - ClosedOrPending(r)
<1>3. open \in Int
  BY <1>1, <1>2
<1>4. RemainingOpen(r) = IF 0 >= open THEN 0 ELSE open
  BY <1>3, MaxOfTwo DEF RemainingOpen
<1>. QED
  BY <1>1, <1>2, <1>3, <1>4

(* An exit that is sent is known as the order of a target or of its source. *)
LEMMA SendsExit ==
  ASSUME ExitInv, NEW kind \in {"limit", "market"}, NEW qty \in 1 .. Qty, Submit(kind, qty),
         NEW q, copy' = q, q \in Record, ~q.alert, Sound(q), StopsAreKnown(q),
         \A k \in DOMAIN q.targets : q.targets[k].state # "pending" =>
            \/ /\ q.targets[k].order \in DOMAIN sells
               /\ sells[q.targets[k].order].kind # "stop"
               /\ sells[q.targets[k].order].qty = q.targets[k].qty
            \/ q.targets[k].order = NewId /\ q.targets[k].qty = qty,
         \A s \in Source \ {"tp"} : q.order[s] # 0 =>
            \/ q.order[s] \in DOMAIN sells /\ sells[q.order[s]].qty <= q.submitted[s]
            \/ q.order[s] = NewId /\ qty <= q.submitted[s],
         UNCHANGED <<env, entry, seen>>, rows' \in Seq(Source \X Nat)
  PROVE  /\ Fits(copy)' /\ Types'
         /\ ByExits' = ByExits + qty /\ ByStops' = ByStops
<1>1. /\ Whole' /\ NewId \in Nat \ {0} /\ NewId \notin DOMAIN sells
      /\ DOMAIN sells' = DOMAIN sells \cup {NewId}
      /\ \A i \in DOMAIN sells : sells'[i] = sells[i]
      /\ sells'[NewId].kind = kind /\ sells'[NewId].qty = qty
      /\ ByExits' = ByExits + qty /\ ByStops' = ByStops
  <2>1. Whole /\ kind \in {"stop", "limit", "market"} /\ kind # "stop"
        /\ ByStops \in Nat /\ ByExits \in Nat
    BY Facts
  <2>2. /\ Whole' /\ NewId \in Nat \ {0} /\ NewId \notin DOMAIN sells
        /\ DOMAIN sells' = DOMAIN sells \cup {NewId}
        /\ \A i \in DOMAIN sells : sells'[i] = sells[i]
        /\ sells'[NewId].kind = kind /\ sells'[NewId].qty = qty
    BY <2>1, SubmitAdds
  <2>3. /\ ByExits' = ByExits + (IF kind = "stop" THEN 0 ELSE qty)
        /\ ByStops' = ByStops + (IF kind = "stop" THEN qty ELSE 0)
    BY <2>1, SubmitAdds
  <2>. QED
    BY <2>1, <2>2, <2>3
<1>2. Types'
  BY <1>1 DEF ExitInv, Types, Tame
<1>3. Sound(copy)'
  BY DEF Sound, Booked, Left, AwaitsFills
<1>4. StopsAreKnown(copy)'
  BY <1>1 DEF StopsAreKnown
<1>5. ExitsAreKnown(copy)'
  <2>1. \A k \in DOMAIN q.targets : q.targets[k].state # "pending" =>
          /\ q.targets[k].order \in DOMAIN sells'
          /\ sells'[q.targets[k].order].kind # "stop"
          /\ sells'[q.targets[k].order].qty = q.targets[k].qty
    BY <1>1
  <2>2. \A s \in Source \ {"tp"} : q.order[s] # 0 =>
          q.order[s] \in DOMAIN sells' /\ sells'[q.order[s]].qty <= q.submitted[s]
    BY <1>1
  <2>. QED
    BY <2>1, <2>2 DEF ExitsAreKnown
<1>. QED
  BY <1>1, <1>2, <1>3, <1>4, <1>5 DEF Fits

Watched(r, n, b) == [r EXCEPT !.stopQty = n, !.breach = b]

LEMMA WatchedKin ==
  ASSUME NEW r \in Record, NEW n \in 0 .. Qty, NEW b \in 0 .. Confirm
  PROVE  /\ Kin(r, Watched(r, n, b))
         /\ Watched(r, n, b).stopQty = n /\ Watched(r, n, b).active = r.active
         /\ Watched(r, n, b).of = r.of /\ Watched(r, n, b).is = r.is
BY DEF Kin, Record, Watched

Reset(r, n) == [r EXCEPT !.breach = 0, !.stopQty = n]

LEMMA ResetKin ==
  ASSUME NEW r \in Record, NEW n \in 0 .. Qty
  PROVE  /\ Kin(r, Reset(r, n))
         /\ Reset(r, n).stopQty = n /\ Reset(r, n).active = r.active
         /\ Reset(r, n).of = r.of /\ Reset(r, n).is = r.is
<1>1. 0 \in 0 .. Confirm
  BY ExitAssumption
<1>. QED
  BY <1>1 DEF Kin, Record, Reset

(* An armed software stop is for all that is left, and there is no other stop. *)
LEMMA StopIsForAll ==
  ASSUME ExitInv, "stop" \in copy.active
  PROVE  /\ StopQuantity = copy.filled - Booked(copy) /\ StopQuantity \in 0 .. Qty
         /\ copy.filled > 0 /\ ByStops = 0 /\ ~AwaitsFills(copy)
<1>1. /\ copy.filled > 0 /\ ~AwaitsFills(copy) /\ copy.stopQty >= copy.filled - Booked(copy)
      /\ ByStops = 0
  BY Facts DEF Sound, StopsAreKnown
<1>2. /\ RemainingOpen(copy) = copy.filled - Booked(copy) /\ RemainingOpen(copy) \in Nat
  BY <1>1, Facts, Remaining
<1>3. copy.stopQty \in Nat /\ copy.filled \in 0 .. Qty
  BY Facts, Quantities, RecordFields
<1>4. StopQuantity = IF copy.stopQty <= RemainingOpen(copy) THEN copy.stopQty ELSE RemainingOpen(copy)
  BY <1>2, <1>3, MinOfTwo DEF StopQuantity
<1>. QED
  BY <1>1, <1>2, <1>3, <1>4, Facts, ExitAssumption

LEMMA StopWatchesStep ==
  ASSUME ExitInv, StopWatches
  PROVE  ExitInv'
<1> DEFINE b == CASE quote = "low" -> copy.breach + 1
                  [] quote = "none" -> copy.breach
                  [] OTHER -> 0
<1> DEFINE q == Watched(copy, StopQuantity, b)
<1>1. /\ "stop" \in copy.active /\ pc' = "tp" /\ ~Walking
      /\ UNCHANGED <<env, entry, sells, rows, seen>>
      /\ quote = "low" => copy.breach + 1 < Confirm
  BY DEF StopWatches, Continue, Walking
<1>2. copy' = q
  BY NoOutage DEF StopWatches, Watched
<1>3. b \in 0 .. Confirm
  <2>1. copy.breach \in 0 .. Confirm
    BY Facts, RecordFields
  <2>2. quote = "low" => copy.breach + 1 < Confirm
    BY <1>1
  <2>3. Confirm \in Nat
    BY ExitAssumption
  <2>. QED
    BY ONLY <2>1, <2>2, <2>3
<1> HIDE DEF b
<1>4. /\ StopQuantity = copy.filled - Booked(copy) /\ StopQuantity \in 0 .. Qty
      /\ copy.filled > 0 /\ ByStops = 0 /\ ~AwaitsFills(copy)
  BY <1>1, StopIsForAll
<1>5. /\ Kin(copy, q) /\ q.stopQty = StopQuantity /\ q.active = copy.active
      /\ q.of = copy.of /\ q.is = copy.is
  <2>1. copy \in Record /\ ~copy.alert
    BY Facts
  <2>. QED
    BY ONLY <1>3, <1>4, <2>1, WatchedKin
<1> HIDE DEF q
<1>6. /\ q.filled = copy.filled /\ Booked(q) = Booked(copy) /\ ~AwaitsFills(q)
  BY <1>4, <1>5 DEF Kin, Booked, AwaitsFills
<1>7. q.filled > 0 /\ q.stopQty >= q.filled - Booked(q)
  BY <1>4, <1>5, <1>6, Facts
<1>8. Fits(q)
  BY <1>4, <1>5, <1>6, <1>7, Facts, KinFits
<1>. QED
  BY <1>1, <1>2, <1>6, <1>8, SameOrders, GoesOn DEF Between

LEMMA StopFireFailsStep ==
  ASSUME ExitInv, StopFireFails
  PROVE  ExitInv'
<1> DEFINE b == Reset(copy, StopQuantity)
<1> DEFINE q == Retry(b, "stop")
<1>1. /\ "stop" \in copy.active /\ pc' = "persist" /\ ~Walking
      /\ UNCHANGED <<env, entry, sells, rows, seen>>
  BY DEF StopFireFails, Breached, Continue, Walking, SubmitLost, ExitInv, Types, Tame
<1>2. /\ StopQuantity = copy.filled - Booked(copy) /\ StopQuantity \in 0 .. Qty
      /\ copy.filled > 0 /\ ByStops = 0 /\ ~AwaitsFills(copy)
  BY <1>1, StopIsForAll
<1>3. /\ Kin(copy, b) /\ b.stopQty = StopQuantity /\ b.active = copy.active
  <2>1. copy \in Record /\ ~copy.alert
    BY Facts
  <2>. QED
    BY ONLY <1>2, <2>1, ResetKin
<1>4. copy' = q
  BY NoOutage DEF StopFireFails, Reset
<1> HIDE DEF b
<1>5. /\ Kin(b, q) /\ q.of = "stop" /\ q.stopQty = b.stopQty
      /\ \A x \in Software \ {"stop"} : x \in q.active <=> x \in b.active
  BY <1>3, RetryKin DEF Kin, Software
<1> HIDE DEF q
<1>6. /\ Kin(copy, q) /\ q.filled = copy.filled /\ Booked(q) = Booked(copy) /\ ~AwaitsFills(q)
      /\ "tp" \in q.active => "tp" \in copy.active
  BY <1>3, <1>5 DEF Kin, Booked, AwaitsFills, Software
<1>7. q.filled > 0 /\ q.stopQty >= q.filled - Booked(q)
  BY <1>2, <1>3, <1>5, <1>6, Facts
<1>8. Fits(q)
  BY <1>2, <1>5, <1>6, <1>7, Facts, KinFits
<1>. QED
  BY <1>1, <1>4, <1>6, <1>8, SameOrders, GoesOn DEF Between

(* An exit for all that is left, after which nothing is active *)
LEMMA TheRestIsSent ==
  ASSUME Booking, NEW b, Near(copy, b), copy.filled > 0,
         NEW s \in {"stop", "smart"}, NEW qty, qty = copy.filled - Booked(copy), qty > 0,
         NEW r, r = Submitted(b, s, qty)
  PROVE  /\ r \in Record /\ r.alert = b.alert /\ Booked(r) = r.filled
         /\ RemainingOpen(r) = 0 /\ qty \in 1 .. Qty /\ r.of = s /\ r.is = "submitted"
         /\ r.active = b.active /\ r.stopQty = b.stopQty /\ SentAs(b, s, qty, r)
<1>1. /\ qty \in 1 .. Qty /\ qty \in 0 .. Qty /\ NewId \in Nat /\ b \in Record
      /\ s \in Source
  <2>1. copy.filled \in 0 .. Qty
    BY BookingFacts, RecordFields
  <2>. QED
    BY <2>1, BookingFacts, ExitAssumption DEF Near, Source
<1>2. /\ r \in Record /\ r.alert = b.alert /\ r.filled = b.filled /\ r.closed = b.closed
      /\ r.active = b.active /\ r.stopQty = b.stopQty /\ r.of = s /\ r.is = "submitted"
      /\ r.submitted = [b.submitted EXCEPT ![s] = qty] /\ SentAs(b, s, qty, r)
  <2>1. SentAs(b, s, qty, r)
    BY <1>1, SubmittedFields
  <2>. QED
    BY <1>1, <2>1 DEF SentAs
<1>3. /\ copy.submitted["stop"] \in Nat /\ copy.submitted["smart"] \in Nat
      /\ copy.submitted["tp"] \in Nat /\ copy.submitted["flatten"] \in Nat
      /\ \A x \in Source : /\ copy.closed[x] \in Nat /\ copy.submitted[x] \in Nat
                           /\ copy.closed[x] <= copy.submitted[x]
  BY BookingFacts, Quantities DEF Sound, Source
<1>4. copy.submitted["stop"] = 0 /\ copy.submitted["smart"] = 0
  <2>1. ~(copy.submitted["stop"] + copy.submitted["smart"] > 0)
    BY BookingFacts DEF Sound
  <2>. QED
    BY <1>3, <2>1
<1>5. Booked(r) = r.filled
  <2>1. copy.submitted \in [Source -> 0 .. Qty]
    BY BookingFacts, RecordFields
  <2>2. r.submitted = [copy.submitted EXCEPT ![s] = qty] /\ r.filled = copy.filled
    BY <1>2 DEF Near
  <2>3. Booked(r) = Booked(copy) + qty
    <3>1. CASE s = "stop"
      BY <1>1, <1>3, <1>4, <2>1, <2>2, <3>1 DEF Booked, Source
    <3>2. CASE s = "smart"
      BY <1>1, <1>3, <1>4, <2>1, <2>2, <3>2 DEF Booked, Source
    <3>. QED
      BY <3>1, <3>2
  <2>. QED
    BY <1>1, <2>2, <2>3, BookingFacts
<1>6. \A x \in Source : r.closed[x] <= r.submitted[x]
  <2> SUFFICES ASSUME NEW x \in Source PROVE r.closed[x] <= r.submitted[x]
    OBVIOUS
  <2>1. r.closed[x] = copy.closed[x]
    BY <1>2 DEF Near
  <2>2. r.submitted[x] = IF x = s THEN qty ELSE copy.submitted[x]
    <3>1. copy.submitted \in [Source -> 0 .. Qty]
      BY BookingFacts, RecordFields
    <3>. QED
      BY <1>2, <3>1 DEF Near
  <2>3. copy.closed[s] <= 0
    BY <1>3, <1>4 DEF Source
  <2>. QED
    BY <1>1, <1>3, <2>1, <2>2, <2>3
<1>7. RemainingOpen(r) = 0
  <2>1. r.filled \in Nat /\ r.filled > 0 /\ Booked(r) <= r.filled
    BY <1>2, <1>5, BookingFacts DEF Near
  <2>2. RemainingOpen(r) = r.filled - Booked(r)
    BY <1>2, <1>6, <2>1, RemainingIs
  <2>. QED
    BY <1>5, <2>1, <2>2
<1>. QED
  BY <1>1, <1>2, <1>5, <1>7

LEMMA TheRestSound ==
  ASSUME Booking, NEW b, Near(copy, b), copy.filled > 0,
         NEW s \in {"stop", "smart"}, NEW qty, qty = copy.filled - Booked(copy), qty > 0,
         NEW r, r = Submitted(b, s, qty), NEW q, Near(r, q), q.active = {}, q.of = s
  PROVE  /\ q \in Record /\ q.filled = copy.filled /\ q.covered = copy.covered
         /\ q.stops = copy.stops /\ q.targets = copy.targets
         /\ Sound(q) /\ Booked(q) = q.filled /\ Booked(q) = Booked(copy) + qty
         /\ Sends(q, qty) /\ qty \in 1 .. Qty
<1>1. /\ r \in Record /\ Booked(r) = r.filled /\ qty \in 1 .. Qty /\ SentAs(b, s, qty, r)
      /\ s \in Source
  BY TheRestIsSent DEF Source
<1>3. /\ q \in Record /\ q.filled = copy.filled /\ q.covered = copy.covered
      /\ q.stops = copy.stops /\ q.closed = copy.closed /\ q.targets = copy.targets
      /\ q.submitted = [copy.submitted EXCEPT ![s] = qty]
      /\ q.order = [copy.order EXCEPT ![s] = NewId]
      /\ copy.submitted \in [Source -> 0 .. Qty] /\ copy.order \in [Source -> Nat]
      /\ copy.closed \in [Source -> 0 .. Qty]
  BY SMTT(30), <1>1, BookingFacts, RecordFields DEF Near, SentAs
<1>4. Booked(q) = q.filled /\ Booked(q) = Booked(copy) + qty
  <2>1. Booked(q) = Booked(r) /\ q.filled = r.filled
    BY DEF Near, Booked
  <2>. QED
    BY <1>1, <1>3, <2>1, BookingFacts
<1>5. Sound(q)
  <2>1. \A x \in Source : q.closed[x] <= q.submitted[x]
    <3>1. copy.submitted["stop"] \in Nat /\ copy.submitted["smart"] \in Nat
      BY BookingFacts, Quantities DEF Source
    <3>2. ~(copy.submitted["stop"] + copy.submitted["smart"] > 0)
      BY BookingFacts DEF Sound
    <3>3. copy.submitted[s] = 0
      BY <3>1, <3>2
    <3>4. \A x \in Source : /\ copy.closed[x] <= copy.submitted[x]
                            /\ copy.closed[x] \in Nat /\ copy.submitted[x] \in Nat
      BY BookingFacts, Quantities DEF Sound
    <3>5. copy.closed[s] <= qty
      BY <1>1, <3>3, <3>4
    <3>. QED
      BY <1>1, <1>3, <3>4, <3>5
  <2>2. q.filled <= entry.filled /\ q.covered <= q.filled /\ Len(q.targets) <= 2
    BY <1>3, BookingFacts DEF Sound
  <2>3. Booked(q) <= q.filled
    <3>1. q.filled \in Nat
      BY <1>3, BookingFacts
    <3>. QED
      BY <1>4, <3>1
  <2>4. q.of # "entry"
    OBVIOUS
  <2>. QED
    BY <1>3, <1>4, <2>1, <2>2, <2>3, <2>4 DEF Sound
<1>7. \A k \in DOMAIN q.targets : q.targets[k].state # "pending" =>
        /\ q.targets[k].order \in DOMAIN sells
        /\ sells[q.targets[k].order].qty = q.targets[k].qty
  BY <1>3, BookingFacts DEF Ordered
<1>8. \A x \in Source \ {"tp"} : q.order[x] # 0 =>
        \/ q.order[x] \in DOMAIN sells /\ sells[q.order[x]].qty <= q.submitted[x]
        \/ q.order[x] = NewId /\ qty <= q.submitted[x]
  <2> SUFFICES ASSUME NEW x \in Source \ {"tp"}, q.order[x] # 0
               PROVE  \/ q.order[x] \in DOMAIN sells /\ sells[q.order[x]].qty <= q.submitted[x]
                      \/ q.order[x] = NewId /\ qty <= q.submitted[x]
    OBVIOUS
  <2>1. CASE x = s
    BY <1>1, <1>3, <2>1
  <2>2. CASE x # s
    BY <1>3, <2>2, BookingFacts DEF Ordered
  <2>. QED
    BY <2>1, <2>2
<1>. QED
  BY <1>1, <1>3, <1>4, <1>5, <1>7, <1>8 DEF Sends

LEMMA TheRestFits ==
  ASSUME ExitInv, NEW b, Kin(copy, b), copy.filled > 0, NEW kind \in {"limit", "market"},
         NEW s \in {"stop", "smart"}, NEW qty, qty = copy.filled - Booked(copy), qty > 0,
         NEW r, r = Submitted(b, s, qty), NEW q, Kin(r, q), q.active = {}, q.of = s,
         Submit(kind, qty), copy' = q,
         UNCHANGED <<env, entry, seen>>, rows' \in Seq(Source \X Nat)
  PROVE  /\ Fits(copy)' /\ Types'
         /\ ByExits' = ByExits + qty /\ ByStops' = ByStops /\ Booked(copy') = Booked(copy) + qty
<1>1. /\ Near(copy, b) /\ Near(r, q) /\ Booking
  BY ExitBooking, KinNear
<1>2. ~q.alert
  <2>1. r.alert = b.alert
    BY <1>1, TheRestIsSent
  <2>. QED
    BY <2>1, Facts DEF Kin
<1>3. /\ q \in Record /\ q.covered = copy.covered /\ q.stops = copy.stops
      /\ q.targets = copy.targets /\ Sound(q) /\ Booked(q) = Booked(copy) + qty
      /\ Sends(q, qty) /\ qty \in 1 .. Qty
  BY <1>1, TheRestSound
<1>6. StopsAreKnown(q)
  BY <1>3, Facts DEF StopsAreKnown
<1>7. \A k \in DOMAIN q.targets : q.targets[k].state # "pending" =>
        /\ q.targets[k].order \in DOMAIN sells
        /\ sells[q.targets[k].order].kind # "stop"
        /\ sells[q.targets[k].order].qty = q.targets[k].qty
  BY <1>3, Facts DEF ExitsAreKnown
<1>8. \A x \in Source \ {"tp"} : q.order[x] # 0 =>
        \/ q.order[x] \in DOMAIN sells /\ sells[q.order[x]].qty <= q.submitted[x]
        \/ q.order[x] = NewId /\ qty <= q.submitted[x]
  BY <1>3 DEF Sends
<1>9. /\ Fits(copy)' /\ Types' /\ ByExits' = ByExits + qty /\ ByStops' = ByStops
  BY ZenonT(40), <1>2, <1>3, <1>6, <1>7, <1>8, SendsExit
<1>. QED
  BY <1>3, <1>9

Only(r, on) == [r EXCEPT !.active = on]

LEMMA OnlyKin ==
  ASSUME NEW r \in Record, NEW on \in SUBSET Software
  PROVE  /\ Kin(r, Only(r, on)) /\ Only(r, on).active = on
         /\ Only(r, on).of = r.of /\ Only(r, on).is = r.is /\ Only(r, on).stopQty = r.stopQty
BY DEF Kin, Record, Only

LEMMA StopFiresStep ==
  ASSUME ExitInv, StopFires
  PROVE  ExitInv'
<1> DEFINE a == Reset(copy, 0)
<1> DEFINE b == Activate(a, "stop", FALSE)
<1> DEFINE qty == StopQuantity
<1> DEFINE r == Submitted(b, "stop", qty)
<1> DEFINE q == Only(r, r.active \ {"tp", "smart"})
<1>1. /\ "stop" \in copy.active /\ qty > 0 /\ pc' = "persist" /\ ~Walking
      /\ Submit("market", qty) /\ UNCHANGED <<env, entry, rows, seen>>
  BY DEF StopFires, Breached, Continue, Walking
<1>2. /\ qty = copy.filled - Booked(copy) /\ qty \in 0 .. Qty
      /\ copy.filled > 0 /\ ByStops = 0
  BY <1>1, StopIsForAll
<1>3. copy' = WithoutRest(r, {"tp", "smart"})
  BY NoOutage DEF StopFires, Reset
<1>4. /\ Kin(copy, a) /\ a.active = copy.active
  <2>1. copy \in Record /\ ~copy.alert /\ 0 \in 0 .. Qty
    BY Facts, ExitAssumption
  <2>. QED
    BY ONLY <2>1, ResetKin
<1> HIDE DEF a
<1>5. Kin(a, b) /\ b.active = a.active \ {"stop"}
  BY <1>4, ActivateKin DEF Kin, Software
<1> HIDE DEF b
<1>6. Kin(copy, b)
  BY <1>4, <1>5 DEF Kin
<1> HIDE DEF qty, r
<1>7. /\ r \in Record /\ ~r.alert /\ RemainingOpen(r) = 0
      /\ qty \in 1 .. Qty /\ r.of = "stop" /\ r.active = b.active
  <2>1. Booking /\ Near(copy, b) /\ ~b.alert
    BY <1>6, ExitBooking, KinNear, Facts DEF Kin
  <2>. QED
    BY <1>1, <1>2, <2>1, TheRestIsSent DEF r
<1>8. copy' = q
  BY <1>3, <1>7 DEF WithoutRest, Only
<1>9. /\ Kin(r, q) /\ q.active = r.active \ {"tp", "smart"} /\ q.of = r.of
  <2>1. r.active \ {"tp", "smart"} \in SUBSET Software
    BY <1>7, RecordFields
  <2>. QED
    BY <1>7, <2>1, OnlyKin
<1>10. q.active = {}
  <2>1. copy.active \in SUBSET Software
    BY Facts, RecordFields
  <2>. QED
    BY <1>4, <1>5, <1>7, <1>9, <2>1 DEF Software
<1> HIDE DEF q
<1>11. rows' \in Seq(Source \X Nat)
  BY <1>1 DEF ExitInv, Types
<1>12. /\ Fits(copy)' /\ Types'
       /\ ByExits' = ByExits + qty /\ ByStops' = ByStops /\ Booked(copy') = Booked(copy) + qty
  BY <1>1, <1>2, <1>6, <1>7, <1>8, <1>9, <1>10, <1>11, TheRestFits DEF r
<1>13. ByExits' <= Booked(copy') /\ ByExits' + ByStops' <= entry'.filled
  BY <1>1, <1>2, <1>12, Facts
<1>. QED
  BY <1>1, <1>12, <1>13, ReachesBetween DEF Between

-----------------------------------------------------------------------------
(* Taking the broker's stops away *)

LEMMA StopsGone ==
  ASSUME ExitInv, StopsCanBeCanceled, sells' = Cancel(copy.stops)
  PROVE  Lapse /\ ByStops' = 0 /\ \A i \in DOMAIN sells' : Live(sells'[i]) => sells'[i].kind # "stop"
<1> DEFINE D == DOMAIN sells
<1> DEFINE e == StopClaims'
<1>1. /\ Lapse
      /\ \A i \in D : i \in copy.stops /\ Cancelable(i) => ~Live(sells'[i])
  BY Facts, CancelLapses DEF Tame
<1>2. \A i \in D : Live(sells'[i]) => sells'[i].kind # "stop"
  BY <1>1, Facts DEF Lapse, StopsAreKnown, StopsCanBeCanceled
<1>3. \A i \in D : e[i] = 0
  BY <1>1, <1>2 DEF StopClaims, Lapse
<1>4. ByStops' = SumOf(e, D)
  BY <1>1 DEF ByStops, Lapse
<1>5. IsFiniteSet(D)
  BY Facts, OrdersFinite DEF Whole
<1>6. DOMAIN sells' = D
  BY <1>1 DEF Lapse
<1> HIDE DEF e, D
<1>7. SumOf(e, D) = SumOf(e, D) + SumOf(e, D) /\ SumOf(e, D) \in Int
  <2>1. \A i \in D : e[i] \in Int /\ e[i] = e[i] + e[i]
    BY <1>3
  <2>2. SumOf(e, D) = SumOf(e, D) + SumOf(e, D)
    BY <1>5, <2>1, SumAdds
  <2>3. SumOf(e, D) \in Int
    BY <1>5, <2>1, SumType
  <2>. QED
    BY <2>2, <2>3
<1>8. \A x \in Int : x = x + x => x = 0
  OBVIOUS
<1>9. SumOf(e, D) = 0
  BY ONLY <1>7, <1>8
<1>. QED
  BY <1>1, <1>2, <1>4, <1>6, <1>9 DEF D

NoStops(r) == [r EXCEPT !.stops = {}, !.covered = 0]

LEMMA NoStopsFields ==
  ASSUME NEW r \in Record
  PROVE  /\ NoStops(r) \in Record /\ NoStops(r).alert = r.alert /\ NoStops(r).filled = r.filled
         /\ NoStops(r).covered = 0 /\ NoStops(r).stops = {}
         /\ NoStops(r).submitted = r.submitted /\ NoStops(r).closed = r.closed
         /\ NoStops(r).order = r.order /\ NoStops(r).targets = r.targets
         /\ NoStops(r).active = r.active /\ NoStops(r).stopQty = r.stopQty
         /\ NoStops(r).of = r.of /\ NoStops(r).is = r.is
<1>1. 0 \in 0 .. Qty
  BY ExitAssumption
<1>. QED
  BY <1>1 DEF Record, NoStops

LEMMA StopsAreTaken ==
  ASSUME ExitInv, TakeStopsAway(copy), UNCHANGED <<env, entry, rows, seen>>
  PROVE  /\ Fits(copy)' /\ Types' /\ ByStops' = 0 /\ ByExits' <= ByExits /\ ByExits' \in Nat
         /\ copy'.active = copy.active /\ copy'.targets = copy.targets
         /\ copy'.filled = copy.filled /\ copy'.submitted = copy.submitted
<1>1. /\ StopsCanBeCanceled /\ sells' = Cancel(copy.stops)
      /\ copy' = copy \/ copy' = NoStops(copy)
  BY DEF TakeStopsAway, NoStops
<1>2. /\ Lapse /\ Whole' /\ ByStops' = 0
      /\ \A i \in DOMAIN sells' : Live(sells'[i]) => sells'[i].kind # "stop"
  BY <1>1, StopsGone DEF Lapse
<1>3. Types'
  BY <1>2 DEF ExitInv, Types, Tame
<1>4. ByExits' <= ByExits /\ ByExits' \in Nat
  BY <1>2, Facts, LapseShrinks, ClaimTypesNext
<1> DEFINE q == copy'
<1>5. /\ q \in Record /\ ~q.alert /\ q.filled = copy.filled
      /\ q.covered \in Nat /\ q.covered <= copy.covered
      /\ q.submitted = copy.submitted /\ q.closed = copy.closed
      /\ q.order = copy.order /\ q.targets = copy.targets
      /\ q.active = copy.active /\ q.stopQty = copy.stopQty /\ q.of = copy.of /\ q.is = copy.is
  <2>1. copy \in Record /\ copy.covered \in Nat /\ ~copy.alert
    BY Facts, Quantities
  <2>2. CASE q = copy
    BY <2>1, <2>2
  <2>3. CASE q = NoStops(copy)
    BY <2>1, <2>3, NoStopsFields
  <2>. QED
    BY <1>1, <2>2, <2>3
<1>6. /\ Booked(q) = Booked(copy) /\ Left(q, 1) = Left(copy, 1) /\ Left(q, 2) = Left(copy, 2)
      /\ AwaitsFills(q) <=> AwaitsFills(copy)
  BY <1>5 DEF Booked, Left, AwaitsFills
<1>7. Sound(copy)'
  <2>1. q.covered <= q.filled
    BY SMTT(30), <1>5, Facts, Quantities DEF Sound
  <2>2. Sound(q)
    <3>1. /\ ~q.alert /\ q.filled <= entry.filled /\ q.covered <= q.filled
          /\ \A s \in Source : q.closed[s] <= q.submitted[s]
          /\ Booked(q) <= q.filled /\ Len(q.targets) <= 2
          /\ q.of = "entry" => Booked(q) = 0
          /\ q.submitted["stop"] + q.submitted["smart"] > 0 => Booked(q) = q.filled
      BY <1>5, <1>6, <2>1, Facts DEF Sound
    <3>2. /\ q.active \cap {"stop", "tp"} # {} => q.filled > 0
          /\ "stop" \in q.active => ~AwaitsFills(q) /\ q.stopQty >= q.filled - Booked(q)
          /\ "tp" \in q.active => Left(q, 1) + Left(q, 2) <= q.filled - Booked(q)
      BY <1>5, <1>6, Facts DEF Sound
    <3>. QED
      BY <3>1, <3>2 DEF Sound
  <2>. QED
    BY <2>2 DEF Sound, Booked, Left, AwaitsFills
<1>8. StopsAreKnown(copy)'
  <2>1. ByStops' <= q.covered
    BY <1>2, <1>5
  <2>. QED
    BY <1>2, <2>1 DEF StopsAreKnown
<1>9. ExitsAreKnown(copy)'
  BY <1>2, <1>5, Facts DEF ExitsAreKnown, Lapse
<1>. QED
  BY <1>2, <1>3, <1>4, <1>5, <1>7, <1>8, <1>9 DEF Fits

(* Between taking the stops away and sending the exit *)
LEMMA ReachesClose ==
  ASSUME Types', Fits(copy)', pc' \in {"tpClose", "smartClose"}, ByStops' = 0,
         pc' = "tpClose" => "tp" \in copy'.active /\ Pending(copy') # {},
         pc' = "smartClose" => Booked(copy') < copy'.filled,
         ByExits' <= Booked(copy'), ByExits' <= entry'.filled
  PROVE  ExitInv'
<1>1. /\ ~Walking' /\ ~Reconciling' /\ ~Flattening' /\ Flying' = 0
      /\ pc' \notin {"idle", "escalate", "attachStop", "flattenClose"}
  BY DEF Walking, Reconciling, Flattening, Flying
<1>2. RowsAreKnown'
  BY <1>1 DEF RowsAreKnown
<1>3. Midway'
  BY <1>1 DEF Midway, Booked, Pending
<1>4. Claims'
  <2>1. ByExits' \in Nat
    <3>1. Whole'
      BY DEF Types
    <3>. QED
      BY <3>1, ClaimTypesNext
  <2>2. Booked(copy)' = Booked(copy')
    BY DEF Booked
  <2>3. ByExits' + ByStops' + Flying' = ByExits' /\ ByExits' + Flying' = ByExits'
    <3>1. \A x \in Nat : x + 0 + 0 = x /\ x + 0 = x
      OBVIOUS
    <3>2. ByStops' = 0 /\ Flying' = 0
      BY <1>1
    <3>. QED
      BY ONLY <2>1, <3>1, <3>2
  <2>. QED
    BY <2>2, <2>3 DEF Claims
<1>. QED
  BY <1>2, <1>3, <1>4 DEF ExitInv

LEMMA TakeProfitCancelsStopsStep ==
  ASSUME ExitInv, TakeProfitCancelsStops
  PROVE  ExitInv'
<1>1. /\ "tp" \in copy.active /\ Pending(copy) # {} /\ TakeStopsAway(copy) /\ pc' = "tpClose"
      /\ UNCHANGED <<env, entry, rows, seen>> /\ ~Walking
  BY NoOutage DEF TakeProfitCancelsStops, TargetHit, Continue, Walking
<1>2. /\ Fits(copy)' /\ Types' /\ ByStops' = 0 /\ ByExits' <= ByExits /\ ByExits' \in Nat
      /\ copy'.active = copy.active /\ copy'.targets = copy.targets
      /\ copy'.filled = copy.filled /\ copy'.submitted = copy.submitted
  BY <1>1, StopsAreTaken
<1>3. Booked(copy') = Booked(copy) /\ Pending(copy') = Pending(copy)
  BY <1>2 DEF Booked, Pending
<1>4. ByExits' <= Booked(copy') /\ ByExits' <= entry'.filled
  BY <1>1, <1>2, <1>3, Facts
<1>. QED
  BY <1>1, <1>2, <1>3, <1>4, ReachesClose

LEMMA SmartCancelsStopsStep ==
  ASSUME ExitInv, SmartCancelsStops
  PROVE  ExitInv'
<1>1. /\ copy.filled > 0 /\ RemainingOpen(copy) > 0 /\ TakeStopsAway(copy) /\ pc' = "smartClose"
      /\ UNCHANGED <<env, entry, rows, seen>> /\ ~Walking
  BY DEF SmartCancelsStops, SmartActive, Continue, Walking
<1>2. /\ Fits(copy)' /\ Types' /\ ByStops' = 0 /\ ByExits' <= ByExits /\ ByExits' \in Nat
      /\ copy'.filled = copy.filled /\ copy'.submitted = copy.submitted
  BY <1>1, StopsAreTaken
<1>3. Booked(copy') = Booked(copy)
  BY <1>2 DEF Booked
<1>4. Booked(copy') < copy'.filled
  <2>1. RemainingOpen(copy) = copy.filled - Booked(copy)
    BY <1>1, Facts, Remaining
  <2>. QED
    BY <1>1, <1>2, <1>3, <2>1, Facts
<1>5. ByExits' <= Booked(copy') /\ ByExits' <= entry'.filled
  BY <1>1, <1>2, <1>3, Facts
<1>. QED
  BY <1>1, <1>2, <1>4, <1>5, ReachesClose

(* A record that tries again later fits as it did. *)
LEMMA RetryFits ==
  ASSUME ExitInv, NEW s \in {"tp", "smart"}, s \in copy.active
  PROVE  /\ Kin(copy, Retry(copy, s)) /\ Fits(Retry(copy, s)) /\ Booked(Retry(copy, s)) = Booked(copy)
         /\ Retry(copy, s).of = s
         /\ "tp" \in Retry(copy, s).active => "tp" \in copy.active
         /\ "stop" \in Retry(copy, s).active <=> "stop" \in copy.active
         /\ Retry(copy, s).stopQty = copy.stopQty
<1> DEFINE q == Retry(copy, s)
<1>1. /\ Kin(copy, q) /\ q.of = s /\ q.stopQty = copy.stopQty
      /\ \A x \in Software \ {s} : x \in q.active <=> x \in copy.active
  <2>1. copy \in Record /\ ~copy.alert /\ s \in Software
    BY Facts DEF Software
  <2>. QED
    BY <2>1, RetryKin
<1> HIDE DEF q
<1>2. /\ "tp" \in q.active => "tp" \in copy.active
      /\ "stop" \in q.active <=> "stop" \in copy.active
      /\ q.of # "entry"
  BY <1>1 DEF Software
<1>3. ~AwaitsFills(q)
  BY <1>2 DEF AwaitsFills
<1>4. Fits(q) /\ Booked(q) = Booked(copy)
  BY <1>1, <1>2, <1>3, Facts, KinKeepsStop
<1>. QED
  BY <1>1, <1>2, <1>4 DEF q

LEMMA KeepsStopsStep ==
  ASSUME ExitInv, TakeProfitKeepsStops \/ SmartKeepsStops
  PROVE  ExitInv'
<1>1. PICK s \in {"tp", "smart"} : /\ s \in copy.active /\ StopsStay(copy, s)
                                   /\ pc' \in Between /\ ~Walking
                                   /\ UNCHANGED <<env, entry, rows, seen>>
  <2>1. CASE TakeProfitKeepsStops
    BY <2>1, NoOutage DEF TakeProfitKeepsStops, TargetHit, Continue, Walking, Between
  <2>2. CASE SmartKeepsStops
    <3>1. NoAlert(copy) = copy
      BY Facts, NoAlertKin
    <3>. QED
      BY <2>2, <3>1 DEF SmartKeepsStops, SmartActive, Continue, Walking, Between
  <2>. QED
    BY <2>1, <2>2
<1> DEFINE q == Retry(copy, s)
<1>2. copy' = q /\ \E ids : sells' = Cancel(ids)
  BY <1>1 DEF StopsStay
<1>3. Lapse
  BY <1>2, Facts, CancelLapses DEF Tame
<1>4. Fits(q) /\ Booked(q) = Booked(copy)
  BY <1>1, RetryFits
<1> HIDE DEF q
<1>. QED
  BY <1>1, <1>2, <1>3, <1>4, GoesOn

-----------------------------------------------------------------------------
(* Take profit *)

(* Of at most two targets the first that has not been sent is next, and there
   are contracts for all of it. *)
LEMMA NextTargetIs ==
  ASSUME Booking, "tp" \in copy.active, Pending(copy) # {}
  PROVE  /\ NextTarget \in {1, 2} /\ NextTarget \in DOMAIN copy.targets
         /\ copy.targets[NextTarget].state = "pending" /\ copy.targets[NextTarget] \in Target
         /\ CloseQuantity = copy.targets[NextTarget].qty
         /\ CloseQuantity \in 1 .. Qty /\ CloseQuantity <= copy.filled - Booked(copy)
         /\ copy.filled > 0
<1> DEFINE k == NextTarget
<1> DEFINE n == copy.targets[k].qty
<1>1. copy.targets \in Seq(Target) /\ Len(copy.targets) <= 2
  BY BookingFacts, RecordFields DEF Sound
<1>2. Pending(copy) \subseteq {1, 2} /\ Pending(copy) \subseteq DOMAIN copy.targets
  BY <1>1 DEF Pending
<1>3. k \in Pending(copy)
  <2>1. PICK m \in Pending(copy) : \A y \in Pending(copy) : m <= y
    <3>1. CASE 1 \in Pending(copy)
      BY <1>2, <3>1
    <3>2. CASE 1 \notin Pending(copy)
      BY <1>2, <3>2
    <3>. QED
      BY <3>1, <3>2
  <2>. QED
    BY <2>1 DEF NextTarget, Min
<1> HIDE DEF k
<1>4. /\ k \in {1, 2} /\ k \in DOMAIN copy.targets /\ copy.targets[k].state = "pending"
      /\ copy.targets[k] \in Target /\ n \in 1 .. Qty
  BY <1>1, <1>2, <1>3, TargetFields DEF Pending
<1>5. n <= copy.filled - Booked(copy) /\ copy.filled > 0
  <2>1. /\ Left(copy, 1) + Left(copy, 2) <= copy.filled - Booked(copy)
        /\ Left(copy, 1) \in Nat /\ Left(copy, 2) \in Nat /\ copy.filled > 0
    BY BookingFacts, Quantities DEF Sound
  <2>2. n = Left(copy, k)
    BY <1>4 DEF Left
  <2>3. n = Left(copy, 1) \/ n = Left(copy, 2)
    BY <1>4, <2>2
  <2>. QED
    BY <2>1, <2>3, BookingFacts
<1>6. RemainingOpen(copy) = copy.filled - Booked(copy) /\ RemainingOpen(copy) \in Nat
  BY <1>5, BookingFacts, Remaining
<1>7. Min({n, RemainingOpen(copy)}) = n
  <2>1. n \in Int /\ RemainingOpen(copy) \in Int /\ n <= RemainingOpen(copy)
    BY <1>4, <1>5, <1>6, ExitAssumption
  <2>. QED
    BY <2>1, MinOfTwo
<1>8. CloseQuantity = n
  BY <1>7 DEF CloseQuantity, k
<1>. QED
  BY <1>4, <1>5, <1>8 DEF k

LEMMA TargetSentFields ==
  ASSUME NEW r \in Record, NEW k \in DOMAIN r.targets, NEW kind, NewId \in Nat,
         NEW q, q = TargetSent(r, k, kind)
  PROVE  /\ q \in Record /\ q.alert = r.alert /\ q.filled = r.filled /\ q.covered = r.covered
         /\ q.stops = r.stops /\ q.submitted = r.submitted /\ q.closed = r.closed
         /\ q.order = r.order /\ q.of = r.of /\ q.is = r.is
         /\ q.active = r.active /\ q.stopQty = r.stopQty
         /\ DOMAIN q.targets = DOMAIN r.targets /\ Len(q.targets) = Len(r.targets)
         /\ q.targets[k].state = "submitted" /\ q.targets[k].order = NewId
         /\ q.targets[k].qty = r.targets[k].qty
         /\ \A j \in DOMAIN r.targets : j # k => q.targets[j] = r.targets[j]
<1> DEFINE id == NewId
<1>1. id \in Nat
  OBVIOUS
<1> DEFINE rests == kind = "limit"
<1>2. rests \in BOOLEAN
  OBVIOUS
<1> HIDE DEF id, rests
<1> DEFINE t == [r.targets[k] EXCEPT !.state = "submitted", !.order = id, !.resting = rests]
<1>3. q = [r EXCEPT !.targets[k] = t]
  BY DEF TargetSent, id, rests
<1>4. r.targets \in Seq(Target) /\ r.targets[k] \in Target
  <2>1. r.targets \in Seq(Target)
    BY RecordFields
  <2>. QED
    BY <2>1
<1>5. t \in Target /\ t.state = "submitted" /\ t.order = id /\ t.qty = r.targets[k].qty
  BY ONLY <1>1, <1>2, <1>4 DEF Target
<1> HIDE DEF t
<1> DEFINE ts == [r.targets EXCEPT ![k] = t]
<1>6. /\ ts \in Seq(Target) /\ Len(ts) = Len(r.targets) /\ DOMAIN ts = DOMAIN r.targets
      /\ ts[k] = t /\ \A j \in DOMAIN r.targets : j # k => ts[j] = r.targets[j]
  BY <1>4, <1>5
<1>7. q = [r EXCEPT !.targets = ts]
  BY <1>3
<1> HIDE DEF ts
<1>8. /\ q \in Record /\ q.alert = r.alert /\ q.filled = r.filled /\ q.covered = r.covered
      /\ q.stops = r.stops /\ q.submitted = r.submitted /\ q.closed = r.closed
      /\ q.order = r.order /\ q.of = r.of /\ q.is = r.is
      /\ q.active = r.active /\ q.stopQty = r.stopQty /\ q.targets = ts
  BY ZenonT(40), <1>6, <1>7 DEF Record
<1>. QED
  BY <1>5, <1>6, <1>8 DEF id

(* What selling n takes off a software stop, or puts in its place *)
LEMMA StopIsForTheRest ==
  ASSUME NEW a \in Record, \A s \in Source : a.closed[s] <= a.submitted[s],
         Booked(a) <= a.filled, a.filled > 0, NEW n \in 1 .. Qty,
         "stop" \in a.active => a.stopQty >= a.filled - Booked(a) + n,
         NEW q, q = StopForTheRest(a, n)
  PROVE  /\ Kin(a, q) /\ q.of = a.of /\ q.is = a.is
         /\ \A s \in {"tp", "smart"} : s \in q.active <=> s \in a.active
         /\ "stop" \in q.active => q.stopQty >= q.filled - Booked(q) /\ q.stopQty > 0
         /\ "stop" \in q.active \/ Booked(q) = q.filled
         /\ ("stop" \in a.active => a.stopQty = a.filled - Booked(a) + n)
               => ("stop" \in q.active => q.stopQty = q.filled - Booked(q))
<1>1. /\ RemainingOpen(a) = a.filled - Booked(a) /\ RemainingOpen(a) \in Nat
      /\ a.filled \in 0 .. Qty /\ Booked(a) \in Nat /\ Qty \in Nat /\ a.stopQty \in 0 .. Qty
  BY RemainingIs, Quantities, RecordFields, ExitAssumption
<1>2. CASE "stop" \in a.active
  <2> DEFINE m == Max({0, a.stopQty - n})
  <2> DEFINE b == [a EXCEPT !.stopQty = m]
  <2>1. /\ m \in 0 .. Qty /\ m >= a.filled - Booked(a)
        /\ m > 0 \/ Booked(a) = a.filled
        /\ a.stopQty = a.filled - Booked(a) + n => m = a.filled - Booked(a)
    <3>1. 0 \in Int /\ a.stopQty - n \in Int
      BY <1>1
    <3>2. m = IF 0 >= a.stopQty - n THEN 0 ELSE a.stopQty - n
      BY <3>1, MaxOfTwo
    <3>3. a.stopQty >= a.filled - Booked(a) + n /\ Booked(a) <= a.filled /\ n \in Nat /\ n > 0
      BY <1>2, ExitAssumption
    <3> DEFINE s == a.stopQty
    <3> DEFINE open == a.filled - Booked(a)
    <3>4. /\ s \in Nat /\ s <= Qty /\ Qty \in Nat /\ n \in Nat /\ n > 0 /\ open \in Nat /\ s >= open + n
          /\ m = (IF 0 >= s - n THEN 0 ELSE s - n)
          /\ a.stopQty = a.filled - Booked(a) + n => s = open + n
          /\ open = 0 => Booked(a) = a.filled
      BY <1>1, <3>2, <3>3
    <3> HIDE DEF m, s, open
    <3>5. /\ m \in 0 .. Qty /\ m >= open /\ (m > 0 \/ open = 0)
          /\ s = open + n => m = open
      BY ONLY <3>4
    <3>. QED
      BY <3>4, <3>5 DEF s, open
  <2> HIDE DEF m
  <2>2. /\ Kin(a, b) /\ b.stopQty = m /\ b.active = a.active /\ b.of = a.of /\ b.is = a.is
    BY <2>1, StopQtyKin
  <2>3. q = Activate(b, "stop", m > 0)
    BY <1>2 DEF StopForTheRest, m
  <2> HIDE DEF b
  <2>4. \/ q = Activate(b, "stop", TRUE) /\ m > 0
        \/ q = Activate(b, "stop", FALSE) /\ ~(m > 0)
    <3>1. CASE m > 0
      <4>1. (m > 0) = TRUE
        BY <3>1
      <4>. QED
        BY <2>3, <4>1
    <3>2. CASE ~(m > 0)
      <4>1. (m > 0) = FALSE
        BY <3>2
      <4>. QED
        BY <2>3, <4>1
    <3>. QED
      BY <3>1, <3>2
  <2>5. b \in Record
    BY <2>2 DEF Kin
  <2>6. /\ Kin(b, q) /\ q.of = b.of /\ q.is = b.is /\ q.stopQty = b.stopQty
        /\ \/ q.active = b.active \cup {"stop"} /\ m > 0
           \/ q.active = b.active \ {"stop"} /\ ~(m > 0)
    <3>1. "stop" \in Software
      BY DEF Software
    <3>2. /\ Kin(b, Activate(b, "stop", TRUE)) /\ Kin(b, Activate(b, "stop", FALSE))
          /\ Activate(b, "stop", TRUE).active = b.active \cup {"stop"}
          /\ Activate(b, "stop", FALSE).active = b.active \ {"stop"}
          /\ Activate(b, "stop", TRUE).of = b.of /\ Activate(b, "stop", FALSE).of = b.of
          /\ Activate(b, "stop", TRUE).is = b.is /\ Activate(b, "stop", FALSE).is = b.is
          /\ Activate(b, "stop", TRUE).stopQty = b.stopQty
          /\ Activate(b, "stop", FALSE).stopQty = b.stopQty
      BY <2>5, <3>1, ActivateKin
    <3>. QED
      BY <2>4, <3>2
  <2>7. Kin(a, q) /\ Booked(q) = Booked(a) /\ q.filled = a.filled
    BY <2>2, <2>6 DEF Kin, Booked
  <2>8. \A s \in {"tp", "smart"} : s \in q.active <=> s \in a.active
    BY <2>2, <2>6
  <2>9. q.stopQty = m /\ ("stop" \in q.active <=> m > 0)
    BY <2>2, <2>6
  <2>. QED
    BY <1>2, <2>1, <2>2, <2>6, <2>7, <2>8, <2>9
<1>3. CASE "stop" \notin a.active /\ RemainingOpen(a) > 0
  <2>1. q = ArmStop(a, RemainingOpen(a)) /\ RemainingOpen(a) \in 0 .. Qty
    BY <1>1, <1>3 DEF StopForTheRest
  <2>2. /\ Kin(a, q) /\ q.stopQty = RemainingOpen(a) /\ q.active = a.active \cup {"stop"}
        /\ q.of = a.of /\ q.is = a.is
    BY <2>1, ArmStopKin
  <2>3. Booked(q) = Booked(a) /\ q.filled = a.filled
    BY <2>2 DEF Kin, Booked
  <2>4. /\ q.stopQty >= q.filled - Booked(q) /\ q.stopQty > 0
        /\ q.stopQty = q.filled - Booked(q)
    BY <1>1, <1>3, <2>2, <2>3
  <2>. QED
    BY <2>2, <2>4
<1>4. CASE "stop" \notin a.active /\ ~(RemainingOpen(a) > 0)
  <2>1. q = a
    BY <1>4 DEF StopForTheRest
  <2>2. Booked(a) = a.filled
    BY <1>1, <1>4
  <2>. QED
    BY <1>4, <2>1, <2>2 DEF Kin
<1>. QED
  BY <1>2, <1>3, <1>4

LEMMA KinBooked ==
  ASSUME NEW r, NEW q, Kin(r, q)
  PROVE  Booked(q) = Booked(r)
BY DEF Kin, Booked

LEMMA KinKin ==
  ASSUME NEW r, NEW q, NEW p, Kin(r, q), Kin(q, p)
  PROVE  Kin(r, p)
BY DEF Kin

(* What is asked of the record of an exit that is being sent, see SendsExit *)
Sendable(q, qty) ==
    /\ q \in Record /\ ~q.alert /\ Sound(q) /\ StopsAreKnown(q)
    /\ \A k \in DOMAIN q.targets : q.targets[k].state # "pending" =>
         \/ /\ q.targets[k].order \in DOMAIN sells
            /\ sells[q.targets[k].order].kind # "stop"
            /\ sells[q.targets[k].order].qty = q.targets[k].qty
         \/ q.targets[k].order = NewId /\ q.targets[k].qty = qty
    /\ \A s \in Source \ {"tp"} : q.order[s] # 0 =>
         \/ q.order[s] \in DOMAIN sells /\ sells[q.order[s]].qty <= q.submitted[s]
         \/ q.order[s] = NewId /\ qty <= q.submitted[s]

(* A close of the next target, the rest of which the software stop watches *)
LEMMA TargetCloseSound ==
  ASSUME Booking, "tp" \in copy.active, Pending(copy) # {},
         NEW kind \in {"limit", "market"}, NEW n, n = CloseQuantity,
         NEW t, t = TargetSent(copy, NextTarget, kind),
         NEW r, r = Submitted(t, "tp", copy.submitted["tp"] + n),
         NEW a, a = Activate(r, "tp", Pending(r) # {}),
         NEW b, b = StopForTheRest(a, n), NEW q, q = WithoutRest(b, {"smart"})
  PROVE  /\ q \in Record /\ q.alert = copy.alert /\ q.of = "tp"
         /\ q.filled = copy.filled /\ q.covered = copy.covered /\ q.stops = copy.stops
         /\ Sound(q) /\ Booked(q) = Booked(copy) + n
         /\ Sends(q, n) /\ n \in 1 .. Qty
         /\ \A k \in DOMAIN q.targets : q.targets[k].state # "pending" =>
              \/ k \in DOMAIN copy.targets /\ q.targets[k] = copy.targets[k]
              \/ q.targets[k].order = NewId /\ q.targets[k].qty = n
         /\ "stop" \in q.active \/ Booked(q) = q.filled
         /\ Armed(copy) => Armed(q)
<1> DEFINE k == NextTarget
<1>1. "tp" \in copy.active /\ Pending(copy) # {}
  OBVIOUS
<1>2. /\ k \in {1, 2} /\ k \in DOMAIN copy.targets
      /\ copy.targets[k].state = "pending" /\ copy.targets[k].qty = n
      /\ n \in 1 .. Qty /\ n <= copy.filled - Booked(copy) /\ copy.filled > 0
  BY <1>1, NextTargetIs
<1> HIDE DEF k
<1>3. NewId \in Nat /\ n \in Nat /\ n > 0
  BY <1>2, BookingFacts, ExitAssumption
<1>4. /\ t \in Record /\ t.alert = copy.alert /\ t.filled = copy.filled /\ t.covered = copy.covered
      /\ t.stops = copy.stops /\ t.submitted = copy.submitted /\ t.closed = copy.closed
      /\ t.order = copy.order /\ t.active = copy.active /\ t.stopQty = copy.stopQty
      /\ DOMAIN t.targets = DOMAIN copy.targets /\ Len(t.targets) = Len(copy.targets)
      /\ t.targets[k].state = "submitted" /\ t.targets[k].order = NewId
      /\ t.targets[k].qty = n
      /\ \A j \in DOMAIN copy.targets : j # k => t.targets[j] = copy.targets[j]
  <2>1. copy \in Record
    BY BookingFacts
  <2>2. t = TargetSent(copy, k, kind)
    BY DEF k
  <2>3. /\ t \in Record /\ t.alert = copy.alert /\ t.filled = copy.filled /\ t.covered = copy.covered
        /\ t.stops = copy.stops /\ t.submitted = copy.submitted /\ t.closed = copy.closed
        /\ t.order = copy.order /\ t.active = copy.active /\ t.stopQty = copy.stopQty
        /\ DOMAIN t.targets = DOMAIN copy.targets /\ Len(t.targets) = Len(copy.targets)
        /\ t.targets[k].state = "submitted" /\ t.targets[k].order = NewId
        /\ t.targets[k].qty = copy.targets[k].qty
        /\ \A j \in DOMAIN copy.targets : j # k => t.targets[j] = copy.targets[j]
    BY <1>2, <1>3, <2>1, <2>2, TargetSentFields
  <2>. QED
    BY <1>2, <2>1, <2>3
<1> DEFINE more == copy.submitted["tp"] + n
<1>5. /\ more \in 0 .. Qty /\ copy.submitted \in [Source -> 0 .. Qty]
      /\ copy.submitted["stop"] \in Nat /\ copy.submitted["tp"] \in Nat
      /\ copy.submitted["smart"] \in Nat /\ copy.submitted["flatten"] \in Nat
  <2>1. /\ copy.submitted["stop"] \in Nat /\ copy.submitted["tp"] \in Nat
        /\ copy.submitted["smart"] \in Nat /\ copy.submitted["flatten"] \in Nat
        /\ copy.submitted \in [Source -> 0 .. Qty] /\ copy.filled \in 0 .. Qty
    BY BookingFacts, Quantities, RecordFields DEF Source
  <2>2. copy.submitted["tp"] <= Booked(copy)
    BY <2>1 DEF Booked
  <2>3. Booked(copy) \in Nat /\ Qty \in Nat
    BY BookingFacts, ExitAssumption
  <2>. QED
    BY ONLY <1>2, <1>3, <2>1, <2>2, <2>3
<1>6. SentAs(t, "tp", more, r)
  <2>1. "tp" \in Source
    BY DEF Source
  <2>2. r = Submitted(t, "tp", more)
    OBVIOUS
  <2> HIDE DEF more
  <2>3. SentAs(t, "tp", more, Submitted(t, "tp", more))
    BY <1>3, <1>4, <1>5, <2>1, SubmittedFields
  <2>. QED
    BY <2>2, <2>3
<1>7. Booked(r) = Booked(copy) + n
  <2>1. r.submitted = [copy.submitted EXCEPT !["tp"] = copy.submitted["tp"] + n]
    BY <1>4, <1>6 DEF SentAs
  <2>. QED
    BY <1>3, <1>5, <2>1 DEF Booked, Source
<1>8. /\ Kin(r, a) /\ a.of = "tp" /\ a.stopQty = copy.stopQty
      /\ "tp" \in a.active => Pending(r) # {}
      /\ "stop" \in a.active <=> "stop" \in copy.active
  <2>1. r \in Record /\ "tp" \in Software
    BY <1>6 DEF SentAs, Software
  <2>2. \/ a = Activate(r, "tp", TRUE) /\ Pending(r) # {}
        \/ a = Activate(r, "tp", FALSE)
    <3>1. CASE Pending(r) # {}
      <4>1. (Pending(r) # {}) = TRUE
        BY <3>1
      <4>. QED
        BY <3>1, <4>1
    <3>2. CASE ~(Pending(r) # {})
      <4>1. (Pending(r) # {}) = FALSE
        BY <3>2
      <4>. QED
        BY <4>1
    <3>. QED
      BY <3>1, <3>2
  <2>3. /\ Kin(r, Activate(r, "tp", TRUE)) /\ Kin(r, Activate(r, "tp", FALSE))
        /\ Activate(r, "tp", TRUE).active = r.active \cup {"tp"}
        /\ Activate(r, "tp", FALSE).active = r.active \ {"tp"}
        /\ Activate(r, "tp", TRUE).of = r.of /\ Activate(r, "tp", FALSE).of = r.of
        /\ Activate(r, "tp", TRUE).is = r.is /\ Activate(r, "tp", FALSE).is = r.is
        /\ Activate(r, "tp", TRUE).stopQty = r.stopQty
        /\ Activate(r, "tp", FALSE).stopQty = r.stopQty
    BY <2>1, ActivateKin
  <2>4. r.of = "tp" /\ r.stopQty = copy.stopQty /\ r.active = copy.active
    BY <1>4, <1>6 DEF SentAs
  <2>5. CASE a = Activate(r, "tp", TRUE) /\ Pending(r) # {}
    BY ONLY <2>3, <2>4, <2>5
  <2>6. CASE a = Activate(r, "tp", FALSE)
    BY ONLY <2>3, <2>4, <2>6
  <2>. QED
    BY <2>2, <2>5, <2>6
<1>9. \A s \in Source : r.closed[s] <= r.submitted[s]
  <2> SUFFICES ASSUME NEW s \in Source PROVE r.closed[s] <= r.submitted[s]
    OBVIOUS
  <2>1. /\ r.closed[s] = copy.closed[s] /\ copy.closed[s] <= copy.submitted[s]
        /\ copy.closed[s] \in Nat /\ copy.submitted[s] \in Nat
    BY SMTT(30), <1>4, <1>6, BookingFacts, Quantities DEF SentAs, Sound
  <2>2. r.submitted[s] = IF s = "tp" THEN copy.submitted["tp"] + n ELSE copy.submitted[s]
    BY <1>4, <1>5, <1>6 DEF SentAs
  <2>. QED
    BY <1>3, <2>1, <2>2
<1>10. /\ a \in Record /\ Booked(a) = Booked(copy) + n /\ a.filled = copy.filled
       /\ \A s \in Source : a.closed[s] <= a.submitted[s]
  BY ZenonT(40), <1>4, <1>6, <1>7, <1>8, <1>9 DEF Kin, Booked, SentAs
<1>11. /\ Booked(a) <= a.filled /\ a.filled > 0
       /\ "stop" \in a.active => a.stopQty >= a.filled - Booked(a) + n
       /\ Armed(copy) => ("stop" \in a.active => a.stopQty = a.filled - Booked(a) + n)
  <2>1. /\ "stop" \in copy.active => copy.stopQty >= copy.filled - Booked(copy)
        /\ Armed(copy) => ("stop" \in copy.active => copy.stopQty = copy.filled - Booked(copy))
    BY BookingFacts DEF Sound, Armed
  <2>2. copy.stopQty \in Nat
    BY BookingFacts, Quantities
  <2>. QED
    BY SMTT(30), <1>2, <1>3, <1>8, <1>10, <2>1, <2>2, BookingFacts
<1>12. /\ Kin(a, b) /\ b.of = "tp"
       /\ "tp" \in b.active <=> "tp" \in a.active
       /\ "stop" \in b.active => b.stopQty >= b.filled - Booked(b) /\ b.stopQty > 0
       /\ "stop" \in b.active \/ Booked(b) = b.filled
       /\ Armed(copy) => ("stop" \in b.active => b.stopQty = b.filled - Booked(b))
  BY SMTT(60), <1>2, <1>8, <1>10, <1>11, StopIsForTheRest
<1>13. /\ Kin(b, q) /\ q.of = b.of /\ q.stopQty = b.stopQty
       /\ "stop" \in q.active <=> "stop" \in b.active
       /\ "tp" \in q.active <=> "tp" \in b.active
  <2>1. b \in Record
    BY <1>12 DEF Kin
  <2>2. q = Only(b, b.active \ {"smart"}) \/ q = b
    BY DEF WithoutRest, Only
  <2>3. b.active \ {"smart"} \in SUBSET Software
    BY <2>1, RecordFields
  <2> DEFINE on == b.active \ {"smart"}
  <2>4. /\ "stop" \in on <=> "stop" \in b.active
        /\ "tp" \in on <=> "tp" \in b.active
    OBVIOUS
  <2> HIDE DEF on
  <2>5. /\ Kin(b, Only(b, on)) /\ Only(b, on).active = on
        /\ Only(b, on).of = b.of /\ Only(b, on).is = b.is /\ Only(b, on).stopQty = b.stopQty
    BY <2>1, <2>3, OnlyKin DEF on
  <2>6. CASE q = b
    BY <2>1, <2>6 DEF Kin
  <2>7. CASE q = Only(b, on)
    BY <2>4, <2>5, <2>7
  <2>. QED
    BY <2>2, <2>6, <2>7 DEF on
<1> HIDE DEF more
<1>14. /\ q \in Record /\ q.alert = copy.alert /\ q.of = "tp"
       /\ q.filled = copy.filled /\ q.covered = copy.covered /\ q.stops = copy.stops
       /\ q.closed = copy.closed /\ q.targets = t.targets
       /\ q.submitted = r.submitted /\ q.order = r.order
       /\ r.submitted = [copy.submitted EXCEPT !["tp"] = more]
       /\ r.order = [copy.order EXCEPT !["tp"] = NewId]
  <2>1. Kin(r, q)
    BY ONLY <1>8, <1>12, <1>13, KinKin
  <2>2. q.of = "tp"
    BY ONLY <1>12, <1>13
  <2>. QED
    BY ONLY <1>4, <1>6, <2>1, <2>2 DEF Kin, SentAs
<1>20. Booked(q) = Booked(copy) + n /\ Booked(q) <= q.filled
  <2>1. Booked(q) = Booked(b) /\ Booked(b) = Booked(a)
    BY ONLY <1>12, <1>13, KinBooked
  <2>. QED
    BY ONLY <1>10, <1>11, <1>14, <2>1
<1>21. /\ "stop" \in q.active => q.stopQty >= q.filled - Booked(q) /\ q.stopQty > 0
       /\ "stop" \in q.active \/ Booked(q) = q.filled
       /\ Armed(copy) => ("stop" \in q.active => q.stopQty = q.filled - Booked(q))
  <2>1. Booked(q) = Booked(b) /\ q.filled = b.filled
    BY ONLY <1>13, KinBooked DEF Kin
  <2>. QED
    BY ONLY <1>12, <1>13, <2>1
<1>15. Sound(q)
  <2>1. /\ q.filled <= entry.filled /\ q.covered <= q.filled
        /\ Len(q.targets) <= 2 /\ q.filled > 0
    <3>1. /\ copy.filled <= entry.filled /\ copy.covered <= copy.filled
          /\ Len(copy.targets) <= 2
      BY BookingFacts DEF Sound
    <3>. QED
      BY ONLY <1>2, <1>4, <1>14, <3>1
  <2>6. q.closed = r.closed
    BY ONLY <1>4, <1>6, <1>14 DEF SentAs
  <2>2. \A s \in Source : q.closed[s] <= q.submitted[s]
    BY ONLY <1>9, <1>14, <2>6
  <2>3. ~(q.submitted["stop"] + q.submitted["smart"] > 0)
    <3>1. q.submitted["stop"] = copy.submitted["stop"] /\ q.submitted["smart"] = copy.submitted["smart"]
      BY ONLY <1>5, <1>14 DEF Source
    <3>2. ~(copy.submitted["stop"] + copy.submitted["smart"] > 0)
      BY <1>2, <1>3, BookingFacts DEF Sound
    <3>. QED
      BY <3>1, <3>2
  <2>4. ~AwaitsFills(q) /\ q.of # "entry"
    BY <1>14 DEF AwaitsFills
  <2>5. Left(q, 1) + Left(q, 2) <= q.filled - Booked(q)
    <3>1. /\ Left(copy, 1) + Left(copy, 2) <= copy.filled - Booked(copy)
          /\ Left(copy, 1) \in Nat /\ Left(copy, 2) \in Nat
      BY <1>1, BookingFacts, Quantities DEF Sound
    <3>2. Left(copy, k) = n /\ Left(q, k) = 0
      BY <1>2, <1>4, <1>14 DEF Left
    <3>3. \A j \in {1, 2} : j # k => Left(q, j) = Left(copy, j)
      <4>1. /\ DOMAIN q.targets = DOMAIN copy.targets
            /\ \A j \in DOMAIN copy.targets : j # k => q.targets[j] = copy.targets[j]
        BY ONLY <1>4, <1>14
      <4>. QED
        BY ONLY <4>1 DEF Left
    <3>5. copy.filled \in Nat /\ Booked(copy) \in Nat
      BY BookingFacts
    <3>4. Left(q, 1) + Left(q, 2) = Left(copy, 1) + Left(copy, 2) - n
      <4>1. CASE k = 1
        BY <1>3, <3>1, <3>2, <3>3, <4>1
      <4>2. CASE k = 2
        BY <1>3, <3>1, <3>2, <3>3, <4>2
      <4>. QED
        BY <1>2, <4>1, <4>2
    <3>. QED
      BY ONLY <1>3, <1>14, <1>20, <3>1, <3>4, <3>5
  <2>. QED
    BY ONLY <1>14, <1>20, <1>21, <2>1, <2>2, <2>3, <2>4, <2>5 DEF Sound
<1>17. \A j \in DOMAIN q.targets : q.targets[j].state # "pending" =>
         \/ j \in DOMAIN copy.targets /\ q.targets[j] = copy.targets[j]
         \/ q.targets[j].order = NewId /\ q.targets[j].qty = n
  BY ONLY <1>4, <1>14
<1>16. Armed(copy) => Armed(q)
  <2>1. Pending(q) = Pending(r)
    <3>1. q.targets = r.targets
      BY ONLY <1>6, <1>14 DEF SentAs
    <3>. QED
      BY <3>1 DEF Pending
  <2>. QED
    BY ONLY <1>8, <1>12, <1>13, <1>21, <2>1 DEF Armed
<1>19. \A j \in DOMAIN q.targets : q.targets[j].state # "pending" =>
         \/ /\ q.targets[j].order \in DOMAIN sells
            /\ sells[q.targets[j].order].qty = q.targets[j].qty
         \/ q.targets[j].order = NewId /\ q.targets[j].qty = n
  <2>1. Ordered(copy)
    BY BookingFacts
  <2>. QED
    BY ONLY <1>17, <2>1 DEF Ordered
<1>18. \A s \in Source \ {"tp"} : q.order[s] # 0 =>
         q.order[s] \in DOMAIN sells /\ sells[q.order[s]].qty <= q.submitted[s]
  <2>1. copy.order \in [Source -> Nat] /\ copy.submitted \in [Source -> 0 .. Qty]
    BY BookingFacts, RecordFields
  <2>2. \A s \in Source \ {"tp"} : q.order[s] = copy.order[s] /\ q.submitted[s] = copy.submitted[s]
    BY ONLY <1>14, <2>1
  <2>3. Ordered(copy)
    BY BookingFacts
  <2>. QED
    BY ONLY <2>2, <2>3 DEF Ordered
<1>22. Sends(q, n)
  BY <1>18, <1>19 DEF Sends
<1>. QED
  BY <1>2, <1>14, <1>15, <1>16, <1>17, <1>20, <1>21, <1>22

LEMMA TargetCloseFits ==
  ASSUME ExitInv, pc = "tpClose", NEW kind \in {"limit", "market"}, NEW n, n = CloseQuantity,
         NEW t, t = TargetSent(copy, NextTarget, kind),
         NEW r, r = Submitted(t, "tp", copy.submitted["tp"] + n),
         NEW a, a = Activate(r, "tp", Pending(r) # {}),
         NEW b, b = StopForTheRest(a, n), NEW q, q = WithoutRest(b, {"smart"})
  PROVE  Sendable(q, n) /\ Booked(q) = Booked(copy) + n
<1>1. ByStops = 0 /\ "tp" \in copy.active /\ Pending(copy) # {} /\ Booking
  BY ExitBooking DEF ExitInv, Midway
<1>2. /\ q \in Record /\ q.alert = copy.alert
      /\ q.filled = copy.filled /\ q.covered = copy.covered /\ q.stops = copy.stops
      /\ Sound(q) /\ Booked(q) = Booked(copy) + n /\ Sends(q, n)
      /\ \A k \in DOMAIN q.targets : q.targets[k].state # "pending" =>
           \/ k \in DOMAIN copy.targets /\ q.targets[k] = copy.targets[k]
           \/ q.targets[k].order = NewId /\ q.targets[k].qty = n
  BY <1>1, TargetCloseSound
<1>3. StopsAreKnown(q)
  BY <1>1, <1>2, Facts DEF StopsAreKnown
<1>4. \A j \in DOMAIN q.targets : q.targets[j].state # "pending" =>
         \/ /\ q.targets[j].order \in DOMAIN sells
            /\ sells[q.targets[j].order].kind # "stop"
            /\ sells[q.targets[j].order].qty = q.targets[j].qty
         \/ q.targets[j].order = NewId /\ q.targets[j].qty = n
  <2>1. ExitsAreKnown(copy)
    BY Facts
  <2>. QED
    BY ONLY <1>2, <2>1 DEF ExitsAreKnown
<1>5. \A s \in Source \ {"tp"} : q.order[s] # 0 =>
         \/ q.order[s] \in DOMAIN sells /\ sells[q.order[s]].qty <= q.submitted[s]
         \/ q.order[s] = NewId /\ n <= q.submitted[s]
  BY <1>2 DEF Sends
<1>6. ~q.alert
  BY <1>2, Facts
<1>. QED
  BY <1>2, <1>3, <1>4, <1>5, <1>6 DEF Sendable

LEMMA TakeProfitClosesStep ==
  ASSUME ExitInv, TakeProfitCloses
  PROVE  ExitInv'
<1> DEFINE n == CloseQuantity
<1> DEFINE t(kind) == TargetSent(copy, NextTarget, kind)
<1> DEFINE r(kind) == Submitted(t(kind), "tp", copy.submitted["tp"] + n)
<1> DEFINE a(kind) == Activate(r(kind), "tp", Pending(r(kind)) # {})
<1> DEFINE b(kind) == StopForTheRest(a(kind), n)
<1> DEFINE q(kind) == WithoutRest(b(kind), {"smart"})
<1>1. /\ pc = "tpClose" /\ pc' = "persist" /\ UNCHANGED <<env, entry, rows, seen>> /\ ~Walking
      /\ \E kind \in CloseKinds(0) : Submit(kind, n) /\ copy' = q(kind)
  BY DEF TakeProfitCloses, Continue, Walking
<1>2. PICK kind \in {"limit", "market"} : Submit(kind, n) /\ copy' = q(kind)
  BY <1>1 DEF CloseKinds
<1>3. Sendable(q(kind), n) /\ Booked(q(kind)) = Booked(copy) + n
  BY <1>1, TargetCloseFits
<1>4. n \in 1 .. Qty /\ ByStops = 0
  <2>1. "tp" \in copy.active /\ Pending(copy) # {} /\ ByStops = 0
    BY <1>1 DEF ExitInv, Midway
  <2>. QED
    BY <2>1, NextTargetIs, ExitBooking
<1> DEFINE p == q(kind)
<1>5. copy' = p
  BY <1>2
<1> HIDE DEF p, q, n
<1>6. /\ p \in Record /\ ~p.alert /\ Sound(p) /\ StopsAreKnown(p) /\ Booked(p) = Booked(copy) + n
      /\ \A k \in DOMAIN p.targets : p.targets[k].state # "pending" =>
           \/ /\ p.targets[k].order \in DOMAIN sells
              /\ sells[p.targets[k].order].kind # "stop"
              /\ sells[p.targets[k].order].qty = p.targets[k].qty
           \/ p.targets[k].order = NewId /\ p.targets[k].qty = n
      /\ \A s \in Source \ {"tp"} : p.order[s] # 0 =>
           \/ p.order[s] \in DOMAIN sells /\ sells[p.order[s]].qty <= p.submitted[s]
           \/ p.order[s] = NewId /\ n <= p.submitted[s]
  BY <1>3 DEF p, Sendable
<1>7. rows' \in Seq(Source \X Nat) /\ Submit(kind, n) /\ UNCHANGED <<env, entry, seen>>
  BY <1>1, <1>2 DEF ExitInv, Types
<1>8. /\ Fits(copy)' /\ Types' /\ ByExits' = ByExits + n /\ ByStops' = ByStops
  BY <1>4, <1>5, <1>6, <1>7, SendsExit
<1>9. ByExits' <= Booked(copy') /\ ByExits' + ByStops' <= entry'.filled
  <2>1. /\ n \in Nat /\ Booked(p) <= p.filled /\ p.filled <= entry.filled
        /\ p.filled \in Nat /\ entry'.filled = entry.filled
    BY <1>1, <1>4, <1>6, Quantities, ExitAssumption DEF Sound
  <2>2. ByExits <= Booked(copy) /\ ByExits \in Nat /\ Booked(copy) \in Nat /\ entry.filled \in Nat
    BY <1>1, Facts
  <2>3. /\ ByExits + n <= Booked(p) /\ ByExits + n + 0 <= entry.filled
    BY ONLY <1>6, <2>1, <2>2
  <2>. QED
    BY ONLY <1>4, <1>5, <1>8, <2>1, <2>3
<1>. QED
  BY <1>1, <1>8, <1>9, ReachesBetween DEF Between

LEMMA TakeProfitCloseFailsStep ==
  ASSUME ExitInv, TakeProfitCloseFails
  PROVE  ExitInv'
<1> DEFINE r == Retry(copy, "tp")
<1> DEFINE q == ArmStop(r, RemainingOpen(r))
<1>1. /\ pc = "tpClose" /\ pc' \in Between /\ UNCHANGED <<env, entry, sells, rows, seen>>
      /\ ~Walking
      /\ copy' = r \/ copy' = q
  BY DEF TakeProfitCloseFails, SubmitLost, Continue, Walking, Between, ExitInv, Types, Tame
<1>2. ByStops = 0 /\ "tp" \in copy.active /\ copy.filled > 0
  <2>1. ByStops = 0 /\ "tp" \in copy.active
    BY <1>1 DEF ExitInv, Midway
  <2>. QED
    BY <2>1, Facts DEF Sound
<1>3. Kin(copy, r) /\ Fits(r) /\ Booked(r) = Booked(copy) /\ r.of = "tp"
  BY <1>2, RetryFits
<1> HIDE DEF r
<1>4. Fits(q) /\ Booked(q) = Booked(r)
  <2>1. /\ r \in Record /\ ~r.alert /\ r.filled = copy.filled /\ Sound(r)
    BY <1>3 DEF Kin, Fits
  <2>2. RemainingOpen(r) = r.filled - Booked(r) /\ RemainingOpen(r) \in 0 .. Qty
    <3>1. RemainingOpen(r) = r.filled - Booked(r) /\ RemainingOpen(r) \in Nat
      BY <1>2, <2>1, Remaining
    <3>2. r.filled \in 0 .. Qty /\ Booked(r) \in Nat /\ r.filled \in Nat
      BY <2>1, RecordFields, Quantities
    <3>. QED
      BY <3>1, <3>2, ExitAssumption
  <2>3. /\ Kin(r, q) /\ q.stopQty = RemainingOpen(r) /\ q.active = r.active \cup {"stop"}
        /\ q.of = r.of
    BY <2>1, <2>2, ArmStopKin
  <2>4. /\ ~AwaitsFills(q) /\ q.of # "entry"
        /\ "tp" \in q.active => "tp" \in r.active
    BY <1>3, <2>3 DEF AwaitsFills
  <2> HIDE DEF q
  <2>5. Booked(q) = Booked(r) /\ q.filled = r.filled
    BY <2>3 DEF Kin, Booked
  <2>6. ByStops = 0 /\ q.filled > 0 /\ q.stopQty >= q.filled - Booked(q)
    <3>1. r.filled - Booked(r) >= r.filled - Booked(r)
      BY <2>1, Quantities
    <3>. QED
      BY <1>2, <2>1, <2>2, <2>3, <2>5, <3>1
  <2>. QED
    BY <1>3, <2>3, <2>4, <2>5, <2>6, KinFits
<1> HIDE DEF q
<1>5. Lapse
  BY <1>1, SameOrders
<1>6. CASE copy' = r
  BY <1>1, <1>3, <1>5, <1>6, GoesOn
<1>7. CASE copy' = q
  <2>1. Booked(q) = Booked(copy)
    BY <1>3, <1>4
  <2>. QED
    BY <1>1, <1>4, <1>5, <1>7, <2>1, GoesOn
<1>. QED
  BY <1>1, <1>6, <1>7

-----------------------------------------------------------------------------
(* Smart exit *)

LEMMA SmartIdleStep ==
  ASSUME ExitInv, SmartIdle
  PROVE  ExitInv'
<1> DEFINE q == Activate(copy, "smart", FALSE)
<1>1. /\ pc' \in Between /\ ~Walking /\ UNCHANGED <<env, entry, sells, rows, seen>>
      /\ copy' = copy \/ copy' = q
  BY DEF SmartIdle, Continue, Walking, Between
<1>2. /\ Kin(copy, q) /\ q.active = copy.active \ {"smart"} /\ q.of = copy.of /\ q.is = copy.is
      /\ q.stopQty = copy.stopQty
  <2>1. copy \in Record /\ ~copy.alert /\ "smart" \in Software
    BY Facts DEF Software
  <2>. QED
    BY <2>1, ActivateKin
<1> HIDE DEF q
<1>3. /\ "tp" \in q.active => "tp" \in copy.active
      /\ "stop" \in q.active => "stop" \in copy.active
      /\ AwaitsFills(q) <=> AwaitsFills(copy)
  BY <1>2 DEF AwaitsFills
<1>4. "stop" \in copy.active => ~AwaitsFills(copy)
  BY Facts DEF Sound
<1>5. Fits(q) /\ Booked(q) = Booked(copy)
  BY <1>2, <1>3, <1>4, Facts, KinKeepsStop
<1>6. Lapse /\ Fits(copy)
  BY <1>1, SameOrders, Facts
<1>7. CASE copy' = copy
  BY <1>1, <1>6, <1>7, GoesOn
<1>8. CASE copy' = q
  BY <1>1, <1>5, <1>6, <1>8, GoesOn
<1>. QED
  BY <1>1, <1>7, <1>8

Off(r, n) == [r EXCEPT !.active = {}, !.stopQty = n]

LEMMA OffKin ==
  ASSUME NEW r \in Record, NEW n \in 0 .. Qty
  PROVE  /\ Kin(r, Off(r, n)) /\ Off(r, n).active = {}
         /\ Off(r, n).of = r.of /\ Off(r, n).is = r.is
BY DEF Kin, Record, Off

LEMMA SmartClosesStep ==
  ASSUME ExitInv, SmartCloses
  PROVE  ExitInv'
<1> DEFINE n == RemainingOpen(copy)
<1> DEFINE r == Submitted(copy, "smart", n)
<1> DEFINE m == IF "stop" \in r.active THEN 0 ELSE r.stopQty
<1> DEFINE q == Off(r, m)
<1>1. /\ pc = "smartClose" /\ pc' = "rows" /\ Submit("market", n) /\ ~Walking
      /\ UNCHANGED <<env, entry, rows, seen>>
  BY DEF SmartCloses, Continue, Walking
<1>2. copy' = q
  <2>1. NoAlert(copy) = copy
    BY Facts, NoAlertKin
  <2>. QED
    BY <2>1 DEF SmartCloses, Off
<1>3. ByStops = 0 /\ Booked(copy) < copy.filled /\ copy.filled > 0
  <2>1. ByStops = 0 /\ Booked(copy) < copy.filled
    BY <1>1 DEF ExitInv, Midway
  <2>. QED
    BY <2>1, Facts
<1>4. n = copy.filled - Booked(copy) /\ n > 0
  <2>1. n = copy.filled - Booked(copy)
    BY <1>3, Facts, Remaining
  <2>. QED
    BY <1>3, <2>1, Facts
<1>5. Kin(copy, copy)
  BY Facts DEF Kin
<1> HIDE DEF n, r
<1>6. r \in Record /\ ~r.alert /\ r.of = "smart"
  <2>1. Booking /\ Near(copy, copy) /\ ~copy.alert
    BY <1>5, ExitBooking, KinNear, Facts
  <2>. QED
    BY <1>3, <1>4, <2>1, TheRestIsSent DEF r
<1>7. m \in 0 .. Qty
  BY <1>6, RecordFields, ExitAssumption
<1> HIDE DEF m
<1>8. Kin(r, q) /\ q.active = {} /\ q.of = "smart"
  BY <1>6, <1>7, OffKin
<1> HIDE DEF q
<1>9. rows' \in Seq(Source \X Nat)
  BY <1>1 DEF ExitInv, Types
<1>10. /\ Fits(copy)' /\ Types'
       /\ ByExits' = ByExits + n /\ ByStops' = ByStops /\ Booked(copy') = Booked(copy) + n
  BY <1>1, <1>2, <1>3, <1>4, <1>5, <1>8, <1>9, TheRestFits DEF r
<1>11. ByExits' <= Booked(copy') /\ ByExits' + ByStops' <= entry'.filled
  BY <1>1, <1>3, <1>4, <1>10, Facts
<1>. QED
  BY <1>1, <1>10, <1>11, ReachesBetween DEF Between

LEMMA SmartCloseFailsStep ==
  ASSUME ExitInv, SmartCloseFails
  PROVE  ExitInv'
<1> DEFINE q == Retry(copy, "smart")
<1>1. /\ pc = "smartClose" /\ pc' \in Between /\ UNCHANGED <<env, entry, sells, rows, seen>>
      /\ ~Walking /\ copy' = q
  <2>1. NoAlert(copy) = copy
    BY Facts, NoAlertKin
  <2>. QED
    BY <2>1 DEF SmartCloseFails, SubmitLost, Continue, Walking, Between, ExitInv, Types, Tame
<1>2. /\ Kin(copy, q) /\ q.of = "smart" /\ q.stopQty = copy.stopQty
      /\ \A x \in Software \ {"smart"} : x \in q.active <=> x \in copy.active
  <2>1. copy \in Record /\ ~copy.alert /\ "smart" \in Software
    BY Facts DEF Software
  <2>. QED
    BY <2>1, RetryKin
<1> HIDE DEF q
<1>3. /\ "tp" \in q.active => "tp" \in copy.active
      /\ "stop" \in q.active => "stop" \in copy.active
      /\ q.of # "entry" /\ ~AwaitsFills(q)
  BY <1>2 DEF Software, AwaitsFills
<1>4. Fits(q) /\ Booked(q) = Booked(copy)
  BY <1>2, <1>3, Facts, KinKeepsStop
<1>. QED
  BY <1>1, <1>4, SameOrders, GoesOn

-----------------------------------------------------------------------------
(* Reconciling *)

(* Reconciling looks at orders that the record knows. *)
LEMMA RowsCollected == RowsOf(copy) \in Seq(KnownRows(copy))
<1> DEFINE K == KnownRows(copy)
<1> DEFINE one(s) == IF copy.order[s] # 0 /\ copy.exit[s] # "filled" THEN <<<<s, 0>>>> ELSE <<>>
<1> DEFINE target(k) == IF k \in DOMAIN copy.targets /\ copy.targets[k].state = "submitted"
                          THEN <<<<"tp", k>>>> ELSE <<>>
<1>2. RowsOf(copy) = one("stop") \o one("smart") \o one("flatten") \o target(1) \o target(2)
  BY DEF RowsOf
<1>3. ASSUME NEW s \in {"stop", "smart", "flatten"} PROVE one(s) \in Seq(K)
  <2>1. CASE copy.order[s] # 0 /\ copy.exit[s] # "filled"
    <3>1. <<s, 0>> \in K
      BY <2>1 DEF KnownRows, Source
    <3> HIDE DEF K
    <3>. QED
      BY <2>1, <3>1
  <2>2. CASE ~(copy.order[s] # 0 /\ copy.exit[s] # "filled")
    BY <2>2
  <2>. QED
    BY <2>1, <2>2
<1>4. ASSUME NEW k \in {1, 2} PROVE target(k) \in Seq(K)
  <2>1. CASE k \in DOMAIN copy.targets /\ copy.targets[k].state = "submitted"
    <3>1. <<"tp", k>> \in K
      BY <2>1 DEF KnownRows, Source
    <3> HIDE DEF K
    <3>. QED
      BY <2>1, <3>1
  <2>2. CASE ~(k \in DOMAIN copy.targets /\ copy.targets[k].state = "submitted")
    BY <2>2
  <2>. QED
    BY <2>1, <2>2
<1>. QED
  <2>1. /\ one("stop") \in Seq(K) /\ one("smart") \in Seq(K) /\ one("flatten") \in Seq(K)
        /\ target(1) \in Seq(K) /\ target(2) \in Seq(K)
    BY <1>3, <1>4
  <2> HIDE DEF one, target
  <2>2. RowsOf(copy) \in Seq(K)
    <3> HIDE DEF K
    <3>. QED
      BY <1>2, <2>1
  <2>. QED
    BY <2>2

LEMMA CollectRowsStep ==
  ASSUME ExitInv, CollectRows
  PROVE  ExitInv'
<1>1. /\ rows' = RowsOf(copy) /\ pc' = "reconcile" /\ pc = "rows"
      /\ UNCHANGED <<env, entry, sells, copy, seen>>
  BY DEF CollectRows, Continue
<1> DEFINE K == KnownRows(copy)
<1>5. rows' \in Seq(K)
  BY <1>1, RowsCollected
<1>6. K \subseteq Source \X Nat
  BY DEF KnownRows
<1> HIDE DEF K
<1>7. rows' \in Seq(Source \X Nat)
  BY <1>5, <1>6
<1>8. Types'
  BY <1>1, <1>7, Facts, SameOrders DEF ExitInv, Types, Tame, Lapse
<1>9. Fits(copy)'
  BY <1>1, Facts, SameOrders, FitsCarries
<1>10. ~Walking /\ ~Walking' /\ Reconciling' /\ ~Flattening' /\ Flying' = 0
  BY <1>1 DEF Walking, Reconciling, Flattening, Flying
<1>11. RowsAreKnown'
  BY <1>1, <1>5, <1>10 DEF RowsAreKnown, K, KnownRows
<1>12. Midway'
  BY <1>1, <1>10 DEF Midway
<1>13. Claims'
  <2>1. ByExits' = ByExits /\ ByStops' = ByStops /\ Booked(copy)' = Booked(copy)
    BY <1>1, SameOrdersClaim DEF Booked
  <2>. QED
    BY <1>1, <1>10, <2>1, Facts DEF Claims
<1>. QED
  BY <1>8, <1>9, <1>11, <1>12, <1>13 DEF ExitInv

(* What reconciling may make of a record: it books what was sent as closed, or not *)
Marks(r, q) ==
    /\ q \in Record /\ q.alert = r.alert
    /\ q.filled = r.filled /\ q.covered = r.covered /\ q.stops = r.stops
    /\ q.submitted = r.submitted /\ q.order = r.order
    /\ \A s \in Source : q.closed[s] <= q.submitted[s]
    /\ DOMAIN q.targets = DOMAIN r.targets /\ Len(q.targets) = Len(r.targets)
    /\ \A k \in DOMAIN r.targets :
          /\ q.targets[k].qty = r.targets[k].qty /\ q.targets[k].order = r.targets[k].order
          /\ q.targets[k].state = "pending" <=> r.targets[k].state = "pending"
    /\ q.of = "entry" => q.of = r.of /\ q.is = r.is
    /\ q.active # {} => q.active = r.active /\ q.stopQty = r.stopQty

LEMMA MarksSound ==
  ASSUME NEW r, NEW q, Sound(r), Marks(r, q)
  PROVE  /\ Sound(q) /\ Booked(q) = Booked(r) /\ Pending(q) = Pending(r)
         /\ KnownRows(q) = KnownRows(r)
<1>1. /\ q \in Record
      /\ q.filled = r.filled /\ q.covered = r.covered
      /\ q.submitted = r.submitted /\ q.order = r.order
      /\ \A s \in Source : q.closed[s] <= q.submitted[s]
      /\ DOMAIN q.targets = DOMAIN r.targets /\ Len(q.targets) = Len(r.targets)
      /\ \A k \in DOMAIN r.targets :
            /\ q.targets[k].qty = r.targets[k].qty /\ q.targets[k].order = r.targets[k].order
            /\ q.targets[k].state = "pending" <=> r.targets[k].state = "pending"
      /\ q.of = "entry" => q.of = r.of /\ q.is = r.is
      /\ q.active # {} => q.active = r.active /\ q.stopQty = r.stopQty
  BY DEF Marks
<1>2. Booked(q) = Booked(r) /\ Left(q, 1) = Left(r, 1) /\ Left(q, 2) = Left(r, 2)
  BY ONLY <1>1 DEF Booked, Left
<1>3. Sound(r)
  OBVIOUS
<1>4. Sound(q)
  <2>1. /\ q.filled <= entry.filled /\ q.covered <= q.filled /\ Booked(q) <= q.filled
        /\ Len(q.targets) <= 2
        /\ q.of = "entry" => Booked(q) = 0
        /\ q.submitted["stop"] + q.submitted["smart"] > 0 => Booked(q) = q.filled
    BY ONLY <1>1, <1>2, <1>3 DEF Sound
  <2>2. /\ q.active \cap {"stop", "tp"} # {} => q.filled > 0
        /\ "stop" \in q.active => ~AwaitsFills(q) /\ q.stopQty >= q.filled - Booked(q)
        /\ "tp" \in q.active => Left(q, 1) + Left(q, 2) <= q.filled - Booked(q)
    <3>1. CASE q.active = {}
      BY <3>1
    <3>2. CASE q.active = r.active /\ q.stopQty = r.stopQty
      BY ONLY <1>1, <1>2, <1>3, <3>2 DEF Sound, AwaitsFills
    <3>. QED
      BY <1>1, <3>1, <3>2
  <2>. QED
    BY <1>1, <2>1, <2>2 DEF Sound
<1>5. Pending(q) = Pending(r)
  BY ONLY <1>1 DEF Pending
<1>6. KnownRows(q) = KnownRows(r)
  BY ONLY <1>1 DEF KnownRows
<1>. QED
  BY <1>2, <1>4, <1>5, <1>6

LEMMA MarksFits ==
  ASSUME NEW r, NEW q, Fits(r), Marks(r, q)
  PROVE  /\ Fits(q) /\ Booked(q) = Booked(r) /\ KnownRows(q) = KnownRows(r)
<1>1. /\ q \in Record /\ ~q.alert
      /\ q.covered = r.covered /\ q.stops = r.stops
      /\ q.submitted = r.submitted /\ q.order = r.order
      /\ DOMAIN q.targets = DOMAIN r.targets
      /\ \A k \in DOMAIN r.targets :
            /\ q.targets[k].qty = r.targets[k].qty /\ q.targets[k].order = r.targets[k].order
            /\ q.targets[k].state = "pending" <=> r.targets[k].state = "pending"
      /\ "stop" \in q.active => "stop" \in r.active
  BY DEF Marks, Fits
<1>2. StopsAreKnown(r) /\ ExitsAreKnown(r)
  BY DEF Fits
<1>3. Sound(q) /\ Booked(q) = Booked(r) /\ KnownRows(q) = KnownRows(r)
  BY MarksSound DEF Fits
<1>4. StopsAreKnown(q)
  BY ONLY <1>1, <1>2 DEF StopsAreKnown
<1>5. ExitsAreKnown(q)
  BY ONLY <1>1, <1>2 DEF ExitsAreKnown
<1>. QED
  BY <1>1, <1>3, <1>4, <1>5 DEF Fits

(* What the pass does to a row *)
LEMMA RowFacts ==
  ASSUME Booking, Reconciling, rows # <<>>
  PROVE  /\ Head(rows) \in KnownRows(copy) /\ Head(rows) \in Source \X Nat
         /\ Tail(rows) \in Seq(KnownRows(copy))
         /\ rows \in Seq(KnownRows(copy)) /\ KnownRows(copy) \subseteq Source \X Nat
<1>1. rows \in Seq(KnownRows(copy)) /\ KnownRows(copy) \subseteq Source \X Nat
  BY DEF Booking, RowsAreKnown, KnownRows
<1> DEFINE K == KnownRows(copy)
<1> HIDE DEF K
<1>2. rows \in Seq(K) /\ K \subseteq Source \X Nat
  BY <1>1 DEF K
<1>3. Head(rows) \in K /\ Tail(rows) \in Seq(K)
  BY <1>2
<1>4. Head(rows) \in Source \X Nat
  BY <1>2, <1>3
<1>. QED
  BY <1>2, <1>3, <1>4 DEF K

LEMMA TargetRowIs ==
  ASSUME Booking, Reconciling, rows # <<>>, Head(rows)[1] = "tp"
  PROVE  /\ Head(rows)[2] \in DOMAIN copy.targets
         /\ copy.targets[Head(rows)[2]] \in Target
         /\ copy.targets[Head(rows)[2]].state # "pending"
         /\ QtyOf(Head(rows)) = copy.targets[Head(rows)[2]].qty
         /\ QtyOf(Head(rows)) \in 1 .. Qty
         /\ OrderOf(Head(rows)) = copy.targets[Head(rows)[2]].order
         /\ OrderOf(Head(rows)) \in DOMAIN sells
         /\ sells[OrderOf(Head(rows))].qty = QtyOf(Head(rows))
<1> DEFINE k == Head(rows)[2]
<1>1. k \in DOMAIN copy.targets /\ copy.targets[k].state # "pending"
  BY RowFacts DEF KnownRows
<1>2. copy.targets[k] \in Target
  <2>1. copy.targets \in Seq(Target)
    BY BookingFacts, RecordFields
  <2> HIDE DEF k
  <2>. QED
    BY <1>1, <2>1
<1>3. QtyOf(Head(rows)) = copy.targets[k].qty /\ OrderOf(Head(rows)) = copy.targets[k].order
  BY DEF QtyOf, OrderOf
<1>4. /\ copy.targets[k].order \in DOMAIN sells
      /\ sells[copy.targets[k].order].qty = copy.targets[k].qty
  BY <1>1, BookingFacts DEF Ordered
<1>5. copy.targets[k].qty \in 1 .. Qty
  BY <1>2, TargetFields
<1>. QED
  BY <1>1, <1>2, <1>3, <1>4, <1>5

LEMMA FlyingIs ==
  ASSUME ExitInv
  PROVE  Flying \in Nat /\ ByExits <= Booked(copy) /\ ByExits + ByStops <= entry.filled
<1>1. CASE Walking
  <2>1. Reconciling /\ rows # <<>> /\ Head(rows)[1] = "tp"
    BY <1>1 DEF ExitInv, RowsAreKnown, Reconciling
  <2>2. Flying \in Nat
    BY <1>1, <2>1, TargetRowIs, ExitBooking, ExitAssumption DEF Flying
  <2>3. ByExits + Flying <= Booked(copy) /\ ByExits + ByStops + Flying <= entry.filled
    BY DEF ExitInv, Claims
  <2>. QED
    BY <2>2, <2>3, Facts
<1>2. CASE ~Walking
  BY <1>2, Facts DEF Flying
<1>. QED
  BY <1>1, <1>2

LEMMA SeqOfMore ==
  ASSUME NEW S, NEW T, S \subseteq T, NEW s \in Seq(S)
  PROVE  s \in Seq(T)
OBVIOUS

(* A step of the reconciliation that sends nothing *)
LEMMA Reconciles ==
  ASSUME ExitInv, Reconciling, rows # <<>>, NEW q, copy' = q, q = copy \/ Marks(copy, q),
         UNCHANGED <<env, entry, sells, seen>>,
         \/ pc' = "reconcile" /\ rows' \in {rows, Tail(rows)}
         \/ pc' = "escalate" /\ rows' = rows /\ Head(rows)[1] = "tp"
         \/ pc' = "escalateClose" /\ rows' = rows /\ q = copy /\ Walking
  PROVE  ExitInv'
<1>1. Fits(q) /\ Booked(q) = Booked(copy) /\ KnownRows(q) = KnownRows(copy)
  BY Facts, MarksFits
<1>2. Fits(copy)'
  BY <1>1, Facts, SameOrders, FitsCarries
<1>3. rows' \in Seq(KnownRows(copy)) /\ rows' \in Seq(Source \X Nat)
  <2>1. rows' \in Seq(KnownRows(copy)) /\ KnownRows(copy) \subseteq Source \X Nat
    BY RowFacts, ExitBooking
  <2>. QED
    BY <2>1, SeqOfMore
<1>4. Types'
  BY <1>3, Facts, SameOrders DEF ExitInv, Types, Tame, Lapse
<1>5. KnownRows(copy)' = KnownRows(q)
  BY DEF KnownRows
<1>6. /\ pc' = "escalate" \/ Walking' => rows' # <<>> /\ Head(rows')[1] = "tp"
      /\ ~Flattening' /\ pc' \notin {"idle", "attachStop", "tpClose", "smartClose", "flattenClose"}
  BY DEF Walking, Flattening, ExitInv, RowsAreKnown
<1>7. RowsAreKnown'
  BY <1>1, <1>3, <1>5, <1>6 DEF RowsAreKnown
<1>8. Midway'
  BY <1>6 DEF Midway
<1>9. Claims'
  <2>1. /\ ByExits' = ByExits /\ ByStops' = ByStops /\ Booked(copy)' = Booked(q)
    BY SameOrdersClaim DEF Booked
  <2>2. Flying' = 0 \/ Flying' = Flying
    <3>1. CASE pc' = "escalateClose"
      <4>1. Flying' = QtyOf(Head(rows)) /\ Flying = QtyOf(Head(rows))
        BY <3>1 DEF Flying, Walking, QtyOf
      <4>. QED
        BY <4>1
    <3>2. CASE pc' # "escalateClose"
      BY <3>2 DEF Flying, Walking
    <3>. QED
      BY <3>1, <3>2
  <2>3. /\ ByExits + Flying <= Booked(copy) /\ ByExits + ByStops + Flying <= entry.filled
        /\ ByExits + 0 <= Booked(copy) /\ ByExits + ByStops + 0 <= entry.filled
    BY FlyingIs, Facts DEF ExitInv, Claims
  <2>4. /\ ByExits + Flying' <= Booked(q) /\ ByExits + ByStops + Flying' <= entry.filled
    BY <1>1, <2>2, <2>3
  <2>. QED
    BY <2>1, <2>4 DEF Claims
<1>. QED
  BY <1>2, <1>4, <1>7, <1>8, <1>9 DEF ExitInv

LEMMA ReconcilesCopyStep ==
  ASSUME ExitInv, ReconcileFails \/ EscalateCancelFails \/ EscalateSeesNoFill \/ EscalateCloseFails
  PROVE  ExitInv'
<1>1. /\ Reconciling /\ rows # <<>> /\ copy' = copy /\ UNCHANGED <<env, entry, sells, seen>>
      /\ \/ pc' = "reconcile" /\ rows' \in {rows, Tail(rows)}
         \/ pc' = "escalateClose" /\ rows' = rows /\ Walking
  <2>1. CASE ReconcileFails
    BY <2>1 DEF ReconcileFails, Reconciling
  <2>2. CASE EscalateCancelFails
    BY <2>2 DEF EscalateCancelFails, NextRow, Continue, Reconciling, ExitInv, RowsAreKnown
  <2>3. CASE EscalateSeesNoFill
    BY <2>3 DEF EscalateSeesNoFill, Continue, Reconciling, Walking, ExitInv, RowsAreKnown
  <2>4. CASE EscalateCloseFails
    BY <2>4 DEF EscalateCloseFails, NextRow, Continue, Reconciling, Walking, ExitInv, RowsAreKnown,
                SubmitLost, Types, Tame
  <2>. QED
    BY <2>1, <2>2, <2>3, <2>4
<1>. QED
  BY <1>1, Reconciles

(* What an outcome leaves of the record *)
SameButOutcome(r, q) ==
    /\ q \in Record /\ q.alert = r.alert
    /\ q.filled = r.filled /\ q.covered = r.covered /\ q.stops = r.stops
    /\ q.submitted = r.submitted /\ q.closed = r.closed /\ q.order = r.order
    /\ q.active = r.active /\ q.of = r.of /\ q.is = r.is /\ q.stopQty = r.stopQty
    /\ DOMAIN q.targets = DOMAIN r.targets /\ Len(q.targets) = Len(r.targets)
    /\ \A k \in DOMAIN r.targets :
          q.targets[k].qty = r.targets[k].qty /\ q.targets[k].order = r.targets[k].order

LEMMA OutcomeFields ==
  ASSUME NEW r \in Record, NEW w \in Source \X Nat, w[1] = "tp" => w[2] \in DOMAIN r.targets,
         NEW is \in {"filled", "failed", "partial"}, NEW q, q = Outcome(r, w, is)
  PROVE  /\ SameButOutcome(r, q)
         /\ \A k \in DOMAIN r.targets :
               q.targets[k].state = IF w[1] = "tp" /\ k = w[2] THEN is ELSE r.targets[k].state
<1>0. r \in Record /\ is \in {"filled", "failed", "partial"}
  OBVIOUS
<1>1. w[1] \in Source /\ "tp" \in Source
  BY DEF Source
<1>2. r.targets \in Seq(Target)
  BY RecordFields
<1>3. CASE w[1] # "tp"
  <2> DEFINE s == w[1]
  <2>1. q = [r EXCEPT !.exit[s] = is]
    BY <1>3 DEF Outcome
  <2> HIDE DEF s
  <2>2. s \in Source
    BY <1>1 DEF s
  <2>3. /\ q \in Record /\ q.alert = r.alert
        /\ q.filled = r.filled /\ q.covered = r.covered /\ q.stops = r.stops
        /\ q.submitted = r.submitted /\ q.closed = r.closed /\ q.order = r.order
        /\ q.active = r.active /\ q.of = r.of /\ q.is = r.is /\ q.stopQty = r.stopQty
        /\ q.targets = r.targets
    BY ONLY <1>0, <2>1, <2>2 DEF Record
  <2>. QED
    BY <1>3, <2>3 DEF SameButOutcome
<1>4. CASE w[1] = "tp"
  <2> DEFINE k == w[2]
  <2> DEFINE t == [r.targets[k] EXCEPT !.state = is]
  <2>1. k \in DOMAIN r.targets
    BY <1>4
  <2> HIDE DEF k
  <2>2. r.targets[k] \in Target
    BY <1>2, <2>1
  <2>3. t \in Target /\ t.qty = r.targets[k].qty /\ t.order = r.targets[k].order /\ t.state = is
    BY <2>2 DEF Target
  <2> DEFINE ts == [r.targets EXCEPT ![k] = t]
  <2>4. q = [r EXCEPT !.targets = ts, !.exit["tp"] = is]
    BY <1>4 DEF Outcome, k
  <2> HIDE DEF t
  <2>5. /\ ts \in Seq(Target) /\ Len(ts) = Len(r.targets) /\ DOMAIN ts = DOMAIN r.targets
        /\ ts[k] = t /\ \A j \in DOMAIN r.targets : j # k => ts[j] = r.targets[j]
    BY <1>2, <2>1, <2>3
  <2> HIDE DEF ts
  <2>6. /\ q \in Record /\ q.alert = r.alert
        /\ q.filled = r.filled /\ q.covered = r.covered /\ q.stops = r.stops
        /\ q.submitted = r.submitted /\ q.closed = r.closed /\ q.order = r.order
        /\ q.active = r.active /\ q.of = r.of /\ q.is = r.is /\ q.stopQty = r.stopQty
        /\ q.targets = ts
    BY ONLY <1>0, <1>1, <2>4, <2>5 DEF Record
  <2>7. \A j \in DOMAIN r.targets :
          /\ ts[j].qty = r.targets[j].qty /\ ts[j].order = r.targets[j].order
          /\ ts[j].state = IF j = k THEN is ELSE r.targets[j].state
    BY <2>3, <2>5
  <2>. QED
    BY <1>4, <2>5, <2>6, <2>7 DEF k, SameButOutcome
<1>. QED
  BY <1>3, <1>4

LEMMA BooksFields ==
  ASSUME NEW r \in Record, NEW w \in Source \X Nat, w[1] = "tp" => w[2] \in DOMAIN r.targets,
         NEW n \in 0 .. Qty, NEW q, q = Books(r, w, n)
  PROVE  /\ SameButOutcome(r, q)
         /\ \A k \in DOMAIN r.targets : q.targets[k].state = r.targets[k].state
<1>0. r \in Record
  OBVIOUS
<1>1. r.targets \in Seq(Target)
  BY RecordFields
<1>2. CASE w[1] # "tp"
  BY <1>2 DEF Books, SameButOutcome
<1>3. CASE w[1] = "tp"
  <2> DEFINE k == w[2]
  <2> DEFINE t == [r.targets[k] EXCEPT !.filled = n]
  <2>1. k \in DOMAIN r.targets
    BY <1>3
  <2> HIDE DEF k
  <2>2. r.targets[k] \in Target
    BY <1>1, <2>1
  <2>3. /\ t \in Target /\ t.qty = r.targets[k].qty /\ t.order = r.targets[k].order
        /\ t.state = r.targets[k].state
    BY <2>2 DEF Target
  <2> DEFINE ts == [r.targets EXCEPT ![k] = t]
  <2>4. q = [r EXCEPT !.targets = ts]
    BY <1>3 DEF Books, k
  <2> HIDE DEF t
  <2>5. /\ ts \in Seq(Target) /\ Len(ts) = Len(r.targets) /\ DOMAIN ts = DOMAIN r.targets
        /\ ts[k] = t /\ \A j \in DOMAIN r.targets : j # k => ts[j] = r.targets[j]
    BY <1>1, <2>1, <2>3
  <2> HIDE DEF ts
  <2>6. /\ q \in Record /\ q.alert = r.alert
        /\ q.filled = r.filled /\ q.covered = r.covered /\ q.stops = r.stops
        /\ q.submitted = r.submitted /\ q.closed = r.closed /\ q.order = r.order
        /\ q.active = r.active /\ q.of = r.of /\ q.is = r.is /\ q.stopQty = r.stopQty
        /\ q.targets = ts
    BY ONLY <1>0, <2>4, <2>5 DEF Record
  <2>7. \A j \in DOMAIN r.targets :
          /\ ts[j].qty = r.targets[j].qty /\ ts[j].order = r.targets[j].order
          /\ ts[j].state = r.targets[j].state
    BY <2>3, <2>5
  <2>. QED
    BY <2>5, <2>6, <2>7 DEF SameButOutcome
<1>. QED
  BY <1>2, <1>3

Closes(r, s, n) == [r EXCEPT !.closed[s] = n]

LEMMA ClosesFields ==
  ASSUME NEW r \in Record, NEW s \in Source, NEW n \in 0 .. Qty, NEW q, q = Closes(r, s, n)
  PROVE  /\ q \in Record /\ q.alert = r.alert
         /\ q.filled = r.filled /\ q.covered = r.covered /\ q.stops = r.stops
         /\ q.submitted = r.submitted /\ q.order = r.order /\ q.targets = r.targets
         /\ q.active = r.active /\ q.of = r.of /\ q.is = r.is /\ q.stopQty = r.stopQty
         /\ q.closed = [r.closed EXCEPT ![s] = n]
BY DEF Record, Closes

LEMMA SourceQuantities ==
  ASSUME Booking, NEW s \in Source
  PROVE  /\ copy.closed[s] \in Nat /\ copy.submitted[s] \in Nat
         /\ copy.closed[s] <= copy.submitted[s] /\ copy.submitted[s] <= Qty
         /\ copy.closed \in [Source -> 0 .. Qty]
<1>1. copy.closed \in [Source -> 0 .. Qty] /\ copy.submitted \in [Source -> 0 .. Qty]
  BY BookingFacts, RecordFields
<1>2. copy.closed[s] <= copy.submitted[s]
  BY BookingFacts DEF Sound
<1>. QED
  BY <1>1, <1>2, ExitAssumption

(* The order of a row is the broker's, for at most what the row asks for. *)
LEMMA RowOrder ==
  ASSUME Booking, Reconciling, rows # <<>>
  PROVE  LET w == Head(rows)  o == sells[OrderOf(w)]
         IN  /\ w[1] \in Source /\ OrderOf(w) \in DOMAIN sells /\ o \in SellOrder
             /\ QtyOf(w) \in 1 .. Qty /\ o.qty \in 1 .. Qty /\ o.qty <= QtyOf(w)
             /\ w[1] # "tp" => QtyOf(w) = copy.submitted[w[1]]
             /\ w[1] = "tp" => w[2] \in DOMAIN copy.targets
             /\ w[1] = "tp" => copy.targets[w[2]].state # "pending"
<1> DEFINE w == Head(rows)
<1> DEFINE o == sells[OrderOf(w)]
<1>1. w[1] \in Source
  BY RowFacts
<1>2. OrderOf(w) \in DOMAIN sells /\ (w[1] # "tp" => o.qty <= copy.submitted[w[1]])
  <2>1. CASE w[1] = "tp"
    BY <2>1, TargetRowIs
  <2>2. CASE w[1] # "tp"
    <3>1. copy.order[w[1]] # 0
      BY <2>2, RowFacts DEF KnownRows
    <3>. QED
      BY <1>1, <2>2, <3>1, BookingFacts DEF Ordered, OrderOf
  <2>. QED
    BY <2>1, <2>2
<1>3. o \in SellOrder /\ o.qty \in 1 .. Qty
  <2>1. sells[OrderOf(w)] \in SellOrder
    BY <1>2, BookingFacts
  <2>. QED
    BY <2>1, OrderFields
<1>4. /\ QtyOf(w) \in 1 .. Qty /\ o.qty <= QtyOf(w)
      /\ w[1] # "tp" => QtyOf(w) = copy.submitted[w[1]]
  <2>1. CASE w[1] = "tp"
    <3>1. QtyOf(w) \in 1 .. Qty /\ o.qty = QtyOf(w)
      BY <2>1, TargetRowIs
    <3>. QED
      BY <2>1, <3>1, ExitAssumption
  <2>2. CASE w[1] # "tp"
    <3>1. /\ copy.submitted[w[1]] \in Nat /\ copy.submitted[w[1]] # 0
          /\ copy.submitted[w[1]] <= Qty
      BY <1>1, <1>2, <1>3, <2>2, SourceQuantities, ExitAssumption
    <3>2. QtyOf(w) = copy.submitted[w[1]]
      BY <2>2, <3>1 DEF QtyOf
    <3>. QED
      BY <1>2, <1>3, <2>2, <3>1, <3>2, ExitAssumption
  <2>. QED
    BY <2>1, <2>2
<1>5. w[1] = "tp" => w[2] \in DOMAIN copy.targets /\ copy.targets[w[2]].state # "pending"
  BY TargetRowIs
<1>. QED
  BY <1>1, <1>2, <1>3, <1>4, <1>5

(* Booking n of a source as closed, and what has become of its order *)
LEMMA ClosesMarks ==
  ASSUME Booking, Reconciling, rows # <<>>, NEW is \in {"filled", "failed", "partial"},
         NEW n \in Nat, n <= copy.submitted[Head(rows)[1]],
         NEW q, q = Outcome(Closes(copy, Head(rows)[1], n), Head(rows), is)
  PROVE  /\ Marks(copy, q) /\ q.of = copy.of /\ q.is = copy.is
         /\ q.active = copy.active /\ q.stopQty = copy.stopQty
<1> DEFINE w == Head(rows)
<1> DEFINE s == w[1]
<1> DEFINE c == Closes(copy, s, n)
<1>1. /\ w \in Source \X Nat /\ s \in Source
      /\ s = "tp" => w[2] \in DOMAIN copy.targets
      /\ s = "tp" => copy.targets[w[2]].state # "pending"
  BY RowFacts, RowOrder
<1>2. copy \in Record
  BY BookingFacts
<1>3. n \in 0 .. Qty
  <2>1. copy.submitted[s] \in Nat /\ copy.submitted[s] <= Qty
    BY <1>1, SourceQuantities
  <2>. QED
    BY <2>1, ExitAssumption
<1>4. q = Outcome(c, w, is)
  OBVIOUS
<1> HIDE DEF c
<1>5. /\ c \in Record /\ c.alert = copy.alert
      /\ c.filled = copy.filled /\ c.covered = copy.covered /\ c.stops = copy.stops
      /\ c.submitted = copy.submitted /\ c.order = copy.order /\ c.targets = copy.targets
      /\ c.active = copy.active /\ c.of = copy.of /\ c.is = copy.is /\ c.stopQty = copy.stopQty
      /\ c.closed = [copy.closed EXCEPT ![s] = n]
  BY <1>1, <1>2, <1>3, ClosesFields DEF c
<1> HIDE DEF w, s
<1>6. /\ SameButOutcome(c, q)
      /\ \A k \in DOMAIN c.targets :
            q.targets[k].state = IF w[1] = "tp" /\ k = w[2] THEN is ELSE c.targets[k].state
  <2>1. w[1] = "tp" => w[2] \in DOMAIN c.targets
    BY <1>1, <1>5 DEF s
  <2>. QED
    BY <1>1, <1>4, <1>5, <2>1, OutcomeFields
<1>7. \A x \in Source : q.closed[x] <= q.submitted[x]
  <2> SUFFICES ASSUME NEW x \in Source PROVE q.closed[x] <= q.submitted[x]
    OBVIOUS
  <2>1. /\ copy.closed[x] <= copy.submitted[x] /\ copy.closed \in [Source -> 0 .. Qty]
    BY SourceQuantities
  <2>2. n <= copy.submitted[s]
    BY DEF s, w
  <2>. QED
    BY ONLY <1>1, <1>5, <1>6, <2>1, <2>2 DEF SameButOutcome
<1>8. \A k \in DOMAIN copy.targets :
        /\ q.targets[k].qty = copy.targets[k].qty /\ q.targets[k].order = copy.targets[k].order
        /\ q.targets[k].state = "pending" <=> copy.targets[k].state = "pending"
  <2>1. is # "pending"
    OBVIOUS
  <2>. QED
    BY ONLY <1>1, <1>5, <1>6, <2>1 DEF s, SameButOutcome
<1>. QED
  BY ONLY <1>2, <1>5, <1>6, <1>7, <1>8 DEF Marks, SameButOutcome

(* Its status, when nothing is active any more *)
LEMMA EndsMarks ==
  ASSUME NEW r, NEW p, Marks(r, p), NEW s \in Source, NEW is \in {"filled", "failed"},
         NEW q, q = Only(Status(p, s, is), {})
  PROVE  Marks(r, q) /\ q.is = is
<1> DEFINE u == Status(p, s, is)
<1>1. p \in Record
  BY DEF Marks
<1>2. Kin(p, u) /\ u.of = s /\ u.is = is
  BY <1>1, StatusKin
<1>3. q = Only(u, {})
  OBVIOUS
<1> HIDE DEF u
<1>4. Kin(u, q) /\ q.active = {} /\ q.of = u.of /\ q.is = u.is
  <2>1. u \in Record
    BY <1>2 DEF Kin
  <2>. QED
    BY <1>3, <2>1, OnlyKin
<1>5. Kin(p, q)
  BY <1>2, <1>4, KinKin
<1>6. s # "entry"
  BY DEF Source
<1>. QED
  BY <1>2, <1>4, <1>5, <1>6 DEF Marks, Kin

LEMMA MarkFilledMarks ==
  ASSUME Booking, Reconciling, rows # <<>>, NEW n \in Nat, n <= QtyOf(Head(rows))
  PROVE  LET q == MarkFilled(Head(rows), n)
         IN  /\ Marks(copy, q)
             /\ \/ q.of = copy.of /\ q.is = copy.is /\ q.active = copy.active
                \/ Booked(q) = q.filled
<1> DEFINE w == Head(rows)
<1> DEFINE s == w[1]
<1> DEFINE total == IF s = "tp" THEN copy.submitted["tp"] - QtyOf(w) + n ELSE n
<1> DEFINE m == Max({copy.closed[s], total})
<1> DEFINE c == Outcome(Closes(copy, s, m), w, "filled")
<1> DEFINE r == Books(c, w, n)
<1>1. /\ w \in Source \X Nat /\ s \in Source
      /\ s = "tp" => w[2] \in DOMAIN copy.targets
      /\ n \in 0 .. Qty /\ QtyOf(w) \in Nat /\ n <= QtyOf(w)
      /\ s # "tp" => n <= copy.submitted[s]
  BY RowFacts, RowOrder, ExitAssumption
<1>2. /\ copy.closed[s] \in Nat /\ copy.submitted[s] \in Nat /\ copy.closed[s] <= copy.submitted[s]
  BY <1>1, SourceQuantities
<1>3. total \in Int /\ total <= copy.submitted[s]
  <2>1. CASE s = "tp"
    BY <1>1, <1>2, <2>1
  <2>2. CASE s # "tp"
    BY <1>1, <1>2, <2>2, ExitAssumption
  <2>. QED
    BY <2>1, <2>2
<1> HIDE DEF total
<1>4. m \in Nat /\ m <= copy.submitted[s]
  <2>1. m = IF copy.closed[s] >= total THEN copy.closed[s] ELSE total
    BY <1>2, <1>3, MaxOfTwo
  <2>. QED
    BY <1>2, <1>3, <2>1
<1>5. MarkFilled(w, n) = IF RemainingOpen(r) = 0 THEN Only(Status(r, s, "filled"), {}) ELSE r
  BY DEF MarkFilled, Only, Closes, total
<1> HIDE DEF m
<1>6. Marks(copy, c) /\ c.of = copy.of /\ c.is = copy.is /\ c.active = copy.active
  BY <1>4, ClosesMarks
<1> HIDE DEF c, w, s
<1>7. Marks(copy, r) /\ r.of = copy.of /\ r.is = copy.is /\ r.active = copy.active
  <2>1. c \in Record /\ (w[1] = "tp" => w[2] \in DOMAIN c.targets) /\ n \in 0 .. Qty
    BY <1>1, <1>6, ExitAssumption DEF Marks, s
  <2>2. /\ SameButOutcome(c, r)
        /\ \A k \in DOMAIN c.targets : r.targets[k].state = c.targets[k].state
    BY <1>1, <2>1, BooksFields
  <2> HIDE DEF r
  <2>. QED
    BY ONLY <1>6, <2>1, <2>2 DEF Marks, SameButOutcome
<1> HIDE DEF r
<1> DEFINE q == Only(Status(r, s, "filled"), {})
<1>8. Marks(copy, q)
  BY <1>1, <1>7, EndsMarks
<1>9. RemainingOpen(r) = 0 => Booked(q) = q.filled
  <2> HIDE DEF q
  <2>1. /\ Sound(r) /\ r \in Record /\ Booked(q) = Booked(r) /\ q.filled = r.filled
        /\ r.filled \in Nat /\ Booked(r) \in Nat
    BY <1>7, <1>8, BookingFacts, MarksSound, Quantities DEF Marks
  <2>2. Booked(r) <= r.filled /\ (r.filled > 0 => RemainingOpen(r) = r.filled - Booked(r))
    BY <2>1, Remaining DEF Sound
  <2> HIDE DEF r
  <2>. QED
    BY ONLY <2>1, <2>2
<1> HIDE DEF q
<1>10. /\ Marks(copy, MarkFilled(w, n))
       /\ \/ MarkFilled(w, n) = r
          \/ MarkFilled(w, n) = q /\ Booked(q) = q.filled
  BY <1>5, <1>7, <1>8, <1>9 DEF q
<1>. QED
  BY <1>7, <1>10 DEF w

LEMMA MarkFailedMarks ==
  ASSUME Booking, Reconciling, rows # <<>>
  PROVE  Marks(copy, MarkFailed(Head(rows))) /\ MarkFailed(Head(rows)).is = "failed"
<1> DEFINE w == Head(rows)
<1> DEFINE s == w[1]
<1> DEFINE m == IF s = "tp" THEN Max({0, copy.closed["tp"] - QtyOf(w)}) ELSE 0
<1> DEFINE c == Outcome(Closes(copy, s, m), w, "failed")
<1>1. s \in Source /\ QtyOf(w) \in Nat
  BY RowOrder, ExitAssumption
<1>2. copy.closed[s] \in Nat /\ copy.submitted[s] \in Nat /\ copy.closed[s] <= copy.submitted[s]
  BY <1>1, SourceQuantities
<1>3. m \in Nat /\ m <= copy.submitted[s]
  <2>1. CASE s = "tp"
    <3>1. copy.closed["tp"] - QtyOf(w) \in Int /\ 0 \in Int
      BY <1>1, <1>2, <2>1
    <3>2. m = IF 0 >= copy.closed["tp"] - QtyOf(w) THEN 0 ELSE copy.closed["tp"] - QtyOf(w)
      BY <2>1, <3>1, MaxOfTwo
    <3>. QED
      BY <1>1, <1>2, <2>1, <3>2
  <2>2. CASE s # "tp"
    BY <1>2, <2>2
  <2>. QED
    BY <2>1, <2>2
<1>4. MarkFailed(w) = Only(Status(c, s, "failed"), {})
  BY DEF MarkFailed, Only, Closes
<1> HIDE DEF m
<1>5. Marks(copy, c)
  BY <1>3, ClosesMarks
<1> HIDE DEF c, w, s
<1>6. Marks(copy, MarkFailed(w)) /\ MarkFailed(w).is = "failed"
  BY <1>1, <1>4, <1>5, EndsMarks
<1>. QED
  BY <1>6 DEF w

LEMMA ReconcileRowStep ==
  ASSUME ExitInv, ReconcileRow
  PROVE  ExitInv'
<1> DEFINE w == Head(rows)
<1> DEFINE o == sells[OrderOf(w)]
<1> DEFINE over == o.state = "filled" \/ (QtyOf(w) > 0 /\ o.filled >= QtyOf(w))
<1> DEFINE ended == ~over /\ o.state \in {"canceled", "rejected"}
<1> DEFINE walks == ~over /\ ~ended /\ o.filled = 0 /\ Rest(w)
<1>1. /\ pc = "reconcile" /\ rows # <<>> /\ Reconciling /\ UNCHANGED <<env, entry, sells, seen>>
      /\ copy' = CASE over -> MarkFilled(w, IF o.filled = 0 THEN QtyOf(w) ELSE o.filled)
                   [] ended -> MarkFailed(w)
                   [] ~over /\ ~ended /\ o.filled > 0 -> MarkPartial(w, o.filled)
                   [] OTHER -> copy
      /\ rows' = IF walks THEN rows ELSE Tail(rows)
      /\ pc' = IF walks THEN "escalate" ELSE "reconcile"
  BY DEF ReconcileRow, Continue, Reconciling
<1>2. /\ o.state \in {"working", "filled", "canceled", "rejected"}
      /\ o.filled = IF o.state = "filled" THEN o.qty ELSE 0
      /\ o.qty \in 1 .. Qty /\ QtyOf(w) \in Nat /\ QtyOf(w) > 0
  <2>1. /\ OrderOf(w) \in DOMAIN sells /\ o \in SellOrder /\ o.qty \in 1 .. Qty
        /\ QtyOf(w) \in 1 .. Qty
    BY <1>1, RowOrder, ExitBooking
  <2>2. o.state \in {"working", "canceling", "filled", "canceled", "rejected"}
    BY <2>1, OrderFields
  <2>3. o.state # "canceling" /\ o.filled = IF o.state = "filled" THEN o.qty ELSE 0
    BY <2>1, Facts DEF Whole
  <2>4. QtyOf(w) \in Nat /\ QtyOf(w) > 0
    BY <2>1, ExitAssumption
  <2> HIDE DEF o, w
  <2>. QED
    BY <2>1, <2>2, <2>3, <2>4
<1>3. o.qty # 0 /\ o.qty \in Nat
  BY <1>2, ExitAssumption
<1>4. over <=> o.state = "filled"
  BY <1>2, <1>3
<1>5. CASE over
  <2>1. copy' = MarkFilled(w, o.qty)
    BY <1>1, <1>2, <1>3, <1>4, <1>5
  <2>2. Marks(copy, MarkFilled(w, o.qty))
    <3>1. o.qty \in Nat /\ o.qty <= QtyOf(w)
      BY <1>1, <1>3, RowOrder, ExitBooking
    <3>. QED
      BY <1>1, <3>1, MarkFilledMarks, ExitBooking
  <2>3. pc' = "reconcile" /\ rows' = Tail(rows)
    BY <1>1, <1>5
  <2> HIDE DEF over, ended, walks, o, w
  <2>. QED
    BY <1>1, <2>1, <2>2, <2>3, Reconciles
<1>6. CASE ended
  <2>1. copy' = MarkFailed(w) /\ pc' = "reconcile" /\ rows' = Tail(rows)
    BY <1>1, <1>6
  <2>2. Marks(copy, MarkFailed(w))
    BY <1>1, MarkFailedMarks, ExitBooking
  <2> HIDE DEF over, ended, walks, o, w
  <2>. QED
    BY <1>1, <2>1, <2>2, Reconciles
<1>7. CASE ~over /\ ~ended
  <2>1. copy' = copy
    BY <1>1, <1>2, <1>4, <1>7
  <2>2. \/ pc' = "reconcile" /\ rows' = Tail(rows)
        \/ pc' = "escalate" /\ rows' = rows /\ Head(rows)[1] = "tp"
    BY <1>1 DEF Rest
  <2> HIDE DEF over, ended, walks, o, w
  <2>. QED
    BY <1>1, <2>1, <2>2, Reconciles
<1>. QED
  BY <1>5, <1>6, <1>7

LEMMA WalkingFacts ==
  ASSUME ExitInv, Walking \/ pc = "escalate"
  PROVE  Reconciling /\ rows # <<>> /\ Head(rows)[1] = "tp"
BY DEF ExitInv, RowsAreKnown, Reconciling

LEMMA EscalateSeesFillStep ==
  ASSUME ExitInv, EscalateSeesFill
  PROVE  ExitInv'
<1> DEFINE w == Head(rows)
<1> DEFINE n == sells[OrderOf(w)].filled
<1>1. /\ pc = "escalateLook" /\ pc' = "reconcile" /\ rows' = Tail(rows) /\ n >= QtyOf(w)
      /\ copy' = MarkFilled(w, n) /\ UNCHANGED <<env, entry, sells, seen>>
  BY DEF EscalateSeesFill, NextRow, Continue, FilledWhenCanceled
<1>2. Reconciling /\ rows # <<>>
  BY <1>1, WalkingFacts DEF Walking
<1>3. n \in Nat /\ n <= QtyOf(w)
  <2>1. /\ OrderOf(w) \in DOMAIN sells /\ QtyOf(w) \in 1 .. Qty
        /\ sells[OrderOf(w)].qty \in 1 .. Qty /\ sells[OrderOf(w)].qty <= QtyOf(w)
    BY <1>2, RowOrder, ExitBooking
  <2>2. n = 0 \/ n = sells[OrderOf(w)].qty
    BY <2>1, Facts DEF Whole
  <2>. QED
    BY <2>1, <2>2, ExitAssumption
<1>4. Marks(copy, MarkFilled(w, n))
  BY <1>2, <1>3, MarkFilledMarks, ExitBooking
<1> HIDE DEF n, w
<1>. QED
  BY <1>1, <1>2, <1>4, Reconciles

(* The limit that is taken away is the target's, and flies until it is sent again. *)
LEMMA EscalateCancelsStep ==
  ASSUME ExitInv, EscalateCancels
  PROVE  ExitInv'
<1> DEFINE w == Head(rows)
<1> DEFINE k == OrderOf(w)
<1>1. /\ pc = "escalate" /\ pc' = "escalateLook" /\ Cancelable(k) /\ sells' = Cancel({k})
      /\ UNCHANGED <<env, entry, copy, rows, seen>> /\ ~Walking
  BY DEF EscalateCancels, Continue, Walking
<1>2. Reconciling /\ rows # <<>> /\ w[1] = "tp"
  BY <1>1, WalkingFacts
<1>3. /\ k \in DOMAIN sells /\ sells[k].kind # "stop" /\ sells[k].qty = QtyOf(w)
      /\ QtyOf(w) \in 1 .. Qty
  BY <1>2, TargetRowIs, ExitBooking, Facts DEF ExitsAreKnown, Fits
<1>4. QtyOf(w) \in Nat
  BY <1>3, ExitAssumption
<1>5. Lapse /\ Whole' /\ ByExits' = ByExits - QtyOf(w)
  <2>1. Whole /\ ~env.late
    BY Facts DEF Tame
  <2> HIDE DEF k, w
  <2>2. Lapse
    BY <1>1, <2>1, CancelLapses
  <2>3. ByExits' = ByExits - sells[k].qty
    BY <1>1, <1>3, <2>1, CancelOne
  <2>. QED
    BY <1>3, <2>2, <2>3 DEF Lapse
<1>6. ByStops' <= ByStops /\ ByStops' \in Nat
  BY <1>5, Facts, LapseShrinks, ClaimTypesNext
<1>7. Fits(copy)'
  BY <1>1, <1>5, Facts, FitsCarries
<1>8. Types'
  BY <1>1, <1>5 DEF ExitInv, Types, Tame
<1>9. Walking' /\ Reconciling' /\ ~Flattening' /\ Flying' = QtyOf(w)
  BY <1>1 DEF Walking, Reconciling, Flattening, Flying, QtyOf
<1>10. RowsAreKnown'
  BY <1>1, <1>2, <1>9 DEF ExitInv, RowsAreKnown, KnownRows
<1>11. Midway'
  BY <1>1, <1>9 DEF Midway
<1>12. Claims'
  <2>1. /\ ByExits \in Nat /\ ByStops \in Nat /\ ByExits <= Booked(copy)
        /\ ByExits + ByStops <= entry.filled /\ entry.filled \in Nat /\ Booked(copy) \in Nat
    BY <1>1, Facts
  <2>2. Booked(copy)' = Booked(copy) /\ entry'.filled = entry.filled
    BY <1>1 DEF Booked
  <2> DEFINE f == QtyOf(w)
  <2> DEFINE e == ByExits'
  <2> DEFINE s == ByStops'
  <2>3. f \in Nat /\ e = ByExits - f /\ s <= ByStops /\ s \in Nat
    BY <1>4, <1>5, <1>6
  <2> HIDE DEF f, e, s
  <2>4. e + f <= Booked(copy) /\ e + s + f <= entry.filled
    BY ONLY <2>1, <2>3
  <2>. QED
    BY <1>9, <2>2, <2>4 DEF Claims, e, f, s
<1>. QED
  BY <1>7, <1>8, <1>10, <1>11, <1>12 DEF ExitInv

Resent(r, k, id, rests) ==
    [r EXCEPT !.targets[k] = SentAgain(@, id, rests), !.order["tp"] = id]

(* What a close sent once more for target k of r leaves in q. *)
IsResent(q, r, k, id) ==
    /\ q \in Record /\ q.alert = r.alert /\ q.filled = r.filled /\ q.covered = r.covered
    /\ q.stops = r.stops /\ q.submitted = r.submitted /\ q.closed = r.closed
    /\ q.order = [r.order EXCEPT !["tp"] = id] /\ q.of = r.of /\ q.is = r.is
    /\ q.active = r.active /\ q.stopQty = r.stopQty
    /\ DOMAIN q.targets = DOMAIN r.targets /\ Len(q.targets) = Len(r.targets)
    /\ q.targets[k].order = id
    /\ \A j \in DOMAIN r.targets : q.targets[j].state = r.targets[j].state
    /\ \A j \in DOMAIN r.targets : q.targets[j].qty = r.targets[j].qty
    /\ \A j \in DOMAIN r.targets : j # k => q.targets[j] = r.targets[j]

LEMMA SentAgainFields ==
  ASSUME NEW t \in Target, NEW id \in Nat, NEW rests \in BOOLEAN
  PROVE  /\ SentAgain(t, id, rests) \in Target
         /\ SentAgain(t, id, rests).order = id
         /\ SentAgain(t, id, rests).qty = t.qty
         /\ SentAgain(t, id, rests).state = t.state
<1>0. t \in Target /\ id \in Nat /\ rests \in BOOLEAN
  OBVIOUS
<1> DEFINE c == t.cycle + 1
<1>1. c \in Nat
  <2>1. t.cycle \in Nat
    BY DEF Target
  <2>. QED
    BY ONLY <2>1
<1>2. SentAgain(t, id, rests) = [t EXCEPT !.order = id, !.cycle = c, !.resting = rests]
  BY DEF SentAgain
<1> HIDE DEF c
<1>. QED
  BY ONLY <1>0, <1>1, <1>2 DEF Target

LEMMA ResentFields ==
  ASSUME NEW r \in Record, NEW k \in DOMAIN r.targets, NEW id \in Nat, NEW rests \in BOOLEAN
  PROVE  IsResent(Resent(r, k, id, rests), r, k, id)
<1> DEFINE q == Resent(r, k, id, rests)
<1> DEFINE t == SentAgain(r.targets[k], id, rests)
<1>0. r \in Record /\ "tp" \in Source /\ id \in Nat
  BY DEF Source
<1>1. r.targets \in Seq(Target) /\ r.targets[k] \in Target
  <2>1. r.targets \in Seq(Target)
    BY RecordFields
  <2>. QED
    BY <2>1
<1>2. t \in Target /\ t.order = id /\ t.qty = r.targets[k].qty /\ t.state = r.targets[k].state
  BY <1>1, SentAgainFields
<1>3. q = [r EXCEPT !.targets[k] = t, !.order["tp"] = id]
  BY DEF Resent
<1> HIDE DEF t
<1> DEFINE ts == [r.targets EXCEPT ![k] = t]
<1>4. /\ ts \in Seq(Target) /\ Len(ts) = Len(r.targets) /\ DOMAIN ts = DOMAIN r.targets
      /\ ts[k] = t /\ \A j \in DOMAIN r.targets : j # k => ts[j] = r.targets[j]
  BY <1>1, <1>2
<1>5. q = [r EXCEPT !.targets = ts, !.order["tp"] = id]
  BY <1>3
<1> HIDE DEF ts, q
<1>6. /\ q \in Record /\ q.alert = r.alert /\ q.filled = r.filled /\ q.covered = r.covered
      /\ q.stops = r.stops /\ q.submitted = r.submitted /\ q.closed = r.closed
      /\ q.order = [r.order EXCEPT !["tp"] = id] /\ q.of = r.of /\ q.is = r.is
      /\ q.active = r.active /\ q.stopQty = r.stopQty /\ q.targets = ts
  BY ONLY <1>0, <1>4, <1>5 DEF Record
<1>7. \A j \in DOMAIN r.targets : ts[j].state = r.targets[j].state /\ ts[j].qty = r.targets[j].qty
  BY <1>2, <1>4
<1>8. IsResent(q, r, k, id)
  BY <1>2, <1>4, <1>6, <1>7 DEF IsResent
<1>. QED
  BY <1>8 DEF q

LEMMA ResentSound ==
  ASSUME Booking, Reconciling, rows # <<>>, Head(rows)[1] = "tp", NEW rests \in BOOLEAN,
         NEW q, q = Resent(copy, Head(rows)[2], NewId, rests)
  PROVE  /\ IsResent(q, copy, Head(rows)[2], NewId)
         /\ Sound(q) /\ Booked(q) = Booked(copy) /\ KnownRows(q) = KnownRows(copy)
         /\ Sends(q, QtyOf(Head(rows))) /\ QtyOf(Head(rows)) \in 1 .. Qty
         /\ Armed(copy) => Armed(q)
<1> DEFINE k == Head(rows)[2]
<1> DEFINE n == QtyOf(Head(rows))
<1> DEFINE id == NewId
<1>1. /\ k \in DOMAIN copy.targets /\ copy.targets[k].qty = n /\ n \in 1 .. Qty
      /\ copy.targets[k].state # "pending"
  BY TargetRowIs
<1>2. /\ copy \in Record /\ id \in Nat /\ Sound(copy) /\ Ordered(copy)
      /\ copy.order \in [Source -> Nat]
  BY BookingFacts, RecordFields
<1>3. q = Resent(copy, k, id, rests)
  OBVIOUS
<1> HIDE DEF k, n, id
<1>4. IsResent(q, copy, k, id)
  BY <1>1, <1>2, <1>3, ResentFields
<1>5. /\ Booked(q) = Booked(copy) /\ Left(q, 1) = Left(copy, 1) /\ Left(q, 2) = Left(copy, 2)
      /\ Pending(q) = Pending(copy)
  BY ONLY <1>4 DEF Booked, Left, Pending, IsResent
<1>6. Sound(q)
  BY ONLY <1>2, <1>4, <1>5 DEF Sound, AwaitsFills, IsResent
<1>7. Sends(q, n)
  <2>1. DOMAIN q.targets = DOMAIN copy.targets
    BY <1>4 DEF IsResent
  <2>2. ASSUME NEW j \in DOMAIN q.targets, q.targets[j].state # "pending"
        PROVE  \/ /\ q.targets[j].order \in DOMAIN sells
                  /\ sells[q.targets[j].order].qty = q.targets[j].qty
               \/ q.targets[j].order = NewId /\ q.targets[j].qty = n
    <3>1. CASE j = k
      <4>1. q.targets[k].order = id /\ q.targets[k].qty = copy.targets[k].qty
        BY <1>1, <1>4 DEF IsResent
      <4>. QED
        BY <1>1, <3>1, <4>1 DEF id
    <3>2. CASE j # k
      <4>1. q.targets[j] = copy.targets[j]
        BY <1>4, <2>1, <3>2 DEF IsResent
      <4>. QED
        BY <1>2, <2>1, <2>2, <4>1 DEF Ordered
    <3>. QED
      BY <3>1, <3>2
  <2>3. \A s \in Source \ {"tp"} : q.order[s] # 0 =>
          q.order[s] \in DOMAIN sells /\ sells[q.order[s]].qty <= q.submitted[s]
    BY ONLY <1>2, <1>4 DEF Ordered, IsResent
  <2>. QED
    BY <2>2, <2>3 DEF Sends
<1>8. KnownRows(q) = KnownRows(copy)
  <2>1. \A v \in Source \X Nat : v[1] # "tp" => q.order[v[1]] = copy.order[v[1]]
    BY ONLY <1>2, <1>4 DEF IsResent
  <2>. QED
    BY ONLY <1>4, <2>1 DEF KnownRows, IsResent
<1>9. Armed(copy) => Armed(q)
  <2>1. q.active = copy.active /\ q.stopQty = copy.stopQty /\ q.filled = copy.filled
    BY <1>4 DEF IsResent
  <2>. QED
    BY <1>5, <2>1 DEF Armed
<1>. QED
  BY <1>1, <1>4, <1>5, <1>6, <1>7, <1>8, <1>9 DEF k, n, id

LEMMA EscalateClosesStep ==
  ASSUME ExitInv, EscalateCloses
  PROVE  ExitInv'
<1> DEFINE w == Head(rows)
<1> DEFINE k == w[2]
<1> DEFINE n == QtyOf(w)
<1>1. /\ pc = "escalateClose" /\ pc' = "reconcile" /\ rows' = Tail(rows)
      /\ UNCHANGED <<env, entry, seen>> /\ Walking
  BY DEF EscalateCloses, NextRow, Continue, Walking
<1>2. PICK kind \in {"limit", "market"} :
        Submit(kind, n) /\ copy' = Resent(copy, k, NewId, kind = "limit")
  BY DEF EscalateCloses, CloseKinds, Resent
<1>3. Reconciling /\ rows # <<>> /\ w[1] = "tp"
  BY <1>1, WalkingFacts
<1>4. /\ k \in DOMAIN copy.targets /\ copy.targets[k].qty = n /\ n \in 1 .. Qty
      /\ copy.targets[k].state # "pending"
  BY <1>3, TargetRowIs, ExitBooking
<1>5. Flying = n
  BY <1>1 DEF Flying
<1> DEFINE q == Resent(copy, k, NewId, kind = "limit")
<1>7. /\ IsResent(q, copy, k, NewId) /\ Sound(q) /\ Booked(q) = Booked(copy)
      /\ KnownRows(q) = KnownRows(copy) /\ Sends(q, n)
  <2>1. Booking /\ (kind = "limit") \in BOOLEAN
    BY ExitBooking
  <2> DEFINE rests == kind = "limit"
  <2>2. rests \in BOOLEAN /\ q = Resent(copy, w[2], NewId, rests)
    BY <2>1
  <2> HIDE DEF rests, q
  <2>3. /\ IsResent(q, copy, w[2], NewId) /\ Sound(q) /\ Booked(q) = Booked(copy)
        /\ KnownRows(q) = KnownRows(copy) /\ Sends(q, QtyOf(w))
    BY <1>3, <2>1, <2>2, ResentSound
  <2>. QED
    BY <2>3
<1>8. copy' = q
  BY <1>2
<1> HIDE DEF w, k, n, q
<1>11. Sendable(q, n)
  <2>1. ExitsAreKnown(copy) /\ StopsAreKnown(copy) /\ ~copy.alert
    BY Facts
  <2>2. StopsAreKnown(q)
    BY ONLY <1>7, <2>1 DEF StopsAreKnown, IsResent
  <2>3. ASSUME NEW j \in DOMAIN q.targets, q.targets[j].state # "pending"
        PROVE  \/ /\ q.targets[j].order \in DOMAIN sells
                  /\ sells[q.targets[j].order].kind # "stop"
                  /\ sells[q.targets[j].order].qty = q.targets[j].qty
               \/ q.targets[j].order = NewId /\ q.targets[j].qty = n
    <3>1. j \in DOMAIN copy.targets
      BY <1>7, <2>3 DEF IsResent
    <3>2. CASE j = k
      <4>1. q.targets[k].order = NewId /\ q.targets[k].qty = copy.targets[k].qty
        BY <1>4, <1>7 DEF IsResent
      <4>. QED
        BY <1>4, <3>2, <4>1
    <3>3. CASE j # k
      <4>1. q.targets[j] = copy.targets[j]
        BY <1>7, <3>1, <3>3 DEF IsResent
      <4>. QED
        BY <2>1, <2>3, <3>1, <4>1 DEF ExitsAreKnown
    <3>. QED
      BY <3>2, <3>3
  <2>. QED
    BY <1>7, <2>1, <2>2, <2>3 DEF Sendable, IsResent, Sends
<1>12. rows' \in Seq(KnownRows(copy)) /\ rows' \in Seq(Source \X Nat)
  <2>1. Tail(rows) \in Seq(KnownRows(copy)) /\ KnownRows(copy) \subseteq Source \X Nat
    BY <1>3, RowFacts, ExitBooking
  <2>. QED
    BY <1>1, <2>1, SeqOfMore
<1>13. /\ Fits(copy)' /\ Types' /\ ByExits' = ByExits + n /\ ByStops' = ByStops
  <2>1. Submit(kind, n)
    BY <1>2
  <2>. QED
    BY <1>1, <1>4, <1>8, <1>11, <1>12, <2>1, SendsExit DEF Sendable
<1>14. KnownRows(copy)' = KnownRows(copy)
  <2>1. KnownRows(copy)' = KnownRows(q)
    BY <1>8 DEF KnownRows
  <2>. QED
    BY <1>7, <2>1
<1>15. ~Walking' /\ Reconciling' /\ ~Flattening' /\ Flying' = 0
  BY <1>1 DEF Walking, Reconciling, Flattening, Flying
<1>16. RowsAreKnown'
  BY <1>1, <1>12, <1>14, <1>15 DEF RowsAreKnown
<1>17. Midway'
  BY <1>1, <1>15 DEF Midway
<1>18. Claims'
  <2>1. /\ ByExits + n <= Booked(copy) /\ ByExits + ByStops + n <= entry.filled
        /\ ByExits \in Nat /\ ByStops \in Nat /\ n \in Nat
    BY <1>4, <1>5, Facts, ExitAssumption DEF ExitInv, Claims
  <2>2. Booked(copy)' = Booked(copy) /\ entry'.filled = entry.filled
    BY <1>1, <1>7, <1>8 DEF Booked
  <2>3. ByExits + n + 0 <= Booked(copy) /\ ByExits + n + ByStops + 0 <= entry.filled
    BY ONLY <2>1
  <2>. QED
    BY <1>13, <1>15, <2>2, <2>3 DEF Claims
<1>. QED
  BY <1>13, <1>16, <1>17, <1>18 DEF ExitInv

-----------------------------------------------------------------------------
(* The broker, and the end of a pass *)

(* What the broker does leaves the process where it is. *)
LEMMA BrokerKeeps ==
  ASSUME ExitInv, Lapse, UNCHANGED <<env, rec, copy, pc, rows, seen>>,
         entry' \in [filled : 0 .. Qty, working : BOOLEAN], entry.filled <= entry'.filled
  PROVE  ExitInv'
<1>0. /\ env' = env /\ rec' = rec /\ copy' = copy /\ pc' = pc /\ rows' = rows /\ seen' = seen
      /\ entry' \in [filled : 0 .. Qty, working : BOOLEAN] /\ entry.filled <= entry'.filled
  OBVIOUS
<1>1. entry.filled \in Nat /\ entry'.filled \in Nat /\ entry.filled <= entry'.filled
  BY <1>0, Facts, ExitAssumption
<1>2. Fits(copy)'
  BY <1>0, <1>1, Facts, FitsCarries
<1>3. Types'
  <2>1. Whole'
    BY DEF Lapse
  <2>. QED
    BY <1>0, <2>1 DEF ExitInv, Types, Tame
<1>4. /\ ByExits \in Nat /\ ByStops \in Nat /\ ByExits' \in Nat /\ ByStops' \in Nat
      /\ ByExits' <= ByExits /\ ByStops' <= ByStops
  <2>1. Whole /\ Whole'
    BY Facts DEF Lapse
  <2>. QED
    BY <2>1, LapseShrinks, ClaimTypes, ClaimTypesNext
<1>5. /\ Booked(copy)' = Booked(copy) /\ Walking' = Walking /\ Reconciling' = Reconciling
      /\ Flying' = Flying /\ Flattening' = Flattening /\ KnownRows(copy)' = KnownRows(copy)
      /\ AwaitsFills(copy)' = AwaitsFills(copy) /\ Pending(copy)' = Pending(copy)
  <2>1. Booked(copy)' = Booked(copy) /\ KnownRows(copy)' = KnownRows(copy)
    BY <1>0 DEF Booked, KnownRows
  <2>2. Walking' = Walking /\ Reconciling' = Reconciling /\ Flattening' = Flattening
    BY <1>0 DEF Walking, Reconciling, Flattening
  <2>3. AwaitsFills(copy)' = AwaitsFills(copy) /\ Pending(copy)' = Pending(copy)
    BY <1>0 DEF AwaitsFills, Pending
  <2>4. Flying' = Flying
    BY <1>0 DEF Flying, Walking, QtyOf
  <2>. QED
    BY <2>1, <2>2, <2>3, <2>4
<1>6. RowsAreKnown'
  BY <1>0, <1>5 DEF ExitInv, RowsAreKnown
<1>7. Midway'
  <2>1. Midway
    BY DEF ExitInv
  <2>2. (pc = "idle" \/ Flattening => copy = rec)'
    BY <1>0, <1>5, <2>1 DEF Midway
  <2>3. (pc = "attachStop" => /\ AwaitsFills(copy)
                              /\ copy.covered < seen.filled /\ seen.filled <= copy.filled)'
    BY <1>0, <1>5, <2>1 DEF Midway
  <2>4. (pc = "tpClose" \/ pc = "smartClose" => ByStops = 0)'
    <3>1. pc = "tpClose" \/ pc = "smartClose" => ByStops = 0
      BY <2>1 DEF Midway
    <3>. QED
      BY <1>0, <1>4, <3>1
  <2>5. (pc = "tpClose" => "tp" \in copy.active /\ Pending(copy) # {})'
    BY <1>0, <1>5, <2>1 DEF Midway
  <2>6. (pc = "smartClose" => Booked(copy) < copy.filled)'
    BY <1>0, <1>5, <2>1 DEF Midway
  <2>7. (pc = "flattenClose" => 0 <= seen.filled /\ seen.filled + ByExits + ByStops <= entry.filled)'
    <3>1. pc = "flattenClose" => 0 <= seen.filled /\ seen.filled + ByExits + ByStops <= entry.filled
      BY <2>1 DEF Midway
    <3>2. seen.filled \in Int
      BY DEF ExitInv, Types
    <3> DEFINE e == ByExits'
    <3> DEFINE s == ByStops'
    <3>3. e \in Nat /\ s \in Nat /\ e <= ByExits /\ s <= ByStops
      BY <1>4
    <3> HIDE DEF e, s
    <3>4. pc = "flattenClose" => 0 <= seen.filled /\ seen.filled + e + s <= entry'.filled
      BY ONLY <1>1, <1>4, <3>1, <3>2, <3>3
    <3>. QED
      BY <1>0, <3>4 DEF e, s
  <2>. QED
    BY <2>2, <2>3, <2>4, <2>5, <2>6, <2>7 DEF Midway
<1>8. Claims'
  <2>1. ByExits + Flying <= Booked(copy) /\ ByExits + ByStops + Flying <= entry.filled
    BY DEF ExitInv, Claims
  <2>2. Flying \in Nat /\ Booked(copy) \in Nat
    BY FlyingIs, Facts
  <2> DEFINE e == ByExits'
  <2> DEFINE s == ByStops'
  <2>3. e \in Nat /\ s \in Nat /\ e <= ByExits /\ s <= ByStops
    BY <1>4
  <2> HIDE DEF e, s
  <2>4. e + Flying <= Booked(copy) /\ e + s + Flying <= entry'.filled
    BY ONLY <1>1, <1>4, <2>1, <2>2, <2>3
  <2>. QED
    BY <1>5, <2>4 DEF Claims, e, s
<1>. QED
  BY <1>2, <1>3, <1>6, <1>7, <1>8 DEF ExitInv

LEMMA BrokerStep ==
  ASSUME ExitInv, Broker
  PROVE  ExitInv'
<1>0. Tame /\ Whole /\ entry \in [filled : 0 .. Qty, working : BOOLEAN]
  BY Facts DEF ExitInv, Types
<1>1. CASE EntryFills
  <2>1. UNCHANGED <<env, rec, copy, pc, rows, seen>> /\ sells' = sells
    BY <1>1 DEF EntryFills
  <2>2. PICK k \in Amounts(Qty - entry.filled, "entry") :
          entry' = [filled |-> entry.filled + k, working |-> entry.filled + k < Qty]
    BY <1>1 DEF EntryFills
  <2>3. entry.filled \in Nat /\ entry.filled <= Qty /\ Qty \in Nat
    BY <1>0, ExitAssumption
  <2>4. k \in 0 .. Qty - entry.filled
    BY <2>3 DEF Amounts
  <2>5. entry.filled + k \in 0 .. Qty /\ entry.filled <= entry.filled + k
    BY ONLY <2>3, <2>4
  <2>6. Lapse
    BY <1>0, <2>1, SameLapses
  <2>. QED
    BY <2>1, <2>2, <2>5, <2>6, BrokerKeeps
<1>2. CASE EntryEnds
  <2>1. UNCHANGED <<env, rec, copy, pc, rows, seen>> /\ sells' = sells
    BY <1>2 DEF EntryEnds
  <2>2. entry' \in [filled : 0 .. Qty, working : BOOLEAN] /\ entry'.filled = entry.filled
    BY <1>0, <1>2 DEF EntryEnds
  <2>3. entry.filled <= entry'.filled
    BY <1>0, <2>2, ExitAssumption
  <2>4. Lapse
    BY <1>0, <2>1, SameLapses
  <2>. QED
    BY <2>1, <2>2, <2>3, <2>4, BrokerKeeps
<1>3. ASSUME NEW i \in DOMAIN sells, SellFills(i) \/ SellRejected(i) \/ CancelTakesEffect(i)
      PROVE  ExitInv'
  <2>1. UNCHANGED <<env, rec, copy, pc, rows, seen>> /\ entry' = entry
    BY <1>3 DEF SellFills, SellRejected, CancelTakesEffect
  <2>2. Lapse
    BY <1>0, <1>3, BrokerLapses
  <2>3. entry' \in [filled : 0 .. Qty, working : BOOLEAN] /\ entry.filled <= entry'.filled
    BY <1>0, <2>1, ExitAssumption
  <2>. QED
    BY <2>1, <2>2, <2>3, BrokerKeeps
<1>. QED
  BY <1>1, <1>2, <1>3 DEF Broker

(* Where nothing is under way, and the record is what the process works on *)
LEMMA ReachesIdle ==
  ASSUME Types', Fits(copy)', pc' = "idle", copy' = rec',
         ByExits' <= Booked(copy'), ByExits' + ByStops' <= entry'.filled
  PROVE  ExitInv'
<1>1. ~Walking' /\ ~Reconciling' /\ Flying' = 0
  BY DEF Walking, Reconciling, Flying
<1>2. RowsAreKnown'
  BY <1>1 DEF RowsAreKnown
<1>3. Midway'
  BY <1>1 DEF Midway
<1>4. Claims'
  <2>1. Whole'
    BY DEF Types
  <2>2. (ByExits \in Nat /\ ByStops \in Nat)'
    BY <2>1, ClaimTypesNext
  <2>3. Booked(copy)' = Booked(copy')
    BY DEF Booked
  <2>4. \A x, y \in Nat : x + 0 = x /\ x + y + 0 = x + y
    OBVIOUS
  <2>. QED
    BY <1>1, <2>2, <2>3, <2>4 DEF Claims
<1>. QED
  BY <1>2, <1>3, <1>4 DEF ExitInv

LEMMA PersistStep ==
  ASSUME ExitInv, Persist
  PROVE  ExitInv'
<1>1. /\ ~copy.alert /\ pc = "persist" /\ pc' = "idle" /\ rows' = <<>> /\ seen' = NothingSeen
      /\ UNCHANGED <<env, entry, sells>> /\ ~Walking
  BY Facts DEF Persist, Continue, Walking
<1>2. copy' = copy /\ rec' = copy
  BY <1>1 DEF Persist
<1>3. Lapse /\ ByExits' = ByExits /\ ByStops' = ByStops
  BY <1>1, SameOrders, SameOrdersClaim
<1>4. Fits(copy)'
  BY <1>1, <1>2, <1>3, Facts, FitsCarries
<1>5. Types'
  <2>1. Whole'
    BY <1>3 DEF Lapse
  <2>. QED
    BY <1>1, <2>1 DEF ExitInv, Types, Tame, NothingSeen
<1>6. ByExits' <= Booked(copy') /\ ByExits' + ByStops' <= entry'.filled
  BY <1>1, <1>2, <1>3, Facts
<1>. QED
  BY <1>1, <1>2, <1>4, <1>5, <1>6, ReachesIdle

-----------------------------------------------------------------------------
(* The user's flatten *)

(* Calls to the broker of which the record learns nothing *)
LEMMA FlattenKeeps ==
  ASSUME ExitInv, pc = "idle" \/ Flattening, pc' = "idle" \/ Flattening', Lapse,
         UNCHANGED <<env, rec, rows>>, copy' \in {copy, rec},
         entry' \in [filled : 0 .. Qty, working : BOOLEAN], entry'.filled = entry.filled,
         seen' \in [filled : Int, over : BOOLEAN],
         pc' = "flattenClose" => /\ 0 <= seen'.filled
                                 /\ seen'.filled + ByExits' + ByStops' <= entry'.filled
  PROVE  ExitInv'
<1>0. /\ env' = env /\ rec' = rec /\ rows' = rows /\ entry'.filled = entry.filled
      /\ entry' \in [filled : 0 .. Qty, working : BOOLEAN]
      /\ seen' \in [filled : Int, over : BOOLEAN]
  OBVIOUS
<1>1. copy = rec /\ copy' = copy
  BY DEF ExitInv, Midway
<1>2. entry.filled \in Nat /\ entry'.filled \in Nat /\ entry.filled <= entry'.filled
  BY <1>0, Facts
<1>3. Fits(copy)'
  BY <1>0, <1>1, <1>2, Facts, FitsCarries
<1>4. Types'
  <2>1. Whole'
    BY DEF Lapse
  <2>. QED
    BY <1>0, <2>1 DEF ExitInv, Types, Tame
<1>5. /\ ByExits \in Nat /\ ByStops \in Nat /\ ByExits' \in Nat /\ ByStops' \in Nat
      /\ ByExits' <= ByExits /\ ByStops' <= ByStops
  <2>1. Whole /\ Whole'
    BY Facts DEF Lapse
  <2>. QED
    BY <2>1, LapseShrinks, ClaimTypes, ClaimTypesNext
<1>6. ~Walking /\ ~Walking' /\ ~Reconciling' /\ Flying' = 0
  BY DEF Walking, Reconciling, Flying, Flattening
<1>7. RowsAreKnown'
  BY <1>6 DEF RowsAreKnown, Flattening
<1>8. Midway'
  BY <1>0, <1>1 DEF Midway, Flattening
<1>9. Claims'
  <2>1. ByExits <= Booked(copy) /\ ByExits + ByStops <= entry.filled /\ Booked(copy) \in Nat
    BY <1>6, Facts
  <2>2. Booked(copy)' = Booked(copy)
    BY <1>1 DEF Booked
  <2> DEFINE e == ByExits'
  <2> DEFINE s == ByStops'
  <2>3. e \in Nat /\ s \in Nat /\ e <= ByExits /\ s <= ByStops
    BY <1>5
  <2> HIDE DEF e, s
  <2>4. e + 0 <= Booked(copy) /\ e + s + 0 <= entry'.filled
    BY ONLY <1>0, <1>2, <1>5, <2>1, <2>3
  <2>. QED
    BY <1>6, <2>2, <2>4 DEF Claims, e, s
<1>. QED
  BY <1>3, <1>4, <1>7, <1>8, <1>9 DEF ExitInv


LEMMA FlattenBrokerSteps ==
  ASSUME ExitInv, BeginFlatten \/ FlattenCancels \/ FlattenLook \/ FlattenLookFails
  PROVE  ExitInv'
<1>0. /\ Tame /\ Whole /\ entry \in [filled : 0 .. Qty, working : BOOLEAN]
      /\ seen \in [filled : Int, over : BOOLEAN] /\ ~env.late /\ env.reserves
  BY Facts DEF ExitInv, Types, Tame
<1>1. CASE BeginFlatten
  <2>1. /\ pc = "idle" /\ pc' = "flattenCancel" /\ copy' = rec /\ sells' = sells
        /\ UNCHANGED <<env, rec, rows>> /\ entry' = entry /\ seen' = seen
    BY <1>1 DEF BeginFlatten, Continue
  <2>2. Lapse
    BY <2>1, SameOrders
  <2>3. /\ entry' \in [filled : 0 .. Qty, working : BOOLEAN] /\ entry'.filled = entry.filled
        /\ seen' \in [filled : Int, over : BOOLEAN] /\ Flattening' /\ pc' # "flattenClose"
    BY <1>0, <2>1 DEF Flattening
  <2>. QED
    BY <2>1, <2>2, <2>3, FlattenKeeps
<1>2. CASE FlattenCancels
  <2>1. /\ pc = "flattenCancel" /\ pc' = "flattenLook" /\ copy' = copy
        /\ UNCHANGED <<env, rec, rows>> /\ seen' = seen
        /\ CancelEntry \/ entry' = entry
        /\ \E ids : sells' = Cancel(ids)
    BY <1>2 DEF FlattenCancels, Continue
  <2>2. PICK ids : sells' = Cancel(ids)
    BY <2>1
  <2>3. Lapse
    BY <1>0, <2>2, CancelLapses
  <2>4. entry' \in [filled : 0 .. Qty, working : BOOLEAN] /\ entry'.filled = entry.filled
    <3>1. (entry.working /\ copy.filled = Qty) \in BOOLEAN
      BY <1>0
    <3>. QED
      BY <1>0, <2>1, <3>1 DEF CancelEntry
  <2>5. /\ seen' \in [filled : Int, over : BOOLEAN]
        /\ Flattening /\ Flattening' /\ pc' # "flattenClose"
    BY <1>0, <2>1 DEF Flattening
  <2>. QED
    BY <2>1, <2>3, <2>4, <2>5, FlattenKeeps
<1>3. CASE FlattenLook
  <2>1. /\ pc = "flattenLook" /\ pc' = "flattenClose" /\ copy' = copy /\ sells' = sells
        /\ UNCHANGED <<env, rec, rows>> /\ entry' = entry
    BY <1>3 DEF FlattenLook, Continue
  <2>2. Lapse /\ ByExits' = ByExits /\ ByStops' = ByStops
    BY <2>1, SameOrders, SameOrdersClaim
  <2>3. /\ Sold \in Int /\ Resting \in Nat /\ Sold + Resting = ByExits + ByStops
        /\ ByExits \in Nat /\ ByStops \in Nat
        /\ entry.filled \in Nat /\ ByExits + ByStops <= entry.filled
    BY <1>0, <2>1, Facts, SoldAndResting DEF Walking
  <2>4. Position \in Int /\ Position - Resting \in Int /\ Position = entry.filled - Sold
    BY <2>3 DEF Position
  <2>5. /\ 0 <= seen'.filled /\ seen'.filled + ByExits + ByStops <= entry.filled
        /\ seen' \in [filled : Int, over : BOOLEAN]
    <3> DEFINE left == Max({0, Position - Resting})
    <3>1. seen' = [filled |-> IF Position > 0 THEN left ELSE Position, over |-> FALSE]
      BY <1>0, <1>3 DEF FlattenLook
    <3>2. left = IF 0 >= Position - Resting THEN 0 ELSE Position - Resting
      BY <2>4, MaxOfTwo
    <3> HIDE DEF left
    <3> DEFINE there == IF Position > 0 THEN left ELSE Position
    <3>3. there \in Int /\ 0 <= there /\ there + ByExits + ByStops <= entry.filled
      BY ONLY <2>3, <2>4, <3>2
    <3>. QED
      BY <3>1, <3>3
  <2>6. /\ entry' \in [filled : 0 .. Qty, working : BOOLEAN] /\ entry'.filled = entry.filled
        /\ Flattening /\ Flattening'
    BY <1>0, <2>1 DEF Flattening
  <2>. QED
    BY <2>1, <2>2, <2>5, <2>6, FlattenKeeps
<1>4. CASE FlattenLookFails
  <2>1. /\ pc = "flattenLook" /\ pc' = "idle" /\ copy' = rec /\ sells' = sells
        /\ UNCHANGED <<env, rec, rows>> /\ entry' = entry /\ seen' = seen
    BY <1>4 DEF FlattenLookFails, Continue
  <2>2. Lapse
    BY <2>1, SameOrders
  <2>3. /\ entry' \in [filled : 0 .. Qty, working : BOOLEAN] /\ entry'.filled = entry.filled
        /\ seen' \in [filled : Int, over : BOOLEAN] /\ Flattening /\ pc' # "flattenClose"
    BY <1>0, <2>1 DEF Flattening
  <2>. QED
    BY <2>1, <2>2, <2>3, FlattenKeeps
<1>. QED
  BY <1>1, <1>2, <1>3, <1>4

LEMMA FlattenClosesNothingStep ==
  ASSUME ExitInv, FlattenClosesNothing
  PROVE  ExitInv'
<1>1. /\ pc = "flattenClose" /\ pc' \in Between /\ copy' = copy /\ sells' = sells /\ ~Walking
      /\ UNCHANGED <<env, entry, rows, seen>>
  BY DEF FlattenClosesNothing, Continue, SubmitLost, Between, Walking, ExitInv, Types, Tame
<1>2. Lapse /\ Fits(copy)
  BY <1>1, Facts, SameOrders
<1>. QED
  BY <1>1, <1>2, GoesOn

(* What is closed is what the account has and nobody else sells, at most what
   the record has open. *)
LEMMA FlattenQuantityIs ==
  ASSUME ExitInv, pc = "flattenClose", FlattenQuantity > 0
  PROVE  /\ seen.filled > 0 /\ FlattenQuantity \in 1 .. Qty
         /\ FlattenQuantity <= seen.filled
         /\ FlattenQuantity + Booked(copy) <= copy.filled
         /\ FlattenQuantity + ByExits + ByStops <= entry.filled
<1>1. /\ seen.filled \in Int /\ 0 <= seen.filled
      /\ seen.filled + ByExits + ByStops <= entry.filled
  BY DEF ExitInv, Midway, Types
<1>2. /\ entry.filled \in 0 .. Qty /\ copy.filled \in Nat /\ Booked(copy) \in Nat
      /\ ByExits \in Nat /\ ByStops \in Nat /\ copy.filled <= entry.filled
      /\ Booked(copy) <= copy.filled /\ Qty \in Nat
  BY Facts, ExitAssumption
<1>3. Desired = copy.filled - Booked(copy)
  BY Facts, Remaining DEF Desired
<1>4. Max({seen.filled, -seen.filled}) = seen.filled
  <2>1. -seen.filled \in Int /\ seen.filled >= -seen.filled
    BY ONLY <1>1
  <2>. QED
    BY <1>1, <2>1, MaxOfTwo
<1>5. FlattenQuantity = IF seen.filled <= Desired THEN seen.filled ELSE Desired
  <2>1. Desired \in Int
    BY <1>2, <1>3
  <2>. QED
    BY <1>1, <1>4, <2>1, MinOfTwo DEF FlattenQuantity
<1> DEFINE n == FlattenQuantity
<1>6. n > 0
  OBVIOUS
<1> HIDE DEF n
<1>7. n = IF seen.filled <= Desired THEN seen.filled ELSE Desired
  BY <1>5 DEF n
<1>8. /\ seen.filled > 0 /\ n \in 1 .. Qty /\ n <= seen.filled /\ n + Booked(copy) <= copy.filled
      /\ n + ByExits + ByStops <= entry.filled
  BY ONLY <1>1, <1>2, <1>3, <1>6, <1>7
<1>. QED
  BY <1>8 DEF n

(* A flatten that closes n contracts books them, and nothing watches any more. *)
LEMMA FlattenCloseSound ==
  ASSUME Booking, NEW n \in 1 .. Qty, n + Booked(copy) <= copy.filled,
         NEW r, r = Submitted(copy, "flatten", copy.submitted["flatten"] + n),
         NEW q, q = Off(r, 0)
  PROVE  /\ q \in Record /\ q.alert = copy.alert /\ q.filled = copy.filled
         /\ q.covered = copy.covered /\ q.stops = copy.stops /\ q.targets = copy.targets
         /\ q.active = {} /\ q.of = "flatten"
         /\ Sound(q) /\ Booked(q) = Booked(copy) + n /\ Sends(q, n)
<1>2. n \in 1 .. Qty /\ n + Booked(copy) <= copy.filled
  OBVIOUS
<1>4. /\ copy \in Record /\ "flatten" \in Source /\ NewId \in Nat
      /\ copy.submitted \in [Source -> 0 .. Qty] /\ copy.order \in [Source -> Nat]
      /\ copy.closed \in [Source -> 0 .. Qty]
      /\ Booked(copy) \in Nat /\ copy.filled \in 0 .. Qty
  BY BookingFacts, RecordFields DEF Source
<1> DEFINE m == copy.submitted["flatten"] + n
<1>5. m \in 0 .. Qty /\ n <= m /\ m >= copy.submitted["flatten"]
  <2>1. copy.submitted["flatten"] \in Nat /\ copy.submitted["flatten"] <= Booked(copy)
    <3>1. /\ copy.submitted["stop"] \in Nat /\ copy.submitted["tp"] \in Nat
          /\ copy.submitted["smart"] \in Nat /\ copy.submitted["flatten"] \in Nat
      BY <1>4 DEF Source
    <3>. QED
      BY <3>1 DEF Booked
  <2>. QED
    BY <1>2, <1>4, <2>1, ExitAssumption
<1>6. SentAs(copy, "flatten", m, r)
  BY <1>4, <1>5, SubmittedFields
<1> HIDE DEF m
<1>7. /\ q \in Record /\ q.alert = copy.alert /\ q.filled = copy.filled /\ q.covered = copy.covered
      /\ q.stops = copy.stops /\ q.closed = copy.closed /\ q.targets = copy.targets
      /\ q.submitted = [copy.submitted EXCEPT !["flatten"] = m]
      /\ q.order = [copy.order EXCEPT !["flatten"] = NewId]
      /\ q.active = {} /\ q.of = "flatten"
  <2>1. r \in Record /\ 0 \in 0 .. Qty
    BY <1>6, ExitAssumption DEF SentAs
  <2>2. Kin(r, q) /\ q.active = {} /\ q.of = r.of
    BY <2>1, OffKin
  <2>. QED
    BY <1>4, <1>6, <2>2 DEF SentAs, Kin
<1>8. Booked(q) = Booked(copy) + n
  <2> DEFINE a == copy.submitted["stop"]
  <2> DEFINE b == copy.submitted["tp"]
  <2> DEFINE c == copy.submitted["smart"]
  <2> DEFINE d == copy.submitted["flatten"]
  <2>1. a \in Nat /\ b \in Nat /\ c \in Nat /\ d \in Nat /\ n \in Nat
    BY <1>2, <1>4, ExitAssumption DEF Source
  <2>2. Booked(copy) = a + b + c + d
    BY DEF Booked
  <2>3. Booked(q) = a + b + c + m
    BY <1>4, <1>7 DEF Booked, Source
  <2>4. m = d + n
    BY DEF m
  <2> HIDE DEF a, b, c, d, m
  <2>. QED
    BY ONLY <2>1, <2>2, <2>3, <2>4
<1>9. Sound(q)
  <2>1. \A x \in Source : q.closed[x] <= q.submitted[x]
    <3>1. \A x \in Source : /\ copy.closed[x] <= copy.submitted[x]
                            /\ copy.closed[x] \in Nat /\ copy.submitted[x] \in Nat
      BY BookingFacts, Quantities DEF Sound
    <3>2. copy.closed["flatten"] <= m
      BY <1>4, <1>5, <3>1, ExitAssumption
    <3>. QED
      BY <1>4, <1>7, <3>1, <3>2
  <2>2. q.filled <= entry.filled /\ q.covered <= q.filled /\ Len(q.targets) <= 2
    BY <1>7, BookingFacts DEF Sound
  <2>3. Booked(q) <= q.filled
    BY <1>2, <1>4, <1>7, <1>8
  <2>4. ~(q.submitted["stop"] + q.submitted["smart"] > 0)
    <3>1. Booked(copy) # copy.filled
      BY <1>2, <1>4
    <3>2. ~(copy.submitted["stop"] + copy.submitted["smart"] > 0)
      BY <3>1, BookingFacts DEF Sound
    <3>. QED
      BY <1>4, <1>7, <3>2 DEF Source
  <2>. QED
    BY <1>7, <2>1, <2>2, <2>3, <2>4 DEF Sound
<1>10. Sends(q, n)
  <2>1. Ordered(copy)
    BY BookingFacts
  <2>2. ASSUME NEW s \in Source \ {"tp"}, q.order[s] # 0
        PROVE  \/ q.order[s] \in DOMAIN sells /\ sells[q.order[s]].qty <= q.submitted[s]
               \/ q.order[s] = NewId /\ n <= q.submitted[s]
    <3>1. CASE s = "flatten"
      BY <1>4, <1>5, <1>7, <3>1
    <3>2. CASE s # "flatten"
      BY <1>4, <1>7, <2>1, <2>2, <3>2 DEF Ordered
    <3>. QED
      BY <3>1, <3>2
  <2>3. \A j \in DOMAIN q.targets : q.targets[j].state # "pending" =>
          /\ q.targets[j].order \in DOMAIN sells
          /\ sells[q.targets[j].order].qty = q.targets[j].qty
    BY <1>7, <2>1 DEF Ordered
  <2>. QED
    BY <2>2, <2>3 DEF Sends
<1>. QED
  BY <1>7, <1>8, <1>9, <1>10

LEMMA FlattenClosesStep ==
  ASSUME ExitInv, FlattenCloses
  PROVE  ExitInv'
<1> DEFINE n == FlattenQuantity
<1> DEFINE r == Submitted(copy, "flatten", copy.submitted["flatten"] + n)
<1> DEFINE q == Off(r, 0)
<1>1. /\ pc = "flattenClose" /\ n > 0 /\ pc' \in Between
      /\ UNCHANGED <<env, entry, rows, seen>> /\ ~Walking /\ copy' = q
  BY DEF FlattenCloses, Continue, Between, Walking, Off
<1>2. /\ seen.filled > 0 /\ n \in 1 .. Qty /\ n + Booked(copy) <= copy.filled
      /\ n + ByExits + ByStops <= entry.filled
  BY <1>1, FlattenQuantityIs
<1>3. Submit("market", n)
  BY <1>2 DEF FlattenCloses
<1> HIDE DEF n
<1>4. /\ q \in Record /\ q.alert = copy.alert /\ q.covered = copy.covered
      /\ q.stops = copy.stops /\ q.targets = copy.targets /\ q.active = {}
      /\ Sound(q) /\ Booked(q) = Booked(copy) + n /\ Sends(q, n)
  BY <1>2, FlattenCloseSound, ExitBooking
<1> HIDE DEF r, q
<1>10. Sendable(q, n)
  <2>1. StopsAreKnown(q) /\ ~q.alert
    BY <1>4, Facts DEF StopsAreKnown
  <2>2. \A k \in DOMAIN q.targets : q.targets[k].state # "pending" =>
          /\ q.targets[k].order \in DOMAIN sells
          /\ sells[q.targets[k].order].kind # "stop"
          /\ sells[q.targets[k].order].qty = q.targets[k].qty
    BY <1>4, Facts DEF ExitsAreKnown
  <2>. QED
    BY <1>4, <2>1, <2>2 DEF Sendable, Sends
<1>11. /\ Fits(copy)' /\ Types' /\ ByExits' = ByExits + n /\ ByStops' = ByStops
  <2>1. rows' \in Seq(Source \X Nat) /\ "market" \in {"limit", "market"}
    BY <1>1 DEF ExitInv, Types
  <2>. QED
    BY <1>1, <1>2, <1>3, <1>10, <2>1, SendsExit DEF Sendable
<1>12. ByExits' <= Booked(copy') /\ ByExits' + ByStops' <= entry'.filled
  <2>1. /\ ByExits \in Nat /\ ByStops \in Nat /\ ByExits <= Booked(copy) /\ n \in Nat
        /\ entry.filled \in Nat /\ Booked(copy) \in Nat
    BY <1>1, <1>2, Facts, ExitAssumption
  <2>2. ByExits + n <= Booked(copy) + n /\ ByExits + n + ByStops <= entry.filled
    BY ONLY <1>2, <2>1
  <2>. QED
    BY <1>1, <1>4, <1>11, <2>2
<1>. QED
  BY <1>1, <1>11, <1>12, ReachesBetween


-----------------------------------------------------------------------------
(* The theorem *)

LEMMA NewRecordSound ==
  ASSUME entry.filled = 0
  PROVE  /\ NewRecord \in Record /\ Sound(NewRecord)
         /\ Booked(NewRecord) = 0 /\ NewRecord.targets = <<>>
<1>1. NewRecord \in Record
  <2>1. <<>> \in Seq(Target) /\ 0 \in 0 .. Qty /\ 0 \in 0 .. Confirm /\ 0 \in 0 .. MaxRetries
        /\ 0 \in 0 .. Outage
    BY ExitAssumption
  <2>2. (IF env.smart THEN {"smart"} ELSE {}) \in SUBSET Software
    BY DEF Software
  <2>. QED
    BY ONLY <2>1, <2>2 DEF NewRecord, Record, Source
<1>2. Booked(NewRecord) = 0 /\ NewRecord.targets = <<>>
  BY DEF NewRecord, Booked, Source
<1>3. NewRecord.active \cap {"stop", "tp"} = {}
  BY DEF NewRecord
<1>4. Left(NewRecord, 1) = 0 /\ Left(NewRecord, 2) = 0 /\ Len(NewRecord.targets) = 0
  BY <1>2 DEF Left
<1>5. /\ NewRecord.filled = 0 /\ NewRecord.covered = 0
      /\ \A s \in Source : NewRecord.closed[s] = 0 /\ NewRecord.submitted[s] = 0
  BY DEF NewRecord
<1>6. ~(NewRecord.submitted["stop"] + NewRecord.submitted["smart"] > 0)
  BY <1>5 DEF Source
<1>7. Sound(NewRecord)
  BY <1>2, <1>3, <1>4, <1>5, <1>6 DEF Sound
<1>. QED
  BY <1>1, <1>2, <1>7

LEMMA InitFits ==
  ASSUME Init, Tame
  PROVE  ExitInv
<1>1. /\ entry = [filled |-> 0, working |-> TRUE] /\ sells = <<>> /\ rec = NewRecord
      /\ copy = NewRecord /\ pc = "idle" /\ rows = <<>> /\ seen = NothingSeen
  BY DEF Init
<1>2. DOMAIN sells = {} /\ Whole
  BY <1>1 DEF Whole
<1>3. ByExits = 0 /\ ByStops = 0
  BY <1>2, SumEmpty DEF ByExits, ByStops
<1>4. Types
  BY <1>1, <1>2, ExitAssumption DEF Types, NothingSeen
<1>5. NewRecord \in Record /\ Sound(NewRecord)
      /\ Booked(NewRecord) = 0 /\ NewRecord.targets = <<>>
  BY <1>1, NewRecordSound
<1>8. StopsAreKnown(NewRecord)
  BY <1>2, <1>3 DEF StopsAreKnown, NewRecord
<1>9. ExitsAreKnown(NewRecord)
  <2>1. \A s \in Source : NewRecord.order[s] = 0
    BY DEF NewRecord
  <2>. QED
    BY <1>5, <2>1 DEF ExitsAreKnown
<1>10. Fits(copy)
  BY <1>1, <1>5, <1>8, <1>9 DEF Fits, NewRecord
<1>11. RowsAreKnown /\ Midway
  BY <1>1 DEF RowsAreKnown, Midway, Reconciling, Walking, Flattening
<1>12. Claims
  BY <1>1, <1>3, <1>5 DEF Claims, Flying, Walking
<1>. QED
  BY <1>4, <1>10, <1>11, <1>12 DEF ExitInv

LEMMA WorkingKeeps ==
  ASSUME ExitInv, Working
  PROVE  ExitInv'
<1>1. CASE AttachNotNeeded \/ AttachLookFails \/ AttachStopFails \/ StopIdle \/ TakeProfitIdle
             \/ RowsDone
  BY <1>1, StepsKeepingCopy
<1>2. CASE AttachLook \/ AttachStop \/ AttachUnsupported
  BY <1>2, AttachLookStep, AttachStopStep, AttachUnsupportedStep
<1>3. CASE StopWatches \/ StopFires \/ StopFireFails
  BY <1>3, StopWatchesStep, StopFiresStep, StopFireFailsStep
<1>4. CASE TakeProfitCancelsStops \/ TakeProfitKeepsStops \/ TakeProfitCloses
             \/ TakeProfitCloseFails
  BY <1>4, TakeProfitCancelsStopsStep, KeepsStopsStep, TakeProfitClosesStep,
     TakeProfitCloseFailsStep
<1>5. CASE SmartIdle \/ SmartCancelsStops \/ SmartKeepsStops \/ SmartCloses \/ SmartCloseFails
  BY <1>5, SmartIdleStep, SmartCancelsStopsStep, KeepsStopsStep, SmartClosesStep,
     SmartCloseFailsStep
<1>6. CASE CollectRows \/ ReconcileRow \/ ReconcileFails
  BY <1>6, CollectRowsStep, ReconcileRowStep, ReconcilesCopyStep
<1>7. CASE EscalateCancels \/ EscalateCancelFails \/ EscalateSeesFill \/ EscalateSeesNoFill
             \/ EscalateCloses \/ EscalateCloseFails
  BY <1>7, EscalateCancelsStep, ReconcilesCopyStep, EscalateSeesFillStep, EscalateClosesStep
<1>8. CASE Persist
  BY <1>8, PersistStep
<1>9. CASE FlattenCancels \/ FlattenLook \/ FlattenLookFails \/ FlattenCloses
             \/ FlattenClosesNothing
  BY <1>9, FlattenBrokerSteps, FlattenClosesStep, FlattenClosesNothingStep
<1>. QED
  BY <1>1, <1>2, <1>3, <1>4, <1>5, <1>6, <1>7, <1>8, <1>9 DEF Working

LEMMA NextKeeps ==
  ASSUME ExitInv, [Next]_vars
  PROVE  ExitInv'
<1>1. CASE BeginPass
  BY <1>1, StepsKeepingCopy
<1>2. CASE Working
  BY <1>2, WorkingKeeps
<1>3. CASE BeginFlatten
  BY <1>3, FlattenBrokerSteps
<1>4. CASE Crash
  BY <1>4, Facts DEF Crash, Tame
<1>5. CASE Broker
  BY <1>5, BrokerStep
<1>6. CASE UNCHANGED vars
  <2>1. UNCHANGED <<env, rec, copy, pc, rows, seen>> /\ sells' = sells /\ entry' = entry
    BY <1>6 DEF vars
  <2>2. entry \in [filled : 0 .. Qty, working : BOOLEAN] /\ entry.filled \in Nat
    BY Facts DEF ExitInv, Types
  <2>3. entry' \in [filled : 0 .. Qty, working : BOOLEAN] /\ entry.filled <= entry'.filled
    BY <2>1, <2>2
  <2>4. Lapse
    BY <2>1, SameOrders
  <2>. QED
    BY <2>1, <2>3, <2>4, BrokerKeeps
<1>. QED
  BY <1>1, <1>2, <1>3, <1>4, <1>5, <1>6 DEF Next

(* Which environment it is does not change. *)
LEMMA EnvironmentStays ==
  ASSUME [Next]_vars
  PROVE  env' = env
<1>1. CASE Working
  BY <1>1 DEF Working, AttachNotNeeded, AttachLook, AttachLookFails, AttachStop,
     AttachUnsupported, AttachStopFails, StopIdle, StopWatches, StopFires, StopFireFails,
     TakeProfitIdle, TakeProfitCancelsStops, TakeProfitKeepsStops, TakeProfitCloses,
     TakeProfitCloseFails, SmartIdle, SmartCancelsStops, SmartKeepsStops, SmartCloses,
     SmartCloseFails, CollectRows, ReconcileRow, ReconcileFails, EscalateCancels,
     EscalateCancelFails, EscalateSeesFill, EscalateSeesNoFill, EscalateCloses,
     EscalateCloseFails, RowsDone, Persist, FlattenCancels, FlattenLook, FlattenLookFails,
     FlattenCloses, FlattenClosesNothing
<1>2. CASE BeginPass \/ BeginFlatten \/ Crash \/ Broker
  BY <1>2 DEF BeginPass, BeginFlatten, Crash, Broker, EntryFills, EntryEnds, SellFills,
     SellRejected, CancelTakesEffect
<1>3. CASE UNCHANGED vars
  BY <1>3 DEF vars
<1>. QED
  BY <1>1, <1>2, <1>3 DEF Next

(* The inductive invariant gives the property: what is sold and what rests is
   what the orders claim, and what exits claim is in the record that the process
   has written when nothing is under way. *)
LEMMA InvariantIsEnough == (Tame => ExitInv) => NeverOverclosed
<1> SUFFICES ASSUME ExitInv
             PROVE  /\ Sold + Resting <= entry.filled
                    /\ pc = "idle" => Exiting <= ClosedOrPending(rec)
  BY DEF NeverOverclosed
<1>1. Sold + Resting = ByExits + ByStops /\ Exiting = ByExits
  BY Facts, SoldAndResting
<1>2. ByExits <= Booked(copy) /\ ByExits + ByStops <= entry.filled
  BY FlyingIs
<1>3. pc = "idle" => copy = rec
  BY DEF ExitInv, Midway
<1>4. ClosedOrPending(copy) = Booked(copy)
  BY Facts, Remaining
<1>. QED
  BY <1>1, <1>2, <1>3, <1>4

(* Nothing is sold that is not held, even if everything that rests fills, and
   between two passes the record holds all that exits have sold or may sell, as
   long as broker and process behave: for every quantity, any number of faults
   and any number of passes. *)
THEOREM ClosesNoMoreThanHeld == Spec => []NeverOverclosed
<1> DEFINE Inv == Tame => ExitInv
<1>1. Init => Inv
  BY InitFits
<1>2. Inv /\ [Next]_vars => Inv'
  <2> SUFFICES ASSUME Inv, [Next]_vars, Tame'
               PROVE  ExitInv'
    OBVIOUS
  <2>1. Tame
    BY EnvironmentStays DEF Tame
  <2>. QED
    BY <2>1, NextKeeps
<1>3. Inv => NeverOverclosed
  BY InvariantIsEnough
<1>. QED
  BY <1>1, <1>2, <1>3, PTL DEF Spec

=============================================================================
