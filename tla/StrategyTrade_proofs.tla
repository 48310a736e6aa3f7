------------------------ MODULE StrategyTrade_proofs ------------------------
(***************************************************************************)
(* Proofs about StrategyTrade, for any number of units, of attempts and of *)
(* steps of a walk: what was sold short is never held without what was     *)
(* bought against it, as long as the broker decides orders within the wait *)
(* and as a whole, whatever it refuses, whatever calls fail, whichever     *)
(* triggers are seen, and if the process dies while it opens the position. *)
(***************************************************************************)
EXTENDS StrategyTrade, Sums, SequenceTheorems

\* The hypothesis of NeverNaked
Covering ==
    /\ Tame /\ EntryIsRemembered
    /\ env.slow = {} /\ "exit" \notin env.crash
    /\ ~env.flatten

-----------------------------------------------------------------------------
(* Orders are whole: they fill at once or not at all.  What is certain to be *)
(* held of the bought leg beyond the sold one is what has been bought, of    *)
(* either, less what orders at work may still sell and what they have sold.  *)

OrderShape ==
    [leg : Leg, part : Part, limit : BOOLEAN, qty : Nat \ {0}, filled : Nat,
     state : {"working", "filled", "canceled", "rejected"}]

Whole(os) ==
    /\ os \in Seq(OrderShape)
    /\ \A i \in DOMAIN os : os[i].filled = IF os[i].state = "filled" THEN os[i].qty ELSE 0

Live(o) == o.state \in {"working", "filled"}
Buys(o) == (o.leg = "long") = (o.part = "entry")
Worth(o) == IF Buys(o) THEN o.filled ELSE IF Live(o) THEN -o.qty ELSE 0

Worths(os) == [i \in DOMAIN os |-> Worth(os[i])]
Worst(os) == SumOf(Worths(os), DOMAIN os)
WorstBut(os, i) == SumOf(Worths(os), DOMAIN os \ {i})

\* What the orders are for stays, and what is decided.
Keeps(os, qs) ==
    /\ DOMAIN os \subseteq DOMAIN qs
    /\ \A i \in DOMAIN os :
          /\ qs[i].leg = os[i].leg /\ qs[i].part = os[i].part
          /\ qs[i].limit = os[i].limit /\ qs[i].qty = os[i].qty
          /\ os[i].state # "working" => qs[i] = os[i]

\* The same orders, and more is certain.
Follows(os, qs) ==
    /\ Keeps(os, qs)
    /\ DOMAIN qs = DOMAIN os
    /\ \A i \in DOMAIN os : Worth(qs[i]) >= Worth(os[i])

-----------------------------------------------------------------------------
(* The inductive invariant, of orders, copy, record, journal, place and work *)

LegShape ==
    [filled : Nat, entry : Nat, status : {"none", "submitted", "filled", "failed", "deferred"},
     qty : Nat, done : Nat, order : Nat, resting : BOOLEAN, cycle : Nat]

Shape ==
    [legs : [Leg -> LegShape],
     exit : {"none", "submitted", "partial", "filled", "nothing", "residual", "combo"},
     active : BOOLEAN, residual : Nat, told : BOOLEAN, closed : Nat,
     pending : Trigger \cup {"none"}, smart : BOOLEAN, tp1 : BOOLEAN, flat : Nat, mismatch : Nat]

Routes == {<<"long", "short">>, <<"short", "long">>, <<"long">>, <<"short">>, <<>>}

WorkShape ==
    [todo : Routes, order : Nat, tries : Nat, trigger : Trigger \cup {"none"}, amount : Nat,
     sent : SUBSET Leg, full : SUBSET Leg, failed : SUBSET Leg]

Keys == Leg \X Purpose
JournalShape == [Keys -> Entry]

Leads == {"entry", "entryWait", "entryCancel"}
Opens == Leads \cup {"unwind", "opened"}
Queries == {"query", "escalate", "look", "resend", "settle"}
Rounds == {"exit", "sent", "await"}
Places == {"idle", "persist"} \cup Opens \cup ExitSteps

Typed(os, r, d, j, p, w) ==
    /\ Whole(os)
    /\ r \in Shape /\ d \in Shape /\ w \in WorkShape
    /\ j \in JournalShape
    /\ \A x \in Keys : j[x].state = "after" => j[x].order \in DOMAIN os
    /\ p \in Places

\* While the position is opened nothing is recorded of an exit.
Fresh(r) ==
    /\ r.exit = "none" /\ ~r.active /\ r.closed = 0 /\ r.residual = 0 /\ r.tp1
    /\ \A leg \in Leg : LET l == r.legs[leg]
                        IN  l.status = "none" /\ l.qty = 0 /\ l.order = 0 /\ ~l.resting

\* A journal that is read as it was written knows the last attempt of a leg.
EntryNotes(j, p, w) ==
    p \in Leads =>
      /\ w.tries > 0 => "entry" \in env.limit
      /\ w.todo = <<"long", "short">> => j[<<"short", "entry">>].state # "after"
      /\ LET row == j[<<Head(w.todo), "entry">>]
         IN  IF p = "entry" /\ w.tries = 0
               THEN row.state # "after"
               ELSE /\ row.state = "after" => row.order = w.order
                    /\ "entry" \notin env.forgets => row.state = "after"

Opening(r, j, p, w) ==
    p \in Opens =>
      /\ Fresh(r) /\ w.failed = {} /\ EntryNotes(j, p, w)
      /\ \A t \in Trigger : j[<<"short", t>>].state # "after"
      /\ IF p = "opened" THEN \A leg \in Leg : r.legs[leg].filled = Units
                         ELSE r.legs["short"].filled = 0

\* The short leg is opened when the long one is certain, and by one order at a time.
Leading(os, r, p, w) ==
    p \in Leads =>
      /\ w.todo \in {<<"long", "short">>, <<"short">>}
      /\ w.todo = <<"long", "short">> =>
            \A i \in DOMAIN os : os[i].leg = "long" /\ os[i].part = "entry"
      /\ w.todo = <<"short">> => r.legs["long"].filled = Units
      /\ p # "entry" \/ w.tries > 0 =>
            /\ w.order \in DOMAIN os
            /\ LET o == os[w.order]
               IN  o.qty = Units /\ o.part = "entry" /\ o.leg = Head(w.todo)
            /\ w.todo = <<"short">> => WorstBut(os, w.order) >= Units
      /\ p = "entry" /\ w.tries = 0 /\ w.todo = <<"short">> => Worst(os) >= Units

\* Records from which an order may still be sent
InPlay(r) == r.active \/ r.exit \in {"submitted", "partial"}
Playing(r, p) == InPlay(r) \/ p \in {"positions", "quote"} \cup Rounds

\* Of a leg that has been opened, what no exit has been sent for
OpenOf(r, leg) == LET l == r.legs[leg] IN IF Units >= l.qty THEN Units - l.qty ELSE 0

\* What the record of a position in play says of its exits is so.
LegsSound(os, r) ==
    LET s == r.legs["short"]
        l == r.legs["long"]
    IN  /\ s.filled = Units /\ l.filled = Units /\ r.residual = 0
        /\ \/ s.status = "none" /\ s.qty = 0 /\ s.order = 0
           \/ s.status = "filled" /\ s.order \in DOMAIN os /\ os[s.order].state = "filled"
        /\ \/ l.status = "none" /\ l.qty = 0 /\ l.order = 0
           \/ l.status \in {"submitted", "filled"} /\ l.order \in DOMAIN os
        /\ l.resting => /\ l.order \in DOMAIN os
                        /\ LET o == os[l.order]
                           IN  o.leg = "long" /\ o.part = "exit" /\ o.qty = l.qty
        /\ OpenOf(r, "short") <= Units - r.closed
        /\ r.tp1 \/ ~env.tiered => r.closed = 0
        /\ ~env.tiered => l.status = "none" \/ OpenOf(r, "long") = 0

\* A cover the journal knows has left nothing open that its trigger could close again.
FirstTarget(r, p, w) ==
    env.tiered /\ (~r.tp1 \/ (p \in Rounds /\ w.trigger = "tp1" /\ w.todo # ExitSequence))

JournalSound(r, j, p, w) ==
    \A t \in Trigger :
        j[<<"short", t>>].state = "after" =>
           \/ OpenOf(r, "short") = 0
           \/ p = "await" /\ w.trigger = t /\ Head(w.todo) = "short"
           \/ t = "tp1" /\ FirstTarget(r, p, w)

\* More of the short leg has been covered for certain than may be sold of the long one.
Ahead(r) == OpenOf(r, "long") - OpenOf(r, "short")

Sending == {"sent", "await", "look", "resend"}

Sound(os, r, j, p, w) ==
    Playing(r, p) /\ w.failed = {} =>
      /\ LegsSound(os, r)
      /\ JournalSound(r, j, p, w)
      /\ p \notin Sending => Worst(os) >= Ahead(r)

\* A round of exits: the short leg first, and none after one has failed.
AmountSound(r, w) ==
    /\ ~Partial(w.trigger) => w.amount >= OpenOf(r, "short")
    /\ ~env.tiered => w.amount = Units
    /\ Partial(w.trigger) =>
          /\ r.tp1 /\ w.amount >= 1 /\ w.amount <= Units
          /\ w.todo # ExitSequence => w.amount <= Units - OpenOf(r, "short")

SentOut(os, r, w) ==
    /\ w.order \in DOMAIN os
    /\ LET o == os[w.order]
           open == OpenOf(r, Head(w.todo))
       IN  /\ o.leg = Head(w.todo) /\ o.part = "exit"
           /\ o.qty <= open /\ o.qty <= w.amount /\ (o.qty = open \/ o.qty = w.amount)
           /\ o.limit => o.leg = "long" /\ "exit" \in env.limit
           /\ o.leg = "short" => WorstBut(os, w.order) >= 0
    /\ WorstBut(os, w.order) >= Ahead(r)

Round(os, r, p, w) ==
    p \in Rounds =>
      /\ w.trigger \in Trigger
      /\ w.todo \in {<<"short", "long">>, <<"long">>, <<>>}
      /\ w.failed # {} => w.todo = <<>> \/ (w.todo = <<"long">> /\ "short" \in w.failed)
      /\ p # "exit" => w.failed = {} /\ w.todo # <<>>
      /\ w.failed = {} =>
           /\ AmountSound(r, w)
           /\ p = "exit" /\ w.todo = <<"long">> =>
                 Worst(os) >= OpenOf(r, "long") \/ Worst(os) >= w.amount
           /\ p # "exit" => SentOut(os, r, w)

\* Between cancel and submission of a walk there is room for the order.
Reconciling(os, r, p, w) ==
    p \in Queries =>
      /\ r.exit \in {"submitted", "partial"}
      /\ w.todo \in {<<"long", "short">>, <<"long">>, <<"short">>, <<>>}
      /\ p # "settle" => w.todo # <<>>
      /\ w.todo # <<>> => r.legs[Head(w.todo)].order \in DOMAIN os
      /\ w.todo = <<"long", "short">> => r.legs["short"].order \in DOMAIN os
      /\ w.todo \in {<<"long", "short">>, <<"long">>} => w.failed = {}
      /\ p \in {"escalate", "look", "resend"} =>
            w.todo \in {<<"long", "short">>, <<"long">>} /\ r.legs["long"].resting
      /\ p \in {"look", "resend"} =>
            LET l == r.legs["long"]
            IN  /\ os[l.order].state = "canceled"
                /\ Worst(os) - l.qty >= 0 /\ Worst(os) - l.qty >= Ahead(r)

Ending(r, d, p, w) ==
    /\ r.residual > 0 => ~InPlay(r)
    /\ ~r.legs["short"].resting /\ ~d.legs["short"].resting
    /\ p = "idle" => r = d /\ w = NoWork
    /\ p \notin Rounds \cup Queries \cup {"persist"} => w.failed = {}
    /\ p = "persist" /\ w.failed # {} => ~InPlay(r)
    /\ p = "residual" => ~InPlay(r)

CoverInv(os, r, d, j, p, w) ==
    /\ Typed(os, r, d, j, p, w)
    /\ Opening(r, j, p, w)
    /\ Leading(os, r, p, w)
    /\ Sound(os, r, j, p, w)
    /\ Round(os, r, p, w)
    /\ Reconciling(os, r, p, w)
    /\ Ending(r, d, p, w)
    /\ Worst(os) >= 0

Inv == Covering => env \in Environment /\ CoverInv(orders, copy, rec, journal, pc, work)

-----------------------------------------------------------------------------
(* Orders *)

LEMMA OrderFields ==
  ASSUME NEW o \in OrderShape
  PROVE  /\ o.leg \in Leg /\ o.part \in Part /\ o.limit \in BOOLEAN
         /\ o.qty \in Nat /\ o.qty # 0 /\ o.qty \in Int /\ o.filled \in Nat
         /\ o.state \in {"working", "filled", "canceled", "rejected"}
         /\ Worth(o) \in Int
BY DEF OrderShape, Worth

LEMMA WholeOrders ==
  ASSUME NEW os, Whole(os)
  PROVE  /\ IsFiniteSet(DOMAIN os) /\ DOMAIN os \subseteq Nat \ {0}
         /\ \A i \in DOMAIN os : os[i] \in OrderShape /\ Worth(os[i]) \in Int
         /\ DOMAIN Worths(os) = DOMAIN os
         /\ \A i \in DOMAIN os : Worths(os)[i] = Worth(os[i])
<1>1. os \in Seq(OrderShape) /\ DOMAIN os = 1 .. Len(os) /\ Len(os) \in Nat
  BY DEF Whole
<1>2. IsFiniteSet(DOMAIN os)
  BY <1>1, FS_Interval
<1>3. \A i \in DOMAIN os : os[i] \in OrderShape
  BY <1>1
<1>. QED
  BY <1>1, <1>2, <1>3, OrderFields DEF Worths

LEMMA WorstType ==
  ASSUME NEW os, Whole(os)
  PROVE  /\ Worst(os) \in Int
         /\ \A i \in DOMAIN os : /\ WorstBut(os, i) \in Int /\ Worth(os[i]) \in Int
                                 /\ Worst(os) = Worth(os[i]) + WorstBut(os, i)
<1> DEFINE f == Worths(os)
<1> DEFINE D == DOMAIN os
<1>1. IsFiniteSet(D) /\ \A i \in D : f[i] \in Int /\ f[i] = Worth(os[i])
  BY WholeOrders
<1>2. Worst(os) = SumOf(f, D) /\ \A i \in D : WorstBut(os, i) = SumOf(f, D \ {i})
  BY DEF Worst, WorstBut
<1> HIDE DEF f, D
<1>3. SumOf(f, D) \in Int
  BY <1>1, SumType
<1>4. ASSUME NEW i \in D
      PROVE  SumOf(f, D \ {i}) \in Int /\ SumOf(f, D) = f[i] + SumOf(f, D \ {i})
  <2>1. IsFiniteSet(D \ {i}) /\ \A x \in D \ {i} : f[x] \in Int
    BY <1>1, FS_RemoveElement
  <2>2. SumOf(f, D \ {i}) \in Int
    BY <2>1, SumType
  <2>3. SumOf(f, D) = f[i] + SumOf(f, D \ {i})
    BY <1>1, SumWithout
  <2>. QED
    BY <2>2, <2>3
<1>5. Worst(os) \in Int
  BY <1>2, <1>3
<1>6. \A i \in D : /\ WorstBut(os, i) \in Int /\ Worth(os[i]) \in Int
                   /\ Worst(os) = Worth(os[i]) + WorstBut(os, i)
  BY <1>1, <1>2, <1>4
<1>. QED
  BY <1>5, <1>6 DEF D

\* Larger summands give a larger sum, of whatever sign they are.
LEMMA SumRises ==
  ASSUME NEW f, NEW e, NEW S, IsFiniteSet(S),
         \A x \in S : f[x] \in Int /\ e[x] \in Int /\ e[x] >= f[x]
  PROVE  SumOf(e, S) >= SumOf(f, S)
<1> DEFINE d == [x \in S |-> e[x] - f[x]]
<1>1. \A x \in S : d[x] \in Nat /\ d[x] \in Int /\ e[x] = f[x] + d[x]
  OBVIOUS
<1> HIDE DEF d
<1>2. SumOf(e, S) = SumOf(f, S) + SumOf(d, S)
  BY <1>1, SumAdds
<1>3. SumOf(d, S) \in Nat
  BY <1>1, SumType
<1>4. SumOf(f, S) \in Int
  BY SumType
<1>. QED
  BY <1>2, <1>3, <1>4

LEMMA FollowsRises ==
  ASSUME NEW os, NEW qs, Whole(os), Whole(qs), Follows(os, qs)
  PROVE  /\ Worst(qs) >= Worst(os)
         /\ \A i \in DOMAIN os : WorstBut(qs, i) >= WorstBut(os, i)
<1> DEFINE f == Worths(os)
<1> DEFINE e == Worths(qs)
<1> DEFINE D == DOMAIN os
<1>1. /\ IsFiniteSet(D) /\ DOMAIN qs = D
      /\ \A i \in D : f[i] \in Int /\ e[i] \in Int /\ e[i] >= f[i]
  BY WholeOrders DEF Follows
<1>2. /\ Worst(os) = SumOf(f, D) /\ \A i \in D : WorstBut(os, i) = SumOf(f, D \ {i})
      /\ Worst(qs) = SumOf(e, D) /\ \A i \in D : WorstBut(qs, i) = SumOf(e, D \ {i})
  BY <1>1 DEF Worst, WorstBut
<1> HIDE DEF f, e
<1>3. SumOf(e, D) >= SumOf(f, D)
  BY <1>1, SumRises
<1>4. ASSUME NEW i \in D PROVE SumOf(e, D \ {i}) >= SumOf(f, D \ {i})
  <2> DEFINE R == D \ {i}
  <2>1. IsFiniteSet(R) /\ \A x \in R : f[x] \in Int /\ e[x] \in Int /\ e[x] >= f[x]
    BY <1>1, FS_RemoveElement
  <2> HIDE DEF R
  <2>2. SumOf(e, R) >= SumOf(f, R)
    BY <2>1, SumRises
  <2>. QED
    BY <2>2 DEF R
<1>. QED
  BY <1>2, <1>3, <1>4

LEMMA KeepsSame == ASSUME NEW os PROVE Keeps(os, os)
BY DEF Keeps

\* An order is sent: nothing else changes.
Costs(leg, part, qty) == IF (leg = "long") = (part = "entry") THEN 0 ELSE qty

IsSent(os, qs, leg, part, limit, qty) ==
    LET n == Len(os) + 1
    IN  /\ Whole(qs) /\ Keeps(os, qs)
        /\ n \in DOMAIN qs /\ n \in Nat /\ n # 0 /\ n \notin DOMAIN os
        /\ DOMAIN qs = DOMAIN os \cup {n}
        /\ \A i \in DOMAIN os : qs[i] = os[i]
        /\ qs[n].leg = leg /\ qs[n].part = part /\ qs[n].limit = limit /\ qs[n].qty = qty
        /\ qs[n].filled = 0 /\ qs[n].state = "working"
        /\ WorstBut(qs, n) = Worst(os)
        /\ Worst(qs) = Worst(os) - Costs(leg, part, qty)

LEMMA SentIsAdded ==
  ASSUME NEW os, Whole(os), NEW leg \in Leg, NEW part \in Part, NEW limit \in BOOLEAN,
         NEW qty \in Nat \ {0}, NEW qs,
         qs = Append(os, [leg |-> leg, part |-> part, limit |-> limit, qty |-> qty,
                          filled |-> 0, state |-> "working"])
  PROVE  IsSent(os, qs, leg, part, limit, qty)
<1> DEFINE n == Len(os) + 1
<1> DEFINE o == [leg |-> leg, part |-> part, limit |-> limit, qty |-> qty, filled |-> 0,
                 state |-> "working"]
<1>1. o \in OrderShape
  BY DEF OrderShape
<1>2. /\ o.leg = leg /\ o.part = part /\ o.limit = limit /\ o.qty = qty /\ o.filled = 0
      /\ o.state = "working"
  OBVIOUS
<1>3. qs = Append(os, o) /\ os \in Seq(OrderShape)
  BY DEF Whole
<1> HIDE DEF o
<1>4. /\ qs \in Seq(OrderShape) /\ n \in Nat /\ n # 0 /\ n \notin DOMAIN os
      /\ DOMAIN qs = DOMAIN os \cup {n}
      /\ \A i \in DOMAIN os : qs[i] = os[i]
      /\ qs[n] = o
  BY <1>1, <1>3
<1>5. Whole(qs)
  BY <1>2, <1>4 DEF Whole
<1>6. Keeps(os, qs)
  BY <1>4 DEF Keeps
<1> DEFINE f == Worths(os)
<1> DEFINE e == Worths(qs)
<1> DEFINE D == DOMAIN os
<1>7. IsFiniteSet(D) /\ n \in DOMAIN qs /\ DOMAIN qs \ {n} = D /\ \A i \in D : e[i] = f[i]
  BY <1>4, <1>5, WholeOrders
<1>8. WorstBut(qs, n) = Worst(os)
  <2> HIDE DEF e, f
  <2>1. SumOf(e, D) = SumOf(f, D)
    BY <1>7, SumSame
  <2>. QED
    BY <1>7, <2>1 DEF Worst, WorstBut, e, f
<1>9. Worst(qs) = Worth(o) + Worst(os) /\ Worst(os) \in Int
  BY <1>4, <1>5, <1>7, <1>8, WorstType
<1>10. Worth(o) = IF (leg = "long") = (part = "entry") THEN 0 ELSE -qty
  BY <1>2 DEF Worth, Buys, Live
<1>11. Worst(qs) = Worst(os) - (IF (leg = "long") = (part = "entry") THEN 0 ELSE qty)
  <2> DEFINE v == Worst(os)
  <2> DEFINE u == Worst(qs)
  <2>1. v \in Int /\ u = Worth(o) + v
    BY <1>9
  <2> HIDE DEF u, v
  <2>2. u = v - (IF (leg = "long") = (part = "entry") THEN 0 ELSE qty)
    BY <1>10, <2>1
  <2>. QED
    BY <2>2 DEF u, v
<1>12. Worst(qs) = Worst(os) - Costs(leg, part, qty)
  BY <1>11 DEF Costs
<1>. QED
  BY <1>2, <1>4, <1>5, <1>6, <1>7, <1>8, <1>12 DEF IsSent

\* One order changes, as the broker may change it.
LEMMA OneFollows ==
  ASSUME NEW os, Whole(os), NEW i \in DOMAIN os, os[i].state = "working", NEW o \in OrderShape,
         o.leg = os[i].leg, o.part = os[i].part, o.limit = os[i].limit, o.qty = os[i].qty,
         o.filled = IF o.state = "filled" THEN o.qty ELSE 0, NEW qs,
         qs = [os EXCEPT ![i] = o]
  PROVE  Whole(qs) /\ Follows(os, qs) /\ qs[i] = o
<1>1. /\ qs \in Seq(OrderShape) /\ DOMAIN qs = DOMAIN os /\ qs[i] = o
      /\ \A k \in DOMAIN os : k # i => qs[k] = os[k]
  BY DEF Whole
<1>2. Whole(qs)
  BY <1>1 DEF Whole
<1>3. Keeps(os, qs)
  BY <1>1 DEF Keeps
<1>4. Worth(o) >= Worth(os[i])
  <2>1. /\ os[i] \in OrderShape /\ os[i].filled = 0 /\ os[i].qty \in Nat /\ o.qty \in Nat
    BY OrderFields DEF Whole
  <2>. QED
    BY <2>1 DEF Worth, Buys, Live
<1>5. \A k \in DOMAIN os : Worth(qs[k]) >= Worth(os[k])
  <2>1. \A k \in DOMAIN os : Worth(os[k]) \in Int
    BY WholeOrders
  <2>. QED
    BY <1>1, <1>4, <2>1
<1>. QED
  BY <1>1, <1>2, <1>3, <1>5 DEF Follows

LEMMA BrokerFollows ==
  ASSUME Whole(orders), Covering, Broker
  PROVE  /\ Whole(orders') /\ Follows(orders, orders')
         /\ UNCHANGED <<env, journal, rec, copy, pc, work, faults, spent>>
<1>1. ~UserCloses
  BY DEF UserCloses, Covering, Tame, TameExit
<1>2. PICK i \in DOMAIN orders : Fills(i) \/ IsRejected(i) \/ CancelTakesEffect(i)
  BY <1>1 DEF Broker
<1> DEFINE o == orders[i]
<1>3. o \in OrderShape /\ o.filled = IF o.state = "filled" THEN o.qty ELSE 0
  BY DEF Whole
<1>4. o.qty \in Nat /\ o.state \in {"working", "filled", "canceled", "rejected"} /\ o.qty # 0
  BY <1>3, OrderFields
<1>5. CASE Fills(i)
  <2>1. o.state = "working" /\ o.filled = 0
    BY <1>3, <1>4, <1>5 DEF Fills, Alive
  <2>2. PICK k \in Amounts(o) :
          orders' = [orders EXCEPT ![i].filled = @ + k,
                        ![i].state = IF o.filled + k = o.qty THEN "filled" ELSE @]
    BY <1>5 DEF Fills
  <2>3. k = o.qty
    BY <1>4, <2>1, <2>2 DEF Amounts, Covering, Tame
  <2> DEFINE q == [o EXCEPT !.filled = o.qty, !.state = "filled"]
  <2>4. orders' = [orders EXCEPT ![i] = q]
    <3>1. o.filled + k = o.qty
      BY <1>4, <2>1, <2>3
    <3>. QED
      BY <1>3, <2>2, <3>1 DEF OrderShape, Whole
  <2>5. /\ q \in OrderShape /\ q.leg = o.leg /\ q.part = o.part /\ q.limit = o.limit
        /\ q.qty = o.qty /\ q.filled = o.qty /\ q.state = "filled"
    BY <1>3 DEF OrderShape
  <2> HIDE DEF q
  <2>6. Whole(orders') /\ Follows(orders, orders')
    BY <2>1, <2>4, <2>5, OneFollows
  <2>. QED
    BY <1>5, <2>6 DEF Fills
<1>6. CASE IsRejected(i)
  <2>1. o.state = "working" /\ o.filled = 0
    BY <1>3, <1>6 DEF IsRejected
  <2> DEFINE q == [o EXCEPT !.state = "rejected"]
  <2>2. orders' = [orders EXCEPT ![i] = q]
    BY <1>3, <1>6, <2>1 DEF IsRejected, OrderShape, Whole
  <2>3. /\ q \in OrderShape /\ q.leg = o.leg /\ q.part = o.part /\ q.limit = o.limit
        /\ q.qty = o.qty /\ q.filled = 0 /\ q.state = "rejected"
    BY <1>3, <2>1 DEF OrderShape
  <2> HIDE DEF q
  <2>4. Whole(orders') /\ Follows(orders, orders')
    BY <2>1, <2>2, <2>3, OneFollows
  <2>. QED
    BY <1>6, <2>4 DEF IsRejected
<1>7. CASE CancelTakesEffect(i)
  BY <1>4, <1>7 DEF CancelTakesEffect
<1>. QED
  BY <1>2, <1>5, <1>6, <1>7

\* A cancel takes an order that is at work away, at once.
LEMMA CancelFollows ==
  ASSUME Whole(orders), Covering, NEW i \in DOMAIN orders, orders' = Cancel({i})
  PROVE  /\ Whole(orders') /\ Follows(orders, orders')
         /\ Cancelable(i) => /\ orders'[i].state = "canceled"
                             /\ Worst(orders') = Worst(orders) - Worth(orders[i])
<1> DEFINE o == orders[i]
<1>0. o \in OrderShape /\ o.filled = (IF o.state = "filled" THEN o.qty ELSE 0) /\ DOMAIN orders' = DOMAIN orders
  BY DEF Whole, Cancel
<1>1. CASE ~Cancelable(i)
  <2>1. orders' = orders
    BY <1>1 DEF Cancel, Whole
  <2>2. Follows(orders, orders)
    <3>1. \A k \in DOMAIN orders : Worth(orders[k]) \in Int
      BY WholeOrders
    <3>. QED
      BY <3>1 DEF Follows, Keeps
  <2>. QED
    BY <1>1, <2>1, <2>2
<1>2. CASE Cancelable(i)
  <2>1. o.state = "working" /\ o.filled = 0
    BY <1>0, <1>2 DEF Cancelable
  <2> DEFINE q == [o EXCEPT !.state = "canceled"]
  <2>2. orders' = [orders EXCEPT ![i] = q]
    <3>1. "canceled" = IF o.part \in env.late THEN "canceling" ELSE "canceled"
      BY <1>0, OrderFields DEF Covering, Tame, TameExit
    <3>. QED
      BY <1>2, <3>1 DEF Cancel, Whole
  <2>3. /\ q \in OrderShape /\ q.leg = o.leg /\ q.part = o.part /\ q.limit = o.limit
        /\ q.qty = o.qty /\ q.filled = 0 /\ q.state = "canceled"
    BY <1>0, <2>1 DEF OrderShape
  <2> HIDE DEF q
  <2> DEFINE os == orders'
  <2>4. Whole(os) /\ Follows(orders, os) /\ os[i] = q
    <3>1. orders[i].state = "working" /\ os = [orders EXCEPT ![i] = q]
      BY <2>1, <2>2
    <3>2. q.filled = IF q.state = "filled" THEN q.qty ELSE 0
      BY <2>3
    <3> HIDE DEF os
    <3>. QED
      BY <2>3, <3>1, <3>2, OneFollows
  <2>5. Worth(q) = 0
    BY <2>3 DEF Worth, Live
  <2>6. WorstBut(orders', i) = WorstBut(orders, i)
    <3> DEFINE f == Worths(orders)
    <3> DEFINE e == Worths(orders')
    <3> DEFINE R == DOMAIN orders \ {i}
    <3>1. IsFiniteSet(R) /\ \A x \in R : e[x] = f[x]
      <4>1. \A x \in R : orders'[x] = orders[x] /\ x \in DOMAIN orders /\ x \in DOMAIN orders'
        BY <1>0, <2>2
      <4>2. \A x \in R : e[x] = f[x]
        BY <2>4, <4>1, WholeOrders
      <4>3. IsFiniteSet(R)
        BY WholeOrders, FS_RemoveElement
      <4>. QED
        BY <4>2, <4>3
    <3> HIDE DEF e, f, R
    <3>2. SumOf(e, R) = SumOf(f, R)
      BY <3>1, SumSame
    <3>. QED
      BY <1>0, <3>2 DEF WorstBut, e, f, R
  <2> DEFINE u == Worst(orders')
  <2> DEFINE v == Worst(orders)
  <2> DEFINE b == WorstBut(orders, i)
  <2> DEFINE x == Worth(orders[i])
  <2>7. u = 0 + b /\ v = x + b /\ b \in Int /\ x \in Int
    BY <1>0, <2>4, <2>5, <2>6, WorstType
  <2> HIDE DEF u, v, b, x
  <2>8. u = v - x
    BY <2>7
  <2>. QED
    BY <2>3, <2>4, <2>8 DEF u, v, x
<1>. QED
  BY <1>1, <1>2

\* What is held of the bought leg beyond the sold one is no less than that.
LEMMA HeldIsWorst ==
  ASSUME Whole(orders)
  PROVE  /\ Held("long") \in Int /\ Held("short") \in Int
         /\ Held("long") - Held("short") >= Worst(orders)
<1> DEFINE D == DOMAIN orders
<1> DEFINE long == [i \in D |-> IF orders[i].leg = "long" THEN Bought(orders[i]) ELSE 0]
<1> DEFINE short == [i \in D |-> IF orders[i].leg = "short" THEN Bought(orders[i]) ELSE 0]
<1> DEFINE worth == Worths(orders)
<1> DEFINE over == [i \in D |-> long[i] - short[i]]
<1>1. Held("long") = SumOf(long, D)
  BY ZenonT(40) DEF Held, Sum, FoldSeq, FoldFunction, FoldFunctionOnSet, SumOf, MapThenSumSet, MapThenFoldSet
<1>2. Held("short") = SumOf(short, D)
  BY ZenonT(40) DEF Held, Sum, FoldSeq, FoldFunction, FoldFunctionOnSet, SumOf, MapThenSumSet, MapThenFoldSet
<1>3. IsFiniteSet(D) /\ Worst(orders) = SumOf(worth, D)
  BY WholeOrders DEF Worst
<1>4. ASSUME NEW i \in D
      PROVE  /\ long[i] \in Int /\ short[i] \in Int /\ over[i] \in Int /\ worth[i] \in Int
             /\ long[i] = over[i] + short[i] /\ over[i] >= worth[i]
  <2> DEFINE o == orders[i]
  <2>1. /\ o.leg \in {"long", "short"} /\ o.part \in {"entry", "exit"} /\ o.qty \in Nat /\ o.filled \in Nat
        /\ o.state \in {"working", "filled", "canceled", "rejected"}
        /\ o.filled = IF o.state = "filled" THEN o.qty ELSE 0
    BY WholeOrders, OrderFields DEF Whole, Leg, Part
  <2>2. worth[i] = Worth(o)
    BY WholeOrders
  <2>3. /\ long[i] = IF o.leg = "long" THEN Bought(o) ELSE 0
        /\ short[i] = IF o.leg = "short" THEN Bought(o) ELSE 0
        /\ over[i] = long[i] - short[i]
    OBVIOUS
  <2>4. Bought(o) = IF o.part = "entry" THEN o.filled ELSE -o.filled
    BY DEF Bought
  <2>5. Worth(o) = IF (o.leg = "long") = (o.part = "entry") THEN o.filled
                   ELSE IF o.state \in {"working", "filled"} THEN -o.qty ELSE 0
    BY DEF Worth, Buys, Live
  <2> HIDE DEF o, long, short, over, worth
  <2>. QED
    BY <2>1, <2>2, <2>3, <2>4, <2>5
<1> HIDE DEF D, long, short, worth, over
<1>5. SumOf(long, D) = SumOf(over, D) + SumOf(short, D)
  BY <1>3, <1>4, SumAdds
<1>6. SumOf(over, D) >= SumOf(worth, D)
  BY <1>3, <1>4, SumRises
<1>7. SumOf(long, D) \in Int
  BY <1>3, <1>4, SumType
<1>8. SumOf(short, D) \in Int
  BY <1>3, <1>4, SumType
<1>9. SumOf(over, D) \in Int /\ SumOf(worth, D) \in Int
  <2>1. SumOf(over, D) \in Int
    BY <1>3, <1>4, SumType
  <2>2. SumOf(worth, D) \in Int
    BY <1>3, <1>4, SumType
  <2>. QED
    BY <2>1, <2>2
<1>. QED
  BY <1>1, <1>2, <1>3, <1>5, <1>6, <1>7, <1>8, <1>9

LEMMA CoverIsNeverNaked == Inv => (Covering => Held("short") <= Held("long"))
<1> SUFFICES ASSUME Inv, Covering PROVE Held("short") <= Held("long")
  OBVIOUS
<1>1. Whole(orders) /\ Worst(orders) >= 0
  BY DEF Inv, CoverInv, Typed
<1>2. Worst(orders) \in Int
  BY <1>1, WorstType
<1>. QED
  BY <1>1, <1>2, HeldIsWorst

-----------------------------------------------------------------------------
(* What has to be shown of a step, by the place it goes to *)

LEMMA ToPersist ==
  ASSUME NEW os, NEW r, NEW d, NEW j, NEW w, Typed(os, r, d, j, "persist", w), Worst(os) >= 0,
         ~r.legs["short"].resting, ~d.legs["short"].resting,
         InPlay(r) => /\ w.failed = {} /\ LegsSound(os, r) /\ JournalSound(r, j, "persist", w)
                      /\ Worst(os) >= Ahead(r)
  PROVE  CoverInv(os, r, d, j, "persist", w)
<1>1. /\ "persist" \notin Opens \cup Leads \cup Rounds \cup Queries \cup Sending
      /\ "persist" \notin {"positions", "quote", "residual", "idle"}
  BY DEF Opens, Leads, Rounds, Queries, Sending
<1>2. Opening(r, j, "persist", w) /\ Leading(os, r, "persist", w)
  BY <1>1 DEF Opening, Leading
<1>3. Sound(os, r, j, "persist", w)
  BY <1>1 DEF Sound, Playing
<1>4. Round(os, r, "persist", w) /\ Reconciling(os, r, "persist", w)
  BY <1>1 DEF Round, Reconciling
<1>5. r.residual > 0 => ~InPlay(r)
  <2>1. InPlay(r) => r.residual = 0
    BY DEF LegsSound
  <2>. QED
    BY <2>1
<1>6. Ending(r, d, "persist", w)
  BY <1>1, <1>5 DEF Ending
<1>. QED
  BY <1>2, <1>3, <1>4, <1>6 DEF CoverInv

LEMMA ToWatch ==
  ASSUME NEW os, NEW r, NEW d, NEW j, NEW w, NEW p \in {"positions", "quote"},
         Typed(os, r, d, j, p, w), Worst(os) >= 0,
         ~r.legs["short"].resting, ~d.legs["short"].resting, w.failed = {},
         LegsSound(os, r), JournalSound(r, j, p, w), Worst(os) >= Ahead(r)
  PROVE  CoverInv(os, r, d, j, p, w)
<1>1. /\ p \notin Opens \cup Leads \cup Rounds \cup Queries \cup Sending
      /\ p \notin {"residual", "idle", "persist"}
  BY DEF Opens, Leads, Rounds, Queries, Sending
<1>2. Opening(r, j, p, w) /\ Leading(os, r, p, w)
  BY <1>1 DEF Opening, Leading
<1>3. Sound(os, r, j, p, w)
  BY <1>1 DEF Sound
<1>4. Round(os, r, p, w) /\ Reconciling(os, r, p, w)
  BY <1>1 DEF Round, Reconciling
<1>5. Ending(r, d, p, w)
  <2>1. r.residual = 0
    BY DEF LegsSound
  <2>. QED
    BY <1>1, <2>1 DEF Ending
<1>. QED
  BY <1>2, <1>3, <1>4, <1>5 DEF CoverInv

LEMMA ToRound ==
  ASSUME NEW os, NEW r, NEW d, NEW j, NEW w, NEW p \in Rounds,
         Typed(os, r, d, j, p, w), Worst(os) >= 0,
         ~r.legs["short"].resting, ~d.legs["short"].resting,
         Round(os, r, p, w), r.residual > 0 => ~InPlay(r),
         w.failed = {} => LegsSound(os, r) /\ JournalSound(r, j, p, w),
         w.failed = {} /\ p = "exit" => Worst(os) >= Ahead(r)
  PROVE  CoverInv(os, r, d, j, p, w)
<1>1. /\ p \notin Opens \cup Leads \cup Queries /\ (p \notin Sending => p = "exit")
      /\ p \notin {"residual", "idle", "persist"}
  BY DEF Opens, Leads, Rounds, Queries, Sending
<1>2. Opening(r, j, p, w) /\ Leading(os, r, p, w)
  BY <1>1 DEF Opening, Leading
<1>3. Sound(os, r, j, p, w)
  BY <1>1 DEF Sound
<1>4. Reconciling(os, r, p, w)
  BY <1>1 DEF Reconciling
<1>5. Ending(r, d, p, w)
  BY <1>1 DEF Ending
<1>. QED
  BY <1>2, <1>3, <1>4, <1>5 DEF CoverInv

LEMMA ToQuery ==
  ASSUME NEW os, NEW r, NEW d, NEW j, NEW w, NEW p \in Queries,
         Typed(os, r, d, j, p, w), Worst(os) >= 0,
         ~r.legs["short"].resting, ~d.legs["short"].resting,
         Reconciling(os, r, p, w), r.residual > 0 => ~InPlay(r),
         w.failed = {} => LegsSound(os, r) /\ JournalSound(r, j, p, w),
         w.failed = {} /\ p \notin Sending => Worst(os) >= Ahead(r)
  PROVE  CoverInv(os, r, d, j, p, w)
<1>1. /\ p \notin Opens \cup Leads \cup Rounds
      /\ p \notin {"residual", "idle", "persist"}
  BY DEF Opens, Leads, Rounds, Queries
<1>2. Opening(r, j, p, w) /\ Leading(os, r, p, w)
  BY <1>1 DEF Opening, Leading
<1>3. Sound(os, r, j, p, w)
  BY <1>1 DEF Sound
<1>4. Round(os, r, p, w)
  BY <1>1 DEF Round
<1>5. Ending(r, d, p, w)
  BY <1>1 DEF Ending
<1>. QED
  BY <1>2, <1>3, <1>4, <1>5 DEF CoverInv

LEMMA ToOpen ==
  ASSUME NEW os, NEW r, NEW d, NEW j, NEW w, NEW p \in Opens,
         Typed(os, r, d, j, p, w), Worst(os) >= 0, ~d.legs["short"].resting,
         Opening(r, j, p, w), Leading(os, r, p, w)
  PROVE  CoverInv(os, r, d, j, p, w)
<1>1. /\ p \notin Rounds \cup Queries
      /\ p \notin {"residual", "idle", "persist", "positions", "quote"}
  BY DEF Opens, Leads, Rounds, Queries
<1>2. Fresh(r) /\ w.failed = {}
  BY DEF Opening
<1>3. ~InPlay(r) /\ ~r.legs["short"].resting
  BY <1>2 DEF Fresh, InPlay, Leg
<1>4. Sound(os, r, j, p, w)
  BY <1>1, <1>3 DEF Sound, Playing
<1>5. Round(os, r, p, w) /\ Reconciling(os, r, p, w)
  BY <1>1 DEF Round, Reconciling
<1>6. Ending(r, d, p, w)
  BY <1>1, <1>2, <1>3 DEF Ending
<1>. QED
  BY <1>4, <1>5, <1>6 DEF CoverInv

\* What the invariant says of a record in play
LEMMA FromPlay ==
  ASSUME NEW os, NEW r, NEW d, NEW j, NEW p, NEW w, CoverInv(os, r, d, j, p, w),
         Playing(r, p), w.failed = {}
  PROVE  /\ LegsSound(os, r) /\ JournalSound(r, j, p, w)
         /\ p \notin Sending => Worst(os) >= Ahead(r)
BY DEF CoverInv, Sound

-----------------------------------------------------------------------------
(* Records *)

LEMMA ShapeFields ==
  ASSUME NEW r \in Shape
  PROVE  /\ r.legs \in [Leg -> LegShape] /\ DOMAIN r.legs = Leg
         /\ r.legs["short"] \in LegShape /\ r.legs["long"] \in LegShape
         /\ \A leg \in Leg : r.legs[leg] \in LegShape
         /\ r.exit \in {"none", "submitted", "partial", "filled", "nothing", "residual", "combo"}
         /\ r.active \in BOOLEAN /\ r.residual \in Nat /\ r.told \in BOOLEAN /\ r.closed \in Nat
         /\ r.pending \in Trigger \cup {"none"} /\ r.smart \in BOOLEAN /\ r.tp1 \in BOOLEAN
         /\ r.flat \in Nat /\ r.mismatch \in Nat
BY DEF Shape, Leg

LEMMA LegFields ==
  ASSUME NEW l \in LegShape
  PROVE  /\ l.filled \in Nat /\ l.entry \in Nat /\ l.qty \in Nat /\ l.done \in Nat /\ l.order \in Nat
         /\ l.status \in {"none", "submitted", "filled", "failed", "deferred"}
         /\ l.resting \in BOOLEAN /\ l.cycle \in Nat
BY DEF LegShape

LEMMA WorkFields ==
  ASSUME NEW w \in WorkShape
  PROVE  /\ w.todo \in Routes /\ w.order \in Nat /\ w.tries \in Nat /\ w.amount \in Nat
         /\ w.trigger \in Trigger \cup {"none"}
         /\ w.sent \in SUBSET Leg /\ w.full \in SUBSET Leg /\ w.failed \in SUBSET Leg
BY DEF WorkShape

\* One leg of a record changes.
LegSet(r, leg, l) == [r EXCEPT !.legs[leg] = l]

LEMMA LegChanges ==
  ASSUME NEW r \in Shape, NEW leg \in Leg, NEW l \in LegShape, NEW q,
         q = LegSet(r, leg, l)
  PROVE  /\ q \in Shape /\ q.legs[leg] = l /\ \A k \in Leg : k # leg => q.legs[k] = r.legs[k]
         /\ q.exit = r.exit /\ q.active = r.active /\ q.residual = r.residual /\ q.told = r.told
         /\ q.closed = r.closed /\ q.tp1 = r.tp1 /\ q.pending = r.pending /\ q.smart = r.smart
         /\ InPlay(q) = InPlay(r)
<1> DEFINE m == [r.legs EXCEPT ![leg] = l]
<1>1. r.legs \in [Leg -> LegShape]
  BY ShapeFields
<1>2. m \in [Leg -> LegShape] /\ m[leg] = l /\ \A k \in Leg : k # leg => m[k] = r.legs[k]
  BY <1>1
<1>3. q = [r EXCEPT !.legs = m]
  BY DEF Shape, LegSet
<1> HIDE DEF m
<1>4. /\ q \in Shape /\ q.legs = m
      /\ q.exit = r.exit /\ q.active = r.active /\ q.residual = r.residual /\ q.told = r.told
      /\ q.closed = r.closed /\ q.tp1 = r.tp1 /\ q.pending = r.pending /\ q.smart = r.smart
  BY <1>2, <1>3 DEF Shape
<1>. QED
  BY <1>2, <1>4 DEF InPlay

LEMMA Going ==
  /\ Head(<<"long", "short">>) = "long" /\ Tail(<<"long", "short">>) = <<"short">>
  /\ Head(<<"short", "long">>) = "short" /\ Tail(<<"short", "long">>) = <<"long">>
  /\ Head(<<"long">>) = "long" /\ Tail(<<"long">>) = <<>>
  /\ Head(<<"short">>) = "short" /\ Tail(<<"short">>) = <<>>
  /\ Len(<<"long", "short">>) = 2 /\ Len(<<"short", "long">>) = 2
  /\ Len(<<"long">>) = 1 /\ Len(<<"short">>) = 1 /\ Len(<<>>) = 0
  /\ <<"long", "short">> # <<"long">> /\ <<"long", "short">> # <<"short">>
  /\ <<"long", "short">> # <<>> /\ <<"long">> # <<>> /\ <<"short">> # <<>> /\ <<"long">> # <<"short">>
  /\ <<"short", "long">> # <<"long">> /\ <<"short", "long">> # <<"short">>
  /\ <<"short", "long">> # <<>> /\ <<"short", "long">> # <<"long", "short">>
OBVIOUS

\* What is open of a leg, for a record in play
LEMMA OpenIs ==
  ASSUME NEW os, NEW r \in Shape, LegsSound(os, r)
  PROVE  \A leg \in Leg : /\ OpenQuantity(r, leg) = OpenOf(r, leg)
                          /\ OpenOf(r, leg) \in Nat /\ OpenOf(r, leg) <= Units
<1> SUFFICES ASSUME NEW leg \in Leg
             PROVE  /\ OpenQuantity(r, leg) = OpenOf(r, leg)
                    /\ OpenOf(r, leg) \in Nat /\ OpenOf(r, leg) <= Units
  OBVIOUS
<1> DEFINE l == r.legs[leg]
<1>1. l \in LegShape /\ Units \in Nat
  BY ShapeFields, StrategyAssumption
<1>2. l.qty \in Nat /\ l.filled = Units
      /\ ((l.status = "none" /\ l.qty = 0) \/ l.status \in {"submitted", "filled"})
  BY <1>1, LegFields DEF LegsSound, Leg
<1> DEFINE n == IF l.status \in {"submitted", "filled"} THEN l.qty ELSE 0
<1>3. n = l.qty
  BY <1>2
<1>4. OpenQuantity(r, leg) = Max({0, Units - n})
  BY <1>2 DEF OpenQuantity
<1>5. OpenOf(r, leg) = IF Units >= l.qty THEN Units - l.qty ELSE 0
  BY DEF OpenOf
<1> HIDE DEF l, n
<1>6. Max({0, Units - n}) = IF 0 >= Units - n THEN 0 ELSE Units - n
  BY <1>1, <1>2, <1>3, MaxOfTwo
<1>. QED
  BY <1>1, <1>2, <1>3, <1>4, <1>5, <1>6

LEMMA AheadType ==
  ASSUME NEW os, NEW r \in Shape, LegsSound(os, r)
  PROVE  Ahead(r) \in Int /\ Ahead(r) = OpenOf(r, "long") - OpenOf(r, "short")
BY OpenIs DEF Ahead, Leg

\* Orders that are kept keep a record sound.
LEMMA SoundCarries ==
  ASSUME NEW os, NEW qs, Keeps(os, qs), NEW r, LegsSound(os, r)
  PROVE  LegsSound(qs, r)
BY DEF Keeps, LegsSound

\* What is said of a record, only of its legs and of what it shows of the exit
SameCore(r, q) ==
    /\ q.legs = r.legs /\ q.exit = r.exit /\ q.active = r.active
    /\ q.residual = r.residual /\ q.closed = r.closed

LEMMA CoreSound ==
  ASSUME NEW os, NEW r, NEW q, SameCore(r, q), q.tp1 => r.tp1, LegsSound(os, r)
  PROVE  LegsSound(os, q) /\ Ahead(q) = Ahead(r) /\ \A leg : OpenOf(q, leg) = OpenOf(r, leg)
BY DEF SameCore, LegsSound, OpenOf, Ahead

-----------------------------------------------------------------------------
(* The broker decides orders: what was certain still is. *)

LEMMA RoundOpen ==
  ASSUME NEW os, NEW r, NEW d, NEW j, NEW p, NEW w, CoverInv(os, r, d, j, p, w),
         p \in Rounds, w.failed = {}
  PROVE  /\ LegsSound(os, r) /\ Ahead(r) \in Int /\ w.amount \in Nat
         /\ \A leg \in Leg : OpenOf(r, leg) \in Nat
<1>1. Playing(r, p)
  BY DEF Playing
<1>2. LegsSound(os, r) /\ r \in Shape /\ w \in WorkShape
  BY <1>1, FromPlay DEF CoverInv, Typed
<1>. QED
  BY <1>2, OpenIs, AheadType, WorkFields

LEMMA QueryAhead ==
  ASSUME NEW os, NEW r, NEW d, NEW j, NEW p, NEW w, CoverInv(os, r, d, j, p, w),
         p \in Queries, w.failed = {}
  PROVE  LegsSound(os, r) /\ Ahead(r) \in Int
<1>1. Playing(r, p)
  BY DEF Playing, InPlay, CoverInv, Reconciling
<1>2. LegsSound(os, r) /\ r \in Shape
  BY <1>1, FromPlay DEF CoverInv, Typed
<1>. QED
  BY <1>2, AheadType

LEMMA FollowsCovers ==
  ASSUME NEW os, NEW qs, NEW r, NEW d, NEW j, NEW p, NEW w, CoverInv(os, r, d, j, p, w),
         Whole(qs), Follows(os, qs)
  PROVE  CoverInv(qs, r, d, j, p, w)
<1>1. /\ Whole(os) /\ Keeps(os, qs) /\ DOMAIN qs = DOMAIN os
      /\ r \in Shape /\ w \in WorkShape
  BY DEF CoverInv, Typed, Follows
<1>2. /\ Worst(os) \in Int /\ Worst(qs) \in Int /\ Worst(qs) >= Worst(os)
      /\ \A i \in DOMAIN os : /\ WorstBut(os, i) \in Int /\ WorstBut(qs, i) \in Int
                              /\ WorstBut(qs, i) >= WorstBut(os, i)
  BY <1>1, WorstType, FollowsRises
<1>3. /\ Typed(os, r, d, j, p, w) /\ Opening(r, j, p, w) /\ Leading(os, r, p, w)
      /\ Sound(os, r, j, p, w) /\ Round(os, r, p, w) /\ Reconciling(os, r, p, w)
      /\ Ending(r, d, p, w) /\ Worst(os) >= 0
  BY DEF CoverInv
<1>4. Typed(qs, r, d, j, p, w)
  BY <1>1, <1>3 DEF Typed
<1>5. /\ \A i \in DOMAIN os : /\ qs[i].leg = os[i].leg /\ qs[i].part = os[i].part
                              /\ qs[i].limit = os[i].limit /\ qs[i].qty = os[i].qty
                              /\ os[i].state = "canceled" => qs[i] = os[i]
      /\ \A n \in Int : Worst(os) >= n => Worst(qs) >= n
      /\ \A i \in DOMAIN os : \A n \in Int : WorstBut(os, i) >= n => WorstBut(qs, i) >= n
  BY <1>1, <1>2 DEF Keeps
<1>6. Units \in Int /\ 0 \in Int
  BY StrategyAssumption
<1>7. Leading(qs, r, p, w)
  BY <1>1, <1>3, <1>5, <1>6 DEF Leading
<1>8. Sound(qs, r, j, p, w)
  <2> SUFFICES ASSUME Playing(r, p), w.failed = {}
               PROVE  /\ LegsSound(qs, r) /\ JournalSound(r, j, p, w)
                      /\ p \notin Sending => Worst(qs) >= Ahead(r)
    BY DEF Sound
  <2>1. /\ LegsSound(os, r) /\ JournalSound(r, j, p, w)
        /\ p \notin Sending => Worst(os) >= Ahead(r)
    BY <1>3 DEF Sound
  <2>2. Ahead(r) \in Int
    BY <1>1, <2>1, AheadType
  <2>. QED
    BY <1>1, <1>5, <2>1, <2>2, SoundCarries
<1>9. Round(qs, r, p, w)
  <2> SUFFICES ASSUME p \in Rounds, w.failed = {}
               PROVE  /\ p = "exit" /\ w.todo = <<"long">> =>
                            Worst(qs) >= OpenOf(r, "long") \/ Worst(qs) >= w.amount
                      /\ p # "exit" => SentOut(qs, r, w)
    BY <1>3 DEF Round
  <2>1. Ahead(r) \in Int /\ w.amount \in Int /\ OpenOf(r, "long") \in Int
    BY RoundOpen DEF Leg
  <2>2. CASE p = "exit"
    BY <1>3, <1>5, <2>1, <2>2 DEF Round
  <2>3. CASE p # "exit"
    <3>1. SentOut(os, r, w)
      BY <1>3, <2>3 DEF Round
    <3>. QED
      BY <1>1, <1>5, <1>6, <2>1, <2>3, <3>1 DEF SentOut
  <2>. QED
    BY <2>2, <2>3
<1>10. Reconciling(qs, r, p, w)
  <2> SUFFICES ASSUME p \in {"look", "resend"}
               PROVE  LET l == r.legs["long"]
                      IN  /\ qs[l.order].state = "canceled"
                          /\ Worst(qs) - l.qty >= 0 /\ Worst(qs) - l.qty >= Ahead(r)
    BY <1>1, <1>3 DEF Reconciling
  <2> DEFINE l == r.legs["long"]
  <2>0. p \in Queries
    BY DEF Queries
  <2>1. /\ w.todo \in {<<"long", "short">>, <<"long">>} /\ l.order \in DOMAIN os
        /\ os[l.order].state = "canceled"
        /\ Worst(os) - l.qty >= 0 /\ Worst(os) - l.qty >= Ahead(r) /\ w.failed = {}
    BY <1>3, <2>0, Going DEF Reconciling
  <2>2. Ahead(r) \in Int /\ l.qty \in Int
    BY <1>1, <2>0, <2>1, QueryAhead, ShapeFields, LegFields
  <2>3. Worst(qs) - l.qty >= 0 /\ Worst(qs) - l.qty >= Ahead(r)
    BY <1>2, <2>1, <2>2
  <2>. QED
    BY <1>5, <2>1, <2>3
<1>11. Worst(qs) >= 0
  BY <1>3, <1>5, <1>6
<1>. QED
  BY <1>3, <1>4, <1>7, <1>8, <1>9, <1>10, <1>11 DEF CoverInv

\* The environment stays, so that the invariant of the next state is that of its values.
LEMMA NextInv ==
  ASSUME env' = env, env \in Environment,
         CoverInv(orders', copy', rec', journal', pc', work')
  PROVE  Inv'
<1>1. LegsSound(orders', copy') => LegsSound(orders, copy)'
  BY DEF LegsSound, OpenOf
<1>2. JournalSound(copy', journal', pc', work') => JournalSound(copy, journal, pc, work)'
  BY DEF JournalSound, FirstTarget, OpenOf
<1>3. Sound(orders', copy', journal', pc', work') => Sound(orders, copy, journal, pc, work)'
  BY <1>1, <1>2 DEF Sound, Playing, InPlay, Ahead, OpenOf, Worst, Worths, Worth, Buys, Live
<1>4. AmountSound(copy', work') => AmountSound(copy, work)'
  BY DEF AmountSound, Partial, OpenOf
<1>5. SentOut(orders', copy', work') => SentOut(orders, copy, work)'
  BY DEF SentOut, OpenOf, Ahead, WorstBut, Worths, Worth, Buys, Live
<1>6. Round(orders', copy', pc', work') => Round(orders, copy, pc, work)'
  BY <1>4, <1>5 DEF Round, OpenOf, Worst, Worths, Worth, Buys, Live
<1>. QED
  BY <1>3, <1>6
     DEF Inv, CoverInv, Typed, Whole, Opening, EntryNotes, Fresh, Leading, Reconciling, Ending, InPlay, Ahead,
         OpenOf, Worst, WorstBut, Worths, Worth, Buys, Live

LEMMA BrokerStep == Inv /\ Broker => Inv'
<1> SUFFICES ASSUME Inv, Broker, Covering' PROVE Inv'
  BY DEF Inv
<1>1. env' = env
  BY DEF Broker, Fills, IsRejected, CancelTakesEffect, UserCloses
<1>2. Covering
  BY <1>1 DEF Covering, Tame, TameExit, FlattensWhole, EntryIsRemembered
<1>3. env \in Environment /\ CoverInv(orders, copy, rec, journal, pc, work)
  BY <1>2 DEF Inv
<1>4. /\ Whole(orders') /\ Follows(orders, orders')
      /\ UNCHANGED <<env, journal, rec, copy, pc, work, faults, spent>>
  BY <1>2, <1>3, BrokerFollows DEF CoverInv, Typed
<1>5. CoverInv(orders', copy, rec, journal, pc, work)
  BY <1>3, <1>4, FollowsCovers
<1>. QED
  BY <1>1, <1>3, <1>4, <1>5, NextInv

-----------------------------------------------------------------------------
(* Opening the position *)

Here == env \in Environment /\ CoverInv(orders, copy, rec, journal, pc, work)
There == env' = env /\ CoverInv(orders', copy', rec', journal', pc', work')

LEMMA HereFacts ==
  ASSUME Here
  PROVE  /\ Typed(orders, copy, rec, journal, pc, work) /\ Opening(copy, journal, pc, work)
         /\ Leading(orders, copy, pc, work) /\ Sound(orders, copy, journal, pc, work)
         /\ Round(orders, copy, pc, work) /\ Reconciling(orders, copy, pc, work)
         /\ Ending(copy, rec, pc, work) /\ Worst(orders) >= 0 /\ Worst(orders) \in Int
         /\ Whole(orders) /\ copy \in Shape /\ rec \in Shape /\ work \in WorkShape
         /\ journal \in JournalShape
         /\ ~copy.legs["short"].resting /\ ~rec.legs["short"].resting
         /\ Units \in Nat /\ Units # 0 /\ Units \in Int
<1>1. Whole(orders)
  BY DEF Here, CoverInv, Typed
<1>. QED
  BY <1>1, WorstType, StrategyAssumption DEF Here, CoverInv, Typed, Ending

LEMMA NoWorkShape == NoWork \in WorkShape /\ NoWork.failed = {} /\ NoWork.tries = 0
                      /\ NoWork.todo = <<>>
BY DEF NoWork, WorkShape, Routes

LEMMA RoutesOf == \A t \in Routes : t # <<>> => Head(t) \in Leg /\ Tail(t) \in Routes
<1> SUFFICES ASSUME NEW t \in Routes, t # <<>> PROVE Head(t) \in Leg /\ Tail(t) \in Routes
  OBVIOUS
<1>. QED
  BY Going DEF Routes, Leg

\* A row is written, or is not; the others stay.
LEMMA NotesKeep ==
  ASSUME journal \in JournalShape, NEW key \in Keys, NEW part, NEW e \in Entry, Notes(key, part, e)
  PROVE  /\ journal' \in JournalShape
         /\ \A x \in Keys : x # key => journal'[x] = journal[x]
         /\ \/ journal'[key] = e
            \/ part \in env.forgets /\ journal' = journal
BY DEF Notes, JournalShape

LEMMA NotesBeforeKeep ==
  ASSUME journal \in JournalShape, NEW key \in Keys, NEW part, NotesBefore(key, part)
  PROVE  /\ journal' \in JournalShape
         /\ \A x \in Keys : x # key => journal'[x] = journal[x]
         /\ \A x \in Keys : journal'[x].state = "after" => journal'[x] = journal[x]
<1> DEFINE e == [journal[key] EXCEPT !.state = "before"]
<1>1. e \in Entry /\ e.state = "before"
  BY DEF JournalShape, Entry
<1>2. Notes(key, part, e)
  BY DEF NotesBefore
<1> HIDE DEF e
<1>3. /\ journal' \in JournalShape
      /\ \A x \in Keys : x # key => journal'[x] = journal[x]
      /\ journal'[key] = e \/ (part \in env.forgets /\ journal' = journal)
  BY <1>1, <1>2, NotesKeep
<1>. QED
  BY <1>1, <1>3

\* What is read of a row is the row, or nothing.
LEMMA RecalledIs ==
  ASSUME NEW key, NEW part, NEW noted \in Recalled(key, part)
  PROVE  /\ noted.state # "none" => noted = journal[key]
         /\ part \notin env.forgets => noted = journal[key]
BY DEF Recalled, Nothing

\* An opening that is over, however: nothing is sent any more.
LEMMA OpeningEnds ==
  ASSUME Here, pc \in Opens, NEW q \in Shape, ~InPlay(q), ~q.legs["short"].resting,
         NEW w \in WorkShape
  PROVE  CoverInv(orders, q, rec, journal, "persist", w)
<1>1. Typed(orders, q, rec, journal, "persist", w)
  BY HereFacts DEF Typed, Places
<1>. QED
  BY <1>1, HereFacts, ToPersist

LEMMA OpeningFacts ==
  ASSUME Here, pc \in Opens
  PROVE  /\ Fresh(copy) /\ work.failed = {} /\ ~InPlay(copy) /\ EntryNotes(journal, pc, work)
         /\ \A t \in Trigger : journal[<<"short", t>>].state # "after"
BY HereFacts DEF Opening, Fresh, InPlay

LEMMA EntryBlockedStep == Covering /\ Here /\ EntryBlocked => There
<1> SUFFICES ASSUME Covering, Here, EntryBlocked PROVE There
  OBVIOUS
<1>1. /\ pc = "entry" /\ pc' = "persist"
      /\ UNCHANGED <<env, orders, journal, rec, copy, work, faults, spent>>
  BY DEF EntryBlocked, Goto
<1>2. pc \in Opens
  BY <1>1 DEF Opens, Leads
<1>3. CoverInv(orders, copy, rec, journal, "persist", work)
  BY <1>2, HereFacts, OpeningFacts, OpeningEnds
<1>. QED
  BY <1>1, <1>3 DEF There

\* To the unwinding, with nothing sold short.
LEMMA ToUnwind ==
  ASSUME NEW os, NEW q, Typed(os, q, rec, journal, "unwind", work), Worst(os) >= 0,
         Here, pc \in Leads, Fresh(q), q.legs["short"].filled = 0
  PROVE  CoverInv(os, q, rec, journal, "unwind", work)
<1>1. pc \in Opens /\ "unwind" \in Opens /\ "unwind" \notin Leads
  BY DEF Opens, Leads
<1>2. Opening(q, journal, "unwind", work)
  BY <1>1, OpeningFacts DEF Opening, EntryNotes
<1>3. Leading(os, q, "unwind", work)
  BY <1>1 DEF Leading
<1>. QED
  BY <1>1, <1>2, <1>3, HereFacts, ToOpen

LEMMA LeadingFacts ==
  ASSUME Here, pc \in Leads
  PROVE  /\ pc \in Opens /\ pc # "opened" /\ pc # "unwind"
         /\ Fresh(copy) /\ copy.legs["short"].filled = 0
         /\ work.todo \in {<<"long", "short">>, <<"short">>}
         /\ Head(work.todo) \in Leg
         /\ Typed(orders, copy, rec, journal, "unwind", work)
<1>1. pc \in Opens /\ pc # "opened" /\ pc # "unwind" /\ "unwind" \in Places
  BY DEF Opens, Leads, Places
<1>2. work.todo \in {<<"long", "short">>, <<"short">>}
  BY HereFacts DEF Leading
<1>. QED
  BY <1>1, <1>2, HereFacts, OpeningFacts, Going DEF Opening, Typed, Leg

LEMMA RecheckBreachesStep == Covering /\ Here /\ RecheckBreaches => There
<1> SUFFICES ASSUME Covering, Here, RecheckBreaches PROVE There
  OBVIOUS
<1>1. /\ pc = "entry" /\ pc' = "unwind"
      /\ UNCHANGED <<env, orders, journal, rec, copy, work, faults, spent>>
  BY DEF RecheckBreaches, Goto
<1>2. pc \in Leads
  BY <1>1 DEF Leads
<1>3. CoverInv(orders, copy, rec, journal, "unwind", work)
  BY <1>2, LeadingFacts, HereFacts, ToUnwind
<1>. QED
  BY <1>1, <1>3 DEF There

LEMMA EntryFailsStep == Covering /\ Here /\ EntryFails => There
<1> SUFFICES ASSUME Covering, Here, EntryFails PROVE There
  OBVIOUS
<1>1. /\ pc \in {"entry", "entryWait"} /\ pc' = "unwind"
      /\ UNCHANGED <<env, orders, journal, rec, copy, work, spent>>
  BY DEF EntryFails, Goto
<1>2. pc \in Leads
  BY <1>1 DEF Leads
<1>3. CoverInv(orders, copy, rec, journal, "unwind", work)
  BY <1>2, LeadingFacts, HereFacts, ToUnwind
<1>. QED
  BY <1>1, <1>3 DEF There

\* The keys of an entry are not those of an exit.
LEMMA EntryKeys ==
  ASSUME Here, pc \in Leads
  PROVE  /\ EntryKey = <<Head(work.todo), "entry">> /\ EntryKey \in Keys
         /\ <<"short", "entry">> \in Keys
         /\ \A t \in Trigger : <<"short", t>> \in Keys /\ <<"short", t>> # EntryKey
<1>1. Head(work.todo) \in Leg
  BY LeadingFacts
<1>2. "entry" \notin Trigger /\ "entry" \in Purpose /\ \A t \in Trigger : t \in Purpose
  BY DEF Trigger, Purpose
<1>. QED
  BY <1>1, <1>2 DEF EntryKey, EntryLeg, Keys, Leg

LEMMA EntrySubmitFailsStep == Covering /\ Here /\ EntrySubmitFails => There
<1> SUFFICES ASSUME Covering, Here, EntrySubmitFails PROVE There
  OBVIOUS
<1> DEFINE j == journal'
<1>1. /\ pc = "entry" /\ pc' = "unwind" /\ NotesBefore(EntryKey, "entry")
      /\ UNCHANGED <<env, rec, copy, work, spent>>
  BY DEF EntrySubmitFails, Goto
<1>2. orders' = orders
  BY DEF EntrySubmitFails, SubmitLost, Covering, Tame, TameExit
<1>3. pc \in Leads /\ pc \in Opens /\ "unwind" \in Opens /\ "unwind" \notin Leads
  BY <1>1 DEF Leads, Opens
<1>4. /\ j \in JournalShape
      /\ \A x \in Keys : j[x].state = "after" => j[x] = journal[x]
  BY <1>1, <1>3, EntryKeys, HereFacts, NotesBeforeKeep
<1> HIDE DEF j
<1>5. Typed(orders, copy, rec, j, "unwind", work)
  BY <1>3, <1>4, LeadingFacts DEF Typed
<1>6. Opening(copy, j, "unwind", work)
  BY <1>3, <1>4, LeadingFacts, OpeningFacts, EntryKeys DEF Opening, EntryNotes
<1>7. Leading(orders, copy, "unwind", work)
  BY <1>3 DEF Leading
<1>8. CoverInv(orders, copy, rec, j, "unwind", work)
  BY <1>3, <1>5, <1>6, <1>7, HereFacts, ToOpen
<1>. QED
  BY <1>1, <1>2, <1>8 DEF There, j

LEMMA EntrySubmitsStep == Covering /\ Here /\ EntrySubmits => There
<1> SUFFICES ASSUME Covering, Here, EntrySubmits PROVE There
  OBVIOUS
<1> DEFINE n == NewId
<1> DEFINE w == [work EXCEPT !.order = n]
<1> DEFINE j == journal'
<1>1. /\ pc = "entry" /\ pc' = "entryWait"
      /\ Submit(EntryLeg, "entry", Priced, Units) /\ work' = w
      /\ UNCHANGED <<env, rec, copy, faults, spent>>
  BY DEF EntrySubmits, Goto
<1>2. pc \in Leads /\ "entryWait" \in Opens /\ "entryWait" \in Leads /\ "entryWait" \in Places
  BY <1>1 DEF Leads, Opens, Places
<1>3. /\ work.todo \in {<<"long", "short">>, <<"short">>} /\ EntryLeg = Head(work.todo)
      /\ EntryLeg \in Leg /\ Fresh(copy) /\ copy.legs["short"].filled = 0
  BY <1>2, LeadingFacts DEF EntryLeg
<1> DEFINE qs == orders'
<1>4. /\ Whole(qs) /\ Keeps(orders, qs)
      /\ n \in DOMAIN qs /\ n \in Nat /\ DOMAIN qs = DOMAIN orders \cup {n}
      /\ \A i \in DOMAIN orders : qs[i] = orders[i]
      /\ qs[n].leg = EntryLeg /\ qs[n].part = "entry" /\ qs[n].qty = Units
      /\ WorstBut(qs, n) = Worst(orders)
      /\ Worst(qs) = Worst(orders) - (IF EntryLeg = "long" THEN 0 ELSE Units)
  <2>1. qs = Append(orders, [leg |-> EntryLeg, part |-> "entry", limit |-> Priced, qty |-> Units,
                             filled |-> 0, state |-> "working"])
    BY <1>1 DEF Submit
  <2> DEFINE leg == EntryLeg
  <2> DEFINE limit == Priced
  <2>2. leg \in Leg /\ limit \in BOOLEAN /\ Units \in Nat \ {0} /\ "entry" \in Part /\ Whole(orders)
    BY <1>3, HereFacts DEF Priced, Part
  <2> HIDE DEF qs, leg, limit
  <2>3. IsSent(orders, qs, leg, "entry", limit, Units)
    <3>1. qs = Append(orders, [leg |-> leg, part |-> "entry", limit |-> limit, qty |-> Units,
                               filled |-> 0, state |-> "working"])
      BY <2>1 DEF leg, limit
    <3>. QED
      BY <2>2, <3>1, SentIsAdded
  <2>4. Costs(leg, "entry", Units) = IF leg = "long" THEN 0 ELSE Units
    BY DEF Costs
  <2>. QED
    BY <2>3, <2>4 DEF IsSent, NewId, leg
<1>5. /\ w \in WorkShape /\ w.order = n /\ w.todo = work.todo /\ w.failed = {}
  BY <1>2, <1>4, HereFacts, OpeningFacts, LeadingFacts DEF WorkShape
<1>6. work.todo = <<"short">> => Worst(orders) >= Units
  <2> SUFFICES ASSUME work.todo = <<"short">>, work.tries # 0 PROVE Worst(orders) >= Units
    BY <1>1, <1>2, HereFacts DEF Leading
  <2> DEFINE o == orders[work.order]
  <2>1. /\ work.tries > 0 /\ work.order \in DOMAIN orders
        /\ o.part = "entry" /\ o.leg = "short" /\ WorstBut(orders, work.order) >= Units
    BY <1>1, <1>2, HereFacts, WorkFields, Going DEF Leading
  <2>2. DeadUnfilled(o)
    <3>1. EntryNotes(journal, pc, work)
      BY <1>2, LeadingFacts, OpeningFacts
    <3>2. "entry" \notin env.forgets
      BY <1>2, <2>1, <3>1 DEF EntryNotes, Covering, EntryIsRemembered
    <3>3. journal[EntryKey].state = "after" /\ journal[EntryKey].order = work.order
      BY <1>2, <2>1, <3>1, <3>2, EntryKeys DEF EntryNotes
    <3>4. MaySubmit(journal[EntryKey])
      BY <3>2, RecalledIs DEF EntrySubmits, EntryNoted
    <3>. QED
      BY <3>3, <3>4 DEF MaySubmit, TakenOver
  <2>3. Worth(o) = 0
    BY <2>1, <2>2 DEF Worth, Buys, Live, DeadUnfilled, Dead
  <2>4. Worst(orders) = 0 + WorstBut(orders, work.order) /\ WorstBut(orders, work.order) \in Int
    BY <2>1, <2>3, HereFacts, WorstType
  <2>. QED
    BY <2>1, <2>4
<1>7. Worst(qs) >= 0
  <2>1. work.todo = <<"long", "short">> => EntryLeg = "long"
    BY <1>3, Going
  <2>2. work.todo = <<"short">> => EntryLeg = "short"
    BY <1>3, Going
  <2>. QED
    BY <1>3, <1>4, <1>6, <2>1, <2>2, HereFacts
<1> DEFINE e == [state |-> "after", order |-> n]
<1>a. /\ j \in JournalShape
      /\ \A x \in Keys : x # EntryKey => j[x] = journal[x]
      /\ \/ j[EntryKey] = e
         \/ "entry" \in env.forgets /\ (j[EntryKey].state = "after" => j[EntryKey] = journal[EntryKey])
  <2>1. e \in Entry
    BY <1>4 DEF Entry
  <2>2. journal \in JournalShape /\ EntryKey \in Keys
    BY <1>2, EntryKeys, HereFacts
  <2>3. \/ Notes(EntryKey, "entry", e)
        \/ "entry" \in env.forgets /\ NotesBefore(EntryKey, "entry")
    BY DEF EntrySubmits
  <2> HIDE DEF e
  <2>4. CASE Notes(EntryKey, "entry", e)
    BY <2>1, <2>2, <2>4, NotesKeep
  <2>5. CASE "entry" \in env.forgets /\ NotesBefore(EntryKey, "entry")
    BY <2>2, <2>5, NotesBeforeKeep
  <2>. QED
    BY <2>3, <2>4, <2>5
<1>b. e.state = "after" /\ e.order = n
  OBVIOUS
<1> HIDE DEF n, w, qs, j, e
<1>c. j[EntryKey].state = "after" => j[EntryKey].order = n
  <2> SUFFICES ASSUME j[EntryKey] # e, j[EntryKey].state = "after" PROVE FALSE
    BY <1>b
  <2>1. EntryNotes(journal, pc, work) /\ work.tries \in Nat
    BY <1>2, LeadingFacts, OpeningFacts, HereFacts, WorkFields
  <2>2. "entry" \in env.forgets /\ journal[EntryKey].state = "after"
    BY <1>a
  <2>3. work.tries = 0
    BY <1>2, <2>1, <2>2 DEF EntryNotes, Covering, EntryIsRemembered
  <2>. QED
    BY <1>1, <1>2, <2>1, <2>2, <2>3, EntryKeys DEF EntryNotes
<1>8. Typed(qs, copy, rec, j, "entryWait", w)
  <2>1. \A x \in Keys : j[x].state = "after" => j[x].order \in DOMAIN qs
    <3> SUFFICES ASSUME NEW x \in Keys, j[x].state = "after" PROVE j[x].order \in DOMAIN qs
      OBVIOUS
    <3>1. CASE x = EntryKey
      BY <1>4, <1>c, <3>1
    <3>2. CASE x # EntryKey
      BY <1>4, <1>a, <3>2, HereFacts DEF Typed
    <3>. QED
      BY <3>1, <3>2
  <2>. QED
    BY <1>2, <1>4, <1>5, <1>a, <2>1, HereFacts DEF Typed
<1>9. Opening(copy, j, "entryWait", w)
  <2>1. EntryNotes(j, "entryWait", w)
    <3>1. /\ EntryNotes(journal, pc, work) /\ EntryKey = <<Head(w.todo), "entry">>
          /\ <<"short", "entry">> \in Keys /\ w.tries = work.tries
      BY <1>2, <1>5, LeadingFacts, OpeningFacts, EntryKeys, HereFacts DEF w, WorkShape
    <3>2. w.todo = <<"long", "short">> => <<"short", "entry">> # EntryKey
      BY <3>1, Going
    <3>3. w.todo = <<"long", "short">> => j[<<"short", "entry">>].state # "after"
      BY <1>2, <1>5, <1>a, <3>1, <3>2 DEF EntryNotes
    <3>4. "entry" \notin env.forgets => j[EntryKey].state = "after"
      BY <1>a, <1>b
    <3>5. w.tries > 0 => "entry" \in env.limit
      BY <1>2, <3>1 DEF EntryNotes
    <3>. QED
      BY <1>5, <1>c, <3>1, <3>3, <3>4, <3>5 DEF EntryNotes
  <2>2. \A t \in Trigger : j[<<"short", t>>] = journal[<<"short", t>>]
    BY <1>2, <1>a, EntryKeys
  <2>. QED
    BY <1>2, <1>3, <1>5, <2>1, <2>2, LeadingFacts, OpeningFacts DEF Opening
<1>10. Leading(qs, copy, "entryWait", w)
  <2>1. w.todo = <<"long", "short">> => \A i \in DOMAIN qs : qs[i].leg = "long" /\ qs[i].part = "entry"
    <3> SUFFICES ASSUME w.todo = <<"long", "short">>, NEW i \in DOMAIN qs
                 PROVE  qs[i].leg = "long" /\ qs[i].part = "entry"
      OBVIOUS
    <3>1. EntryLeg = "long"
      BY <1>3, <1>5, Going
    <3>2. \A k \in DOMAIN orders : orders[k].leg = "long" /\ orders[k].part = "entry"
      BY <1>2, <1>5, HereFacts DEF Leading
    <3>. QED
      BY <1>4, <3>1, <3>2
  <2>2. w.todo = <<"short">> => copy.legs["long"].filled = Units
    BY <1>2, <1>5, HereFacts DEF Leading
  <2>. QED
    BY <1>3, <1>4, <1>5, <1>6, <2>1, <2>2 DEF Leading
<1>11. CoverInv(qs, copy, rec, j, "entryWait", w)
  BY <1>2, <1>7, <1>8, <1>9, <1>10, HereFacts, ToOpen
<1>. QED
  BY <1>1, <1>11 DEF There, qs, j

\* The order of a leg, and whether it has filled: as a whole or not at all.
LEMMA LegOrder ==
  ASSUME Here, pc \in Leads, pc # "entry" \/ work.tries > 0
  PROVE  /\ work.order \in DOMAIN orders /\ EntryOrder \in OrderShape
         /\ EntryOrder.qty = Units /\ EntryOrder.filled \in {0, Units}
         /\ EntryOrder.part = "entry" /\ EntryOrder.leg = Head(work.todo)
         /\ work.order \in Nat
<1>1. /\ work.order \in DOMAIN orders
      /\ EntryOrder.qty = Units /\ EntryOrder.part = "entry" /\ EntryOrder.leg = Head(work.todo)
  BY HereFacts DEF Leading, EntryOrder
<1>2. EntryOrder \in OrderShape
  BY <1>1, HereFacts DEF Whole, EntryOrder
<1>3. EntryOrder.filled \in {0, Units}
  BY <1>1, HereFacts DEF Whole, EntryOrder
<1>. QED
  BY <1>1, <1>2, <1>3, HereFacts, WorkFields

\* What is answered is the order of the last attempt.
LEMMA AnsweredAt ==
  ASSUME Here, NEW id, EntryAnswered(id)
  PROVE  /\ pc \in {"entry", "entryWait"} /\ pc \in Leads /\ (pc # "entry" \/ work.tries > 0)
         /\ pc \in Opens /\ id = work.order
<1>1. pc \in {"entry", "entryWait"} /\ pc \in Leads /\ pc \in Opens
  BY DEF EntryAnswered, Leads, Opens
<1>2. CASE pc = "entryWait"
  BY <1>1, <1>2 DEF EntryAnswered
<1>3. CASE pc = "entry"
  <2>1. PICK noted \in EntryNoted : TakenOver(noted) /\ id = noted.order
    BY <1>3 DEF EntryAnswered
  <2>2. noted = journal[EntryKey] /\ noted.state = "after"
    BY <2>1, RecalledIs DEF EntryNoted, TakenOver
  <2>3. EntryNotes(journal, pc, work) /\ work.tries \in Nat
    BY <1>1, LeadingFacts, OpeningFacts, HereFacts, WorkFields
  <2>4. EntryKey = <<Head(work.todo), "entry">>
    BY <1>1, EntryKeys
  <2>5. work.tries # 0 /\ journal[EntryKey].order = work.order
    BY <1>1, <1>3, <2>2, <2>3, <2>4 DEF EntryNotes
  <2>. QED
    BY <1>1, <2>1, <2>2, <2>3, <2>5
<1>. QED
  BY <1>1, <1>2, <1>3

\* The copy of a record with the fill of its leg
LEMMA OpenedLeg ==
  ASSUME Here, pc \in Leads, pc # "entry" \/ work.tries > 0, NEW n \in Nat
  PROVE  LET leg == Head(work.todo)
             q == Opened(work.order, n)
         IN  /\ q \in Shape /\ Fresh(q) /\ q.legs[leg].filled = n
             /\ \A k \in Leg : k # leg => q.legs[k] = copy.legs[k]
<1> DEFINE leg == Head(work.todo)
<1> DEFINE l == [copy.legs[leg] EXCEPT !.filled = n, !.entry = work.order]
<1>1. leg \in Leg /\ copy \in Shape /\ Fresh(copy) /\ copy.legs[leg] \in LegShape /\ work.order \in Nat
  BY HereFacts, LeadingFacts, LegOrder, ShapeFields
<1>2. /\ l \in LegShape /\ l.filled = n /\ l.status = copy.legs[leg].status
      /\ l.qty = copy.legs[leg].qty /\ l.order = copy.legs[leg].order
      /\ l.resting = copy.legs[leg].resting
  BY <1>1 DEF LegShape
<1> DEFINE q == LegSet(copy, leg, l)
<1>3. q = Opened(work.order, n)
  BY DEF Opened, EntryLeg, LegSet
<1> HIDE DEF l
<1>4. /\ q \in Shape /\ q.legs[leg] = l /\ \A k \in Leg : k # leg => q.legs[k] = copy.legs[k]
      /\ q.exit = copy.exit /\ q.active = copy.active /\ q.residual = copy.residual
      /\ q.closed = copy.closed /\ q.tp1 = copy.tp1
  BY <1>1, <1>2, LegChanges
<1> HIDE DEF q, leg
<1>5. Fresh(q)
  BY <1>1, <1>2, <1>4 DEF Fresh
<1>. QED
  BY <1>2, <1>3, <1>4, <1>5 DEF leg

\* While only bought legs have been sent, what has been bought is certain.
LEMMA BoughtIsWorst ==
  ASSUME NEW os, Whole(os), \A i \in DOMAIN os : os[i].leg = "long" /\ os[i].part = "entry",
         NEW k \in DOMAIN os
  PROVE  Worst(os) >= os[k].filled
<1> DEFINE f == Worths(os)
<1> DEFINE R == DOMAIN os \ {k}
<1>1. /\ IsFiniteSet(R) /\ \A i \in DOMAIN os : f[i] = os[i].filled /\ f[i] \in Nat
  <2>1. \A i \in DOMAIN os : Worth(os[i]) = os[i].filled /\ os[i].filled \in Nat
    BY WholeOrders, OrderFields DEF Worth, Buys
  <2>2. IsFiniteSet(R)
    BY WholeOrders, FS_RemoveElement
  <2>. QED
    BY <2>1, <2>2, WholeOrders
<1> HIDE DEF f
<1>2. SumOf(f, R) \in Nat
  BY <1>1, SumType
<1>3. WorstBut(os, k) \in Nat
  BY <1>2 DEF WorstBut, f
<1>4. Worst(os) = os[k].filled + WorstBut(os, k) /\ os[k].filled \in Nat
  <2>1. Worth(os[k]) = os[k].filled /\ os[k].filled \in Nat
    BY WholeOrders, OrderFields DEF Worth, Buys
  <2>. QED
    BY <2>1, WorstType
<1>. QED
  BY <1>3, <1>4

LEMMA EntryLegFilledStep == Covering /\ Here /\ EntryLegFilled => There
<1> SUFFICES ASSUME Covering, Here, EntryLegFilled PROVE There
  OBVIOUS
<1> DEFINE q == Opened(work.order, Units)
<1> DEFINE w == [NoWork EXCEPT !.todo = Tail(work.todo)]
<1>0. PICK id \in DOMAIN orders :
         EntryAnswered(id) /\ orders[id].filled = Units /\ copy' = Opened(id, Units)
  BY DEF EntryLegFilled
<1>2. pc \in Leads /\ (pc # "entry" \/ work.tries > 0) /\ pc \in Opens /\ id = work.order
  BY <1>0, AnsweredAt
<1>1. /\ EntryOrder.filled = Units /\ copy' = q /\ work' = w
      /\ pc' = (IF Len(work.todo) = 1 THEN "opened" ELSE "entry")
      /\ UNCHANGED <<env, orders, journal, rec, faults, spent>>
  BY <1>0, <1>2 DEF EntryLegFilled, EntryOrder, Goto
<1>3. /\ q \in Shape /\ Fresh(q) /\ q.legs[Head(work.todo)].filled = Units
      /\ \A k \in Leg : k # Head(work.todo) => q.legs[k] = copy.legs[k]
  BY <1>2, HereFacts, OpenedLeg
<1>4. work.todo \in {<<"long", "short">>, <<"short">>} /\ copy.legs["short"].filled = 0
  BY <1>2, LeadingFacts
<1>5. w \in WorkShape /\ w.failed = {} /\ w.tries = 0 /\ w.todo = Tail(work.todo)
  <2>1. Tail(work.todo) \in Routes
    BY <1>4, Going DEF Routes
  <2>. QED
    BY <2>1, NoWorkShape DEF WorkShape
<1> HIDE DEF q, w
<1>6. CASE work.todo = <<"long", "short">>
  <2>1. pc' = "entry" /\ w.todo = <<"short">> /\ Head(work.todo) = "long"
    BY <1>1, <1>5, <1>6, Going
  <2>2. Typed(orders, q, rec, journal, "entry", w)
    BY <1>3, <1>5, HereFacts DEF Typed, Places, Opens, Leads
  <2>3. "entry" \in Leads /\ "entry" \in Opens /\ "entry" # "opened"
    BY DEF Leads, Opens
  <2>4. q.legs["short"].filled = 0 /\ q.legs["long"].filled = Units
    BY <1>3, <1>4, <2>1 DEF Leg
  <2>5. Opening(q, journal, "entry", w)
    <3>1. journal[<<"short", "entry">>].state # "after"
      BY <1>2, <1>6, OpeningFacts DEF EntryNotes
    <3>2. Head(w.todo) = "short" /\ w.todo # <<"long", "short">>
      BY <2>1, Going
    <3>3. ~(w.tries > 0) /\ w.tries = 0
      BY <1>5
    <3>4. journal[<<Head(w.todo), "entry">>].state # "after"
      BY <3>1, <3>2
    <3>5. EntryNotes(journal, "entry", w)
      BY <3>2, <3>3, <3>4 DEF EntryNotes
    <3>. QED
      BY <1>2, <1>3, <1>5, <2>3, <2>4, <3>5, OpeningFacts DEF Opening
  <2>6. Worst(orders) >= Units
    <3>1. /\ \A i \in DOMAIN orders : orders[i].leg = "long" /\ orders[i].part = "entry"
          /\ work.order \in DOMAIN orders
      BY <1>2, <1>6, HereFacts, LegOrder DEF Leading
    <3>. QED
      BY <1>1, <3>1, HereFacts, BoughtIsWorst DEF EntryOrder
  <2>7. Leading(orders, q, "entry", w)
    <3>1. ~("entry" # "entry" \/ w.tries > 0)
      BY <1>5
    <3>2. w.todo # <<"long", "short">>
      BY <2>1, Going
    <3>. QED
      BY <2>1, <2>4, <2>6, <3>1, <3>2 DEF Leading
  <2>8. CoverInv(orders, q, rec, journal, "entry", w)
    BY <2>2, <2>3, <2>5, <2>7, HereFacts, ToOpen
  <2>. QED
    BY <1>1, <2>1, <2>8 DEF There
<1>7. CASE work.todo = <<"short">>
  <2>1. pc' = "opened" /\ Head(work.todo) = "short"
    BY <1>1, <1>7, Going
  <2>2. Typed(orders, q, rec, journal, "opened", w)
    BY <1>3, <1>5, HereFacts DEF Typed, Places, Opens, Leads
  <2>3. "opened" \notin Leads /\ "opened" \in Opens
    BY DEF Leads, Opens
  <2>4. \A leg \in Leg : q.legs[leg].filled = Units
    <3>1. copy.legs["long"].filled = Units
      BY <1>2, <1>7, HereFacts DEF Leading
    <3>. QED
      BY <1>3, <2>1, <3>1 DEF Leg
  <2>5. Opening(q, journal, "opened", w)
    BY <1>2, <1>3, <1>5, <2>3, <2>4, OpeningFacts DEF Opening, EntryNotes
  <2>6. Leading(orders, q, "opened", w)
    BY <2>3 DEF Leading
  <2>7. CoverInv(orders, q, rec, journal, "opened", w)
    BY <2>2, <2>3, <2>5, <2>6, HereFacts, ToOpen
  <2>. QED
    BY <1>1, <2>1, <2>7 DEF There
<1>. QED
  BY <1>4, <1>6, <1>7

LEMMA EntryLegPartlyFilledStep == Covering /\ Here /\ EntryLegPartlyFilled => There
<1> SUFFICES ASSUME Covering, Here, EntryLegPartlyFilled PROVE FALSE
  OBVIOUS
<1>1. PICK id \in DOMAIN orders : EntryAnswered(id) /\ orders[id].filled \in 1 .. Units - 1
  BY DEF EntryLegPartlyFilled
<1>2. orders[id].filled \in {0, Units}
  BY <1>1, AnsweredAt, LegOrder DEF EntryOrder
<1>. QED
  BY <1>1, <1>2, HereFacts

LEMMA EntryLegUnfilledStep == Covering /\ Here /\ EntryLegUnfilled => There
<1> SUFFICES ASSUME Covering, Here, EntryLegUnfilled PROVE There
  OBVIOUS
<1>0. PICK id \in DOMAIN orders : EntryAnswered(id) /\ work' = [work EXCEPT !.order = id]
  BY DEF EntryLegUnfilled
<1>1. /\ EntryAnswered(id) /\ pc' = "entryCancel" /\ work' = work
      /\ UNCHANGED <<env, orders, journal, rec, copy, faults, spent>>
  BY <1>0, AnsweredAt, HereFacts DEF EntryLegUnfilled, Goto, WorkShape
<1>2. /\ pc \in Leads /\ (pc # "entry" \/ work.tries > 0) /\ pc \in Opens
      /\ "entryCancel" \in Leads /\ "entryCancel" \in Opens /\ "entryCancel" \in Places
      /\ pc # "opened"
  BY <1>1, AnsweredAt DEF Leads, Opens, Places
<1>3. Typed(orders, copy, rec, journal, "entryCancel", work)
  BY <1>2, HereFacts DEF Typed
<1>4. Opening(copy, journal, "entryCancel", work)
  <2>1. EntryNotes(journal, "entryCancel", work)
    BY <1>2, OpeningFacts DEF EntryNotes
  <2>. QED
    BY <1>2, <2>1, HereFacts DEF Opening
<1>5. Leading(orders, copy, "entryCancel", work)
  BY <1>2, HereFacts DEF Leading
<1>6. CoverInv(orders, copy, rec, journal, "entryCancel", work)
  BY <1>2, <1>3, <1>4, <1>5, HereFacts, ToOpen
<1>. QED
  BY <1>1, <1>6 DEF There

LEMMA EntryCancelsStep == Covering /\ Here /\ EntryCancels => There
<1> SUFFICES ASSUME Covering, Here, EntryCancels PROVE There
  OBVIOUS
<1> DEFINE qs == orders'
<1>1. /\ pc = "entryCancel" /\ (orders' = Cancel({work.order}) \/ orders' = orders)
      /\ \/ work' = [work EXCEPT !.tries = @ + 1] /\ copy' = copy /\ pc' = "entry" /\ Priced
         \/ copy' = Opened(work.order, 0) /\ work' = work /\ pc' = "unwind"
      /\ UNCHANGED <<env, journal, rec, spent>>
  BY DEF EntryCancels, Goto
<1>2. pc \in Leads /\ pc # "entry" /\ pc \in Opens /\ pc # "opened"
  BY <1>1 DEF Leads, Opens
<1>3. Whole(qs) /\ CoverInv(qs, copy, rec, journal, pc, work)
  <2>1. CASE orders' = orders
    BY <2>1, HereFacts DEF Here
  <2>2. CASE orders' = Cancel({work.order})
    <3>1. Whole(qs) /\ Follows(orders, qs)
      BY <1>2, <2>2, LegOrder, HereFacts, CancelFollows
    <3> HIDE DEF qs
    <3>. QED
      BY <3>1, FollowsCovers DEF Here
  <2>. QED
    BY <1>1, <2>1, <2>2
<1>4. /\ Typed(qs, copy, rec, journal, pc, work) /\ Leading(qs, copy, pc, work)
      /\ Opening(copy, journal, pc, work) /\ Worst(qs) >= 0
  BY <1>3 DEF CoverInv
<1> HIDE DEF qs
<1>5. CASE work' = [work EXCEPT !.tries = @ + 1] /\ copy' = copy /\ pc' = "entry" /\ Priced
  <2> DEFINE w == [work EXCEPT !.tries = @ + 1]
  <2>1. /\ w \in WorkShape /\ w.todo = work.todo /\ w.order = work.order /\ w.failed = work.failed
        /\ w.tries > 0
    <3>1. work \in WorkShape /\ work.tries \in Nat
      BY HereFacts, WorkFields
    <3>. QED
      BY <3>1 DEF WorkShape
  <2> HIDE DEF w
  <2>2. "entry" \in Leads /\ "entry" \in Opens /\ "entry" # "opened" /\ "entry" \in Places
    BY DEF Leads, Opens, Places
  <2>3. Typed(qs, copy, rec, journal, "entry", w)
    BY <1>4, <2>1, <2>2 DEF Typed
  <2>4. Opening(copy, journal, "entry", w)
    <3>1. EntryNotes(journal, "entry", w)
      BY <1>2, <1>5, <2>1, OpeningFacts DEF EntryNotes, Priced
    <3>. QED
      BY <1>2, <1>4, <2>1, <2>2, <3>1 DEF Opening
  <2>5. Leading(qs, copy, "entry", w)
    BY <1>2, <1>4, <2>1, <2>2 DEF Leading
  <2>6. CoverInv(qs, copy, rec, journal, "entry", w)
    BY <1>4, <2>2, <2>3, <2>4, <2>5, HereFacts, ToOpen
  <2>. QED
    BY <1>1, <1>5, <2>6 DEF There, w, qs
<1>6. CASE copy' = Opened(work.order, 0) /\ work' = work /\ pc' = "unwind"
  <2> DEFINE q == Opened(work.order, 0)
  <2>1. /\ q \in Shape /\ Fresh(q) /\ q.legs[Head(work.todo)].filled = 0
        /\ \A k \in Leg : k # Head(work.todo) => q.legs[k] = copy.legs[k]
    BY <1>2, OpenedLeg
  <2>2. q.legs["short"].filled = 0
    BY <1>2, <2>1, LeadingFacts DEF Leg
  <2> HIDE DEF q
  <2>3. Typed(qs, q, rec, journal, "unwind", work)
    BY <1>4, <2>1 DEF Typed, Places, Opens
  <2>4. CoverInv(qs, q, rec, journal, "unwind", work)
    BY <1>2, <1>4, <2>1, <2>2, <2>3, ToUnwind
  <2>. QED
    BY <1>1, <1>6, <2>4 DEF There, q, qs
<1>. QED
  BY <1>1, <1>5, <1>6

LEMMA EntryCompleteStep == Covering /\ Here /\ EntryComplete => There
<1> SUFFICES ASSUME Covering, Here, EntryComplete PROVE There
  OBVIOUS
<1> DEFINE q == [copy EXCEPT !.active = TRUE]
<1>1. /\ pc = "opened" /\ pc' = "persist" /\ copy' = q
      /\ UNCHANGED <<env, orders, journal, rec, work, faults, spent>>
  BY DEF EntryComplete, Goto
<1>2. /\ q \in Shape /\ q.legs = copy.legs /\ q.closed = copy.closed /\ q.residual = copy.residual
      /\ q.tp1 = copy.tp1
  BY HereFacts DEF Shape
<1> HIDE DEF q
<1>3. pc \in Opens
  BY <1>1 DEF Opens
<1>4. /\ Fresh(copy) /\ work.failed = {} /\ \A leg \in Leg : copy.legs[leg].filled = Units
      /\ \A t \in Trigger : journal[<<"short", t>>].state # "after"
  BY <1>1, <1>3, HereFacts DEF Opening
<1>5. \A leg \in Leg : /\ q.legs[leg].filled = Units /\ q.legs[leg].status = "none"
                       /\ q.legs[leg].qty = 0 /\ q.legs[leg].order = 0 /\ ~q.legs[leg].resting
                       /\ OpenOf(q, leg) = Units
  BY <1>2, <1>4, HereFacts DEF Fresh, OpenOf
<1>6. q.residual = 0 /\ q.closed = 0 /\ q.tp1
  BY <1>2, <1>4 DEF Fresh
<1>7. LegsSound(orders, q)
  BY <1>5, <1>6, HereFacts DEF LegsSound, Leg
<1>8. JournalSound(q, journal, "persist", work)
  BY <1>4 DEF JournalSound
<1>9. Ahead(q) = 0
  BY <1>5, HereFacts DEF Ahead, Leg
<1>10. Typed(orders, q, rec, journal, "persist", work)
  BY <1>2, HereFacts DEF Typed, Places
<1>11. CoverInv(orders, q, rec, journal, "persist", work)
  BY <1>4, <1>5, <1>7, <1>8, <1>9, <1>10, HereFacts, ToPersist DEF Leg
<1>. QED
  BY <1>1, <1>11 DEF There

LEMMA UnwindsStep == Covering /\ Here /\ (Unwinds \/ UnwindEnds) => There
<1> SUFFICES ASSUME Covering, Here, Unwinds \/ UnwindEnds PROVE FALSE
  OBVIOUS
<1>1. CASE Unwinds
  <2>1. pc = "unwind" /\ UnwindTargets # {}
    BY <1>1 DEF Unwinds
  <2>2. copy.legs["short"].filled = 0
    BY <2>1, HereFacts DEF Opening, Opens
  <2>. QED
    BY <2>1, <2>2 DEF UnwindTargets
<1>2. CASE UnwindEnds
  <2>1. pc = "unwindWait"
    BY <1>2 DEF UnwindEnds
  <2>2. pc \in Places
    BY HereFacts DEF Typed
  <2>. QED
    BY <2>1, <2>2 DEF Places, Opens, Leads, ExitSteps
<1>. QED
  BY <1>1, <1>2

LEMMA NothingUnwoundStep == Covering /\ Here /\ NothingUnwound => There
<1> SUFFICES ASSUME Covering, Here, NothingUnwound PROVE There
  OBVIOUS
<1> DEFINE q == WithResidual(copy)
<1>1. /\ pc = "unwind" /\ pc' = "persist" /\ copy' = q
      /\ UNCHANGED <<env, journal, rec, work, spent>>
  BY DEF NothingUnwound, Goto
<1>2. pc \in Opens
  BY <1>1 DEF Opens
<1>3. UnwindTargets = {}
  BY <1>1, <1>2, HereFacts DEF Opening, UnwindTargets
<1>4. orders' = orders
  BY <1>3 DEF NothingUnwound
<1>5. q \in Shape /\ q.legs = copy.legs /\ q.active = copy.active /\ q.exit = copy.exit
  <2>1. CASE ResidualLegs(copy) = {}
    BY <2>1, HereFacts DEF WithResidual
  <2>2. CASE ResidualLegs(copy) = {"long"}
    <3> DEFINE n == ResidualOf(copy, "long")
    <3>1. n > 0 /\ "long" \in Leg
      BY <2>2 DEF ResidualLegs
    <3>2. n \in Int
      BY HereFacts, ShapeFields, LegFields DEF ResidualOf
    <3>3. q = [copy EXCEPT !.residual = n]
      BY <2>2 DEF WithResidual
    <3> HIDE DEF n
    <3>. QED
      BY <3>1, <3>2, <3>3, HereFacts DEF Shape
  <2>3. CASE ResidualLegs(copy) # {} /\ ResidualLegs(copy) # {"long"}
    <3>1. q = [copy EXCEPT !.told = TRUE]
      BY <2>3 DEF WithResidual
    <3>. QED
      BY <3>1, HereFacts DEF Shape
  <2>. QED
    BY <2>1, <2>2, <2>3
<1> HIDE DEF q
<1>6. ~InPlay(q) /\ ~q.legs["short"].resting
  BY <1>2, <1>5, OpeningFacts, HereFacts DEF InPlay
<1>7. CoverInv(orders, q, rec, journal, "persist", work)
  BY <1>2, <1>5, <1>6, HereFacts, OpeningEnds
<1>. QED
  BY <1>1, <1>4, <1>7 DEF There

LEMMA EntryHandlers == Covering /\ Here /\ EntryNext => There
BY EntryBlockedStep, RecheckBreachesStep, EntrySubmitsStep, EntryFailsStep,
   EntrySubmitFailsStep, EntryLegFilledStep,
   EntryLegPartlyFilledStep, EntryLegUnfilledStep, EntryCancelsStep, EntryCompleteStep,
   UnwindsStep, NothingUnwoundStep
   DEF EntryNext


-----------------------------------------------------------------------------
(* A pass begins, and what it finds of orders it has sent before *)

\* Outside of a round the journal says the same of records with the same open legs.
LEMMA JournalSame ==
  ASSUME NEW r, NEW q, NEW j, NEW p, NEW k, NEW w, NEW v, JournalSound(r, j, p, w),
         p \notin Rounds, k \notin Rounds, q.tp1 = r.tp1 \/ ~q.tp1,
         \A leg : OpenOf(q, leg) = OpenOf(r, leg)
  PROVE  JournalSound(q, j, k, v)
<1>1. p # "await"
  BY DEF Rounds
<1>2. FirstTarget(r, p, w) => FirstTarget(q, k, v)
  BY DEF FirstTarget
<1>. QED
  BY <1>1, <1>2 DEF JournalSound

\* A record that nothing is sent from any more can be anywhere outside the opening.
LEMMA ToRest ==
  ASSUME NEW os, NEW r, NEW d, NEW j, NEW w, NEW p \in {"residual", "persist"},
         Typed(os, r, d, j, p, w), Worst(os) >= 0, ~InPlay(r), w.failed = {} \/ p = "persist",
         ~r.legs["short"].resting, ~d.legs["short"].resting
  PROVE  CoverInv(os, r, d, j, p, w)
<1>1. CASE p = "persist"
  BY <1>1, ToPersist
<1>2. CASE p = "residual"
  <2>1. /\ p \notin Opens \cup Leads \cup Rounds \cup Queries
        /\ p \notin {"positions", "quote", "idle", "persist"}
    BY <1>2 DEF Opens, Leads, Rounds, Queries
  <2>2. Opening(r, j, p, w) /\ Leading(os, r, p, w) /\ Sound(os, r, j, p, w)
        /\ Round(os, r, p, w) /\ Reconciling(os, r, p, w) /\ Ending(r, d, p, w)
    BY <2>1, <1>2 DEF Opening, Leading, Sound, Playing, Round, Reconciling, Ending
  <2>. QED
    BY <2>2 DEF CoverInv
<1>. QED
  BY <1>1, <1>2

\* To the comparison of positions, or to the end.
LEMMA ToTracking ==
  ASSUME NEW os, NEW r, NEW d, NEW j, NEW w, Typed(os, r, d, j, "persist", w), Worst(os) >= 0,
         ~r.legs["short"].resting, ~d.legs["short"].resting, w.failed = {},
         InPlay(r) => /\ LegsSound(os, r) /\ JournalSound(r, j, "persist", w)
                      /\ Worst(os) >= Ahead(r)
  PROVE  CoverInv(os, r, d, j, TrackingStep(r), w)
<1>1. "persist" \notin Rounds /\ "positions" \notin Rounds /\ "positions" \in Places
  BY DEF Rounds, Places, ExitSteps
<1>2. CASE r.active
  <2>1. InPlay(r) /\ TrackingStep(r) = "positions"
    BY <1>2 DEF InPlay, TrackingStep
  <2>2. Typed(os, r, d, j, "positions", w)
    BY <1>1 DEF Typed
  <2>3. JournalSound(r, j, "positions", w)
    BY <1>1, <2>1, JournalSame
  <2>. QED
    BY <2>1, <2>2, <2>3, ToWatch
<1>3. CASE ~r.active
  <2>1. TrackingStep(r) = "persist"
    BY <1>3 DEF TrackingStep
  <2>. QED
    BY <2>1, ToPersist
<1>. QED
  BY <1>2, <1>3

LEMMA IdleFacts ==
  ASSUME Here, pc = "idle"
  PROVE  /\ copy = rec /\ work = NoWork /\ pc \notin Rounds /\ pc \notin Sending
         /\ InPlay(rec) => /\ LegsSound(orders, rec) /\ JournalSound(rec, journal, pc, work)
                           /\ Worst(orders) >= Ahead(rec)
         /\ rec.residual > 0 => ~InPlay(rec)
<1>1. copy = rec /\ work = NoWork /\ (rec.residual > 0 => ~InPlay(rec))
  BY HereFacts DEF Ending
<1>2. pc \notin Rounds /\ pc \notin Sending
  BY DEF Rounds, Sending
<1>3. InPlay(rec) => /\ LegsSound(orders, rec) /\ JournalSound(rec, journal, pc, work)
                     /\ Worst(orders) >= Ahead(rec)
  BY <1>1, <1>2, HereFacts, NoWorkShape DEF Sound, Playing
<1>. QED
  BY <1>1, <1>2, <1>3

LEMMA OrdersToAsk ==
  ASSUME NEW r
  PROVE  /\ WithOrders(r) \in {<<"long", "short">>, <<"long">>, <<"short">>, <<>>}
         /\ WithOrders(r) \in {<<"long", "short">>, <<"long">>} => r.legs["long"].order # 0
         /\ WithOrders(r) \in {<<"long", "short">>, <<"short">>} => r.legs["short"].order # 0
         /\ WithOrders(r) = <<>> => \A leg \in Leg : r.legs[leg].order = 0
<1>0. <<"long">> \in Seq(Leg) /\ <<"short">> \in Seq(Leg) /\ <<>> \in Seq(Leg) /\ "short" \in Leg
  BY DEF Leg
<1>1. /\ <<"long">> \o <<"short">> = <<"long", "short">> /\ <<"long">> \o <<>> = <<"long">>
      /\ <<>> \o <<"short">> = <<"short">> /\ <<>> \o <<>> = <<>>
  <2>1. Append(<<"long">>, "short") = <<"long", "short">>
    <3> DEFINE s == Append(<<"long">>, "short")
    <3> DEFINE t == <<"long", "short">>
    <3>1. s \in Seq(Leg) /\ Len(s) = 2 /\ s[1] = "long" /\ s[2] = "short"
      BY <1>0
    <3>2. t \in Seq(Leg) /\ Len(t) = 2 /\ t[1] = "long" /\ t[2] = "short"
      BY DEF Leg
    <3> HIDE DEF s, t
    <3>3. \A i \in 1 .. Len(s) : s[i] = t[i]
      BY <3>1, <3>2
    <3>4. s = t
      BY <3>1, <3>2, <3>3, SeqEqual
    <3>. QED
      BY <3>4 DEF s, t
  <2>2. Append(<<"long">>, "short") = <<"long">> \o <<"short">>
    BY <1>0, AppendIsConcat
  <2>. QED
    BY <1>0, <2>1, <2>2, ConcatEmptySeq
<1>2. CASE r.legs["long"].order # 0 /\ r.legs["short"].order # 0
  <2>1. WithOrders(r) = <<"long", "short">>
    BY <1>1, <1>2 DEF WithOrders
  <2>. QED
    BY <1>2, <2>1, Going
<1>3. CASE r.legs["long"].order # 0 /\ r.legs["short"].order = 0
  <2>1. WithOrders(r) = <<"long">>
    BY <1>1, <1>3 DEF WithOrders
  <2>. QED
    BY <1>3, <2>1, Going
<1>4. CASE r.legs["long"].order = 0 /\ r.legs["short"].order # 0
  <2>1. WithOrders(r) = <<"short">>
    BY <1>1, <1>4 DEF WithOrders
  <2>. QED
    BY <1>4, <2>1, Going
<1>5. CASE r.legs["long"].order = 0 /\ r.legs["short"].order = 0
  <2>1. WithOrders(r) = <<>>
    BY <1>1, <1>5 DEF WithOrders
  <2>. QED
    BY <1>5, <2>1, Going DEF Leg
<1>. QED
  BY <1>2, <1>3, <1>4, <1>5

LEMMA BeginPassStep == Covering /\ Here /\ BeginPass => There
<1> SUFFICES ASSUME Covering, Here, BeginPass PROVE There
  OBVIOUS
<1> DEFINE t == WithOrders(rec)
<1> DEFINE w == [NoWork EXCEPT !.todo = t]
<1>1. /\ pc = "idle" /\ copy' = rec /\ work' = w
      /\ pc' = (IF rec.residual > 0 THEN "residual" ELSE ReconcileStep(rec))
      /\ UNCHANGED <<env, orders, journal, rec, faults, spent>>
  BY DEF BeginPass, Goto
<1>2. t \in {<<"long", "short">>, <<"long">>, <<"short">>, <<>>} /\ t \in Routes
  BY OrdersToAsk DEF Routes
<1> HIDE DEF t
<1>3. w \in WorkShape /\ w.failed = {} /\ w.todo = t
  BY <1>2, NoWorkShape DEF WorkShape
<1> HIDE DEF w
<1>4. \A p \in Places : Typed(orders, rec, rec, journal, p, w)
  BY <1>3, HereFacts DEF Typed
<1>5. "residual" \in Places /\ "persist" \in Places /\ "query" \in Places
  BY DEF Places, ExitSteps
<1>6. "persist" \notin Rounds /\ "query" \notin Rounds /\ "query" \in Queries
  BY DEF Rounds, Queries
<1>7. CASE rec.residual > 0
  <2>1. CoverInv(orders, rec, rec, journal, "residual", w)
    BY <1>1, <1>3, <1>4, <1>5, <1>7, IdleFacts, HereFacts, ToRest
  <2>. QED
    BY <1>1, <1>7, <2>1 DEF There
<1>8. CASE ~(rec.residual > 0) /\ ReconcileNeeded(rec)
  <2>1. /\ pc' = "query" /\ rec.exit \in {"submitted", "partial"}
        /\ \E leg \in Leg : rec.legs[leg].order # 0
    BY <1>1, <1>8 DEF ReconcileStep, ReconcileNeeded
  <2>2. InPlay(rec)
    BY <2>1 DEF InPlay
  <2>3. LegsSound(orders, rec) /\ Worst(orders) >= Ahead(rec) /\ JournalSound(rec, journal, "query", w)
    BY <1>1, <1>6, <2>2, IdleFacts, JournalSame
  <2>4. /\ rec.legs["short"].order # 0 => rec.legs["short"].order \in DOMAIN orders
        /\ rec.legs["long"].order # 0 => rec.legs["long"].order \in DOMAIN orders
    BY <2>3 DEF LegsSound
  <2>5. t # <<>>
    BY <2>1, OrdersToAsk DEF t
  <2>6. /\ t \in {<<"long", "short">>, <<"short">>} => rec.legs["short"].order \in DOMAIN orders
        /\ t \in {<<"long", "short">>, <<"long">>} => rec.legs["long"].order \in DOMAIN orders
    BY <2>4, OrdersToAsk, Going DEF t
  <2>7. rec.legs[Head(t)].order \in DOMAIN orders
    BY <1>2, <2>5, <2>6, Going
  <2>8. Reconciling(orders, rec, "query", w)
    BY <1>2, <1>3, <2>1, <2>5, <2>6, <2>7 DEF Reconciling
  <2>9. CoverInv(orders, rec, rec, journal, "query", w)
    BY <1>3, <1>4, <1>5, <1>6, <1>8, <2>3, <2>8, HereFacts, ToQuery
  <2>. QED
    BY <1>1, <2>1, <2>9 DEF There
<1>9. CASE ~(rec.residual > 0) /\ ~ReconcileNeeded(rec)
  <2>1. pc' = TrackingStep(rec)
    BY <1>1, <1>9 DEF ReconcileStep
  <2>2. InPlay(rec) => LegsSound(orders, rec) /\ Worst(orders) >= Ahead(rec)
                       /\ JournalSound(rec, journal, "persist", w)
    BY <1>1, <1>6, IdleFacts, JournalSame
  <2>3. CoverInv(orders, rec, rec, journal, TrackingStep(rec), w)
    BY <1>3, <1>4, <1>5, <2>2, HereFacts, ToTracking
  <2>. QED
    BY <1>1, <2>1, <2>3 DEF There
<1>. QED
  BY <1>7, <1>8, <1>9

LEMMA ResidualStep == Covering /\ Here /\ (ResidualLook \/ ResidualLookFails) => There
<1> SUFFICES ASSUME Covering, Here, ResidualLook \/ ResidualLookFails PROVE There
  OBVIOUS
<1> DEFINE q == copy'
<1>1. pc = "residual" /\ UNCHANGED <<env, orders, journal, rec, work, spent>>
  BY DEF ResidualLook, ResidualLookFails
<1>2. ~InPlay(copy) /\ work.failed = {}
  BY <1>1, HereFacts DEF Ending, Rounds, Queries
<1>3. TrackingStep(copy) = "persist" /\ ReconcileStep(copy) = "persist"
  BY <1>2 DEF InPlay, TrackingStep, ReconcileStep, ReconcileNeeded
<1>4. pc' = "persist"
  BY <1>3 DEF ResidualLook, ResidualLookFails, Goto
<1>5. q \in Shape /\ ~InPlay(q) /\ ~q.legs["short"].resting
  <2>1. CASE q = copy
    BY <1>2, <2>1, HereFacts
  <2>2. CASE \E n \in Nat : q = [copy EXCEPT !.flat = n]
    BY <1>2, <2>2, HereFacts DEF Shape, InPlay
  <2>3. CASE q = [copy EXCEPT !.residual = 0, !.exit = "filled", !.flat = 0,
                    !.legs["long"] = [@ EXCEPT !.status = "filled", !.done = copy.residual,
                                               !.qty = Max({copy.legs["long"].qty, copy.residual})]]
    <3>1. copy.legs["long"] \in LegShape /\ copy.residual \in Nat /\ copy.legs["long"].qty \in Nat
      BY HereFacts, ShapeFields, LegFields
    <3>2. Max({copy.legs["long"].qty, copy.residual}) \in Nat
      BY <3>1, MaxOfTwo
    <3> DEFINE n == Max({copy.legs["long"].qty, copy.residual})
    <3> DEFINE l == [copy.legs["long"] EXCEPT !.status = "filled", !.done = copy.residual,
                                               !.qty = n]
    <3> DEFINE m == [copy.legs EXCEPT !["long"] = l]
    <3>3. l \in LegShape
      <4> HIDE DEF n
      <4>. QED
        BY <3>1, <3>2 DEF LegShape, n
    <3>4. m \in [Leg -> LegShape] /\ m["short"] = copy.legs["short"]
      <4> HIDE DEF l
      <4>. QED
        BY <3>3, HereFacts, ShapeFields DEF Leg
    <3>5. copy.legs = [leg \in Leg |-> copy.legs[leg]] /\ copy \in Shape
      BY HereFacts, ShapeFields
    <3>6. q.legs = m /\ q.exit = "filled" /\ q.active = copy.active
      BY <2>3, <3>5 DEF Shape
    <3>7. q = [copy EXCEPT !.residual = 0, !.exit = "filled", !.flat = 0, !.legs = m]
      BY <2>3, <3>5 DEF Shape
    <3> HIDE DEF m
    <3>8. q \in Shape
      BY <3>4, <3>5, <3>7 DEF Shape
    <3>. QED
      BY <1>2, <3>4, <3>6, <3>8, HereFacts DEF InPlay
  <2>. QED
    BY <2>1, <2>2, <2>3 DEF ResidualLook, ResidualLookFails
<1> HIDE DEF q
<1>6. Typed(orders, q, rec, journal, "persist", work)
  BY <1>5, HereFacts DEF Typed, Places
<1>7. CoverInv(orders, q, rec, journal, "persist", work)
  BY <1>2, <1>5, <1>6, HereFacts, ToRest
<1>. QED
  BY <1>1, <1>4, <1>7 DEF There, q

-----------------------------------------------------------------------------
(* Reconciling the exit orders of a record in play *)

Asks == {"query", "escalate", "look", "resend"}

LEMMA AskFacts ==
  ASSUME Here, pc \in Asks
  PROVE  /\ pc \in Queries /\ pc # "settle" /\ InPlay(copy)
         /\ copy.exit \in {"submitted", "partial"} /\ ~(copy.residual > 0)
         /\ work.todo \in {<<"long", "short">>, <<"long">>, <<"short">>}
         /\ NextLeg = Head(work.todo) /\ NextLeg \in Leg
         /\ copy.legs[NextLeg].order \in DOMAIN orders
         /\ work.todo = <<"long", "short">> => copy.legs["short"].order \in DOMAIN orders
         /\ ExitOrder(NextLeg) \in OrderShape
         /\ ExitOrder(NextLeg).filled =
              IF ExitOrder(NextLeg).state = "filled" THEN ExitOrder(NextLeg).qty ELSE 0
         /\ work.failed = {} => /\ LegsSound(orders, copy) /\ JournalSound(copy, journal, pc, work)
                                /\ pc \notin Sending => Worst(orders) >= Ahead(copy)
                                /\ Ahead(copy) \in Int
<1>1. pc \in Queries /\ pc # "settle"
  BY DEF Asks, Queries
<1>2. /\ copy.exit \in {"submitted", "partial"}
      /\ work.todo \in {<<"long", "short">>, <<"long">>, <<"short">>}
      /\ copy.legs[Head(work.todo)].order \in DOMAIN orders
      /\ work.todo = <<"long", "short">> => copy.legs["short"].order \in DOMAIN orders
  BY <1>1, HereFacts DEF Reconciling
<1>3. InPlay(copy) /\ ~(copy.residual > 0)
  BY <1>2, HereFacts DEF InPlay, Ending
<1>4. NextLeg = Head(work.todo) /\ NextLeg \in Leg
  BY <1>2, Going DEF NextLeg, Leg
<1>5. /\ ExitOrder(NextLeg) \in OrderShape
      /\ ExitOrder(NextLeg).filled =
              IF ExitOrder(NextLeg).state = "filled" THEN ExitOrder(NextLeg).qty ELSE 0
  BY <1>2, <1>4, HereFacts DEF ExitOrder, Whole
<1>6. ASSUME work.failed = {}
      PROVE  /\ LegsSound(orders, copy) /\ JournalSound(copy, journal, pc, work)
             /\ pc \notin Sending => Worst(orders) >= Ahead(copy)
             /\ Ahead(copy) \in Int
  BY <1>3, <1>6, HereFacts, AheadType DEF Sound, Playing
<1>. QED
  BY <1>1, <1>2, <1>3, <1>4, <1>5, <1>6

\* The orders of a leg are dealt with: on to the next, or to the end.
LEMMA LegIsOver ==
  ASSUME Here, pc \in Asks, NEW os, Whole(os), DOMAIN orders \subseteq DOMAIN os, Worst(os) >= 0,
         NEW q \in Shape, q.exit = copy.exit, q.active = copy.active, q.residual = copy.residual,
         ~q.legs["short"].resting,
         \A leg \in Leg : leg # NextLeg => q.legs[leg] = copy.legs[leg],
         q.tp1 = copy.tp1, \A leg \in Leg : q.legs[leg].qty = copy.legs[leg].qty,
         NEW w \in WorkShape, w.todo = Tail(work.todo),
         w.failed = {} => work.failed = {} /\ LegsSound(os, q) /\ Worst(os) >= Ahead(copy)
  PROVE  CoverInv(os, q, rec, journal, AfterLeg, w)
<1> DEFINE p == AfterLeg
<1>1. /\ work.todo \in {<<"long", "short">>, <<"long">>, <<"short">>}
      /\ NextLeg = Head(work.todo) /\ InPlay(copy) /\ ~(copy.residual > 0)
  BY AskFacts
<1>2. \/ /\ work.todo = <<"long", "short">> /\ p = "query" /\ w.todo = <<"short">>
         /\ NextLeg = "long" /\ q.legs["short"] = copy.legs["short"]
         /\ copy.legs["short"].order \in DOMAIN orders
      \/ p = "settle" /\ w.todo = <<>>
  <2>1. CASE work.todo = <<"long", "short">>
    <3>1. p = "query" /\ w.todo = <<"short">> /\ NextLeg = "long"
      BY <1>1, <2>1, Going DEF AfterLeg
    <3>2. copy.legs["short"].order \in DOMAIN orders
      BY <2>1, AskFacts
    <3>. QED
      BY <2>1, <3>1, <3>2 DEF Leg
  <2>2. CASE work.todo = <<"long">> \/ work.todo = <<"short">>
    BY <2>2, Going DEF AfterLeg
  <2>. QED
    BY <1>1, <2>1, <2>2
<1> HIDE DEF p
<1>3. p \in {"query", "settle"} /\ p \in Queries /\ p \in Places /\ p \notin Rounds
  BY <1>2 DEF Queries, Places, ExitSteps, Rounds
<1>4. Typed(os, q, rec, journal, p, w)
  BY <1>3, HereFacts DEF Typed
<1>5. Reconciling(os, q, p, w)
  <2>1. q.exit \in {"submitted", "partial"}
    BY AskFacts
  <2>2. p # "settle" => w.todo # <<>>
    BY <1>2, Going
  <2>3. w.todo # <<>> => q.legs[Head(w.todo)].order \in DOMAIN os
    BY <1>2, Going
  <2>4. w.todo \notin {<<"long", "short">>, <<"long">>}
    BY <1>2, Going
  <2>5. w.todo \in {<<"long", "short">>, <<"long">>, <<"short">>, <<>>}
    BY <1>2
  <2>. QED
    BY <1>3, <2>1, <2>2, <2>3, <2>4, <2>5 DEF Reconciling
<1>6. ASSUME w.failed = {}
      PROVE  LegsSound(os, q) /\ JournalSound(q, journal, p, w) /\ Worst(os) >= Ahead(q)
  <2>1. \A leg \in Leg : OpenOf(q, leg) = OpenOf(copy, leg)
    BY DEF OpenOf
  <2>2. Ahead(q) = Ahead(copy)
    BY <2>1 DEF Ahead, Leg
  <2>3. pc \notin Rounds /\ JournalSound(copy, journal, pc, work)
    BY <1>6, AskFacts DEF Asks, Rounds
  <2>4. JournalSound(q, journal, p, w)
    BY <1>3, <2>1, <2>3 DEF JournalSound, FirstTarget, Leg, Rounds
  <2>. QED
    BY <1>6, <2>2, <2>4
<1>7. CoverInv(os, q, rec, journal, p, w)
  BY <1>1, <1>3, <1>4, <1>5, <1>6, HereFacts, ToQuery
<1>. QED
  BY <1>7 DEF p

LEMMA PendingWork ==
  ASSUME Here, pc \in Asks, LegIsPending
  PROVE  work' \in WorkShape /\ work'.todo = Tail(work.todo) /\ work'.failed = work.failed
<1>1. /\ work \in WorkShape /\ Tail(work.todo) \in Routes /\ NextLeg \in Leg
      /\ work.sent \cup {NextLeg} \in SUBSET Leg
  <2>1. work.todo # <<>> /\ NextLeg \in Leg
    BY AskFacts, Going
  <2>. QED
    BY <2>1, HereFacts, WorkFields, RoutesOf
<1> DEFINE s == work.sent \cup {NextLeg}
<1>2. work' = [work EXCEPT !.todo = Tail(work.todo), !.sent = s]
  BY <1>1 DEF LegIsPending, WorkDone, WorkShape
<1> HIDE DEF s
<1>. QED
  BY <1>1, <1>2 DEF WorkShape, s

\* A question or a cancel fails: the leg is looked at in the next pass.
LEMMA StillPendingStep ==
  ASSUME Covering, Here, pc \in {"query", "escalate", "resend"}, LegIsPending, pc' = AfterLeg,
         UNCHANGED <<env, orders, journal, rec, copy>>,
         work.failed = {} => Worst(orders) >= Ahead(copy)
  PROVE  There
<1>1. pc \in Asks
  BY DEF Asks
<1>2. work' \in WorkShape /\ work'.todo = Tail(work.todo) /\ work'.failed = work.failed
  BY <1>1, PendingWork
<1>3. work.failed = {} => LegsSound(orders, copy)
  BY <1>1, AskFacts
<1>4. CoverInv(orders, copy, rec, journal, AfterLeg, work')
  <2> DEFINE w == work'
  <2>1. w \in WorkShape /\ w.todo = Tail(work.todo) /\ w.failed = work.failed
    BY <1>2
  <2> HIDE DEF w
  <2>2. CoverInv(orders, copy, rec, journal, AfterLeg, w)
    BY <1>1, <1>3, <2>1, HereFacts, LegIsOver
  <2>. QED
    BY <2>2 DEF w
<1>. QED
  BY <1>4 DEF There

LEMMA QueryFailsStep == Covering /\ Here /\ (QueryFails \/ EscalateCancelFails) => There
<1> SUFFICES ASSUME Covering, Here, QueryFails \/ EscalateCancelFails PROVE There
  OBVIOUS
<1>1. /\ pc \in {"query", "escalate"} /\ LegIsPending /\ pc' = AfterLeg
      /\ UNCHANGED <<env, orders, journal, rec, copy>>
  BY DEF QueryFails, EscalateCancelFails, Goto
<1>2. pc \in Asks /\ pc \notin Sending
  BY <1>1 DEF Asks, Sending
<1>. QED
  BY <1>1, <1>2, AskFacts, StillPendingStep

LEMMA ResendFailsStep == Covering /\ Here /\ ResendFails => There
<1> SUFFICES ASSUME Covering, Here, ResendFails PROVE There
  OBVIOUS
<1>1. /\ pc = "resend" /\ LegIsPending /\ pc' = AfterLeg
      /\ UNCHANGED <<env, journal, rec, copy>>
  BY DEF ResendFails, Goto
<1>2. orders' = orders
  BY DEF ResendFails, SubmitLost, Covering, Tame, TameExit
<1>3. pc \in Asks /\ pc \in Queries
  BY <1>1 DEF Asks, Queries
<1> DEFINE n == copy.legs["long"].qty
<1>4. Worst(orders) - n >= Ahead(copy) /\ work.failed = {}
  BY <1>1, <1>3, HereFacts DEF Reconciling
<1>5. n \in Nat /\ Ahead(copy) \in Int
  BY <1>3, <1>4, HereFacts, ShapeFields, LegFields, AskFacts
<1> HIDE DEF n
<1>6. Worst(orders) >= Ahead(copy)
  BY <1>4, <1>5, HereFacts
<1>. QED
  BY <1>1, <1>2, <1>6, StillPendingStep

\* The work of LegIsFailed and of LegIsFilled
LEMMA DoneWork ==
  ASSUME Here, work.todo # <<>>, NextLeg \in Leg, NEW w,
         \/ w = [WorkDone EXCEPT !.failed = @ \cup {NextLeg}]
         \/ w = [WorkDone EXCEPT !.full = @ \cup {NextLeg}]
         \/ w = [WorkDone EXCEPT !.sent = @ \cup {NextLeg}]
         \/ w = WorkDone
  PROVE  /\ w \in WorkShape /\ w.todo = Tail(work.todo)
         /\ w.trigger = work.trigger /\ w.amount = work.amount
         /\ IF w = [WorkDone EXCEPT !.failed = @ \cup {NextLeg}]
              THEN w.failed = work.failed \cup {NextLeg}
              ELSE w.failed = work.failed
<1> DEFINE v == [work EXCEPT !.todo = Tail(work.todo)]
<1>1. /\ work \in WorkShape /\ Tail(work.todo) \in Routes
      /\ \A s \in SUBSET Leg : s \cup {NextLeg} \in SUBSET Leg
  BY HereFacts, WorkFields, RoutesOf
<1>2. v = WorkDone
  BY DEF WorkDone
<1>3. /\ v \in WorkShape /\ v.todo = Tail(work.todo) /\ v.trigger = work.trigger
      /\ v.amount = work.amount /\ v.failed = work.failed
  BY <1>1 DEF WorkShape
<1> HIDE DEF v
<1>4. CASE w = [v EXCEPT !.failed = v.failed \cup {NextLeg}]
  <2> DEFINE s == v.failed \cup {NextLeg}
  <2>1. s \in SUBSET Leg
    BY <1>1, <1>3, WorkFields
  <2>2. w = [v EXCEPT !.failed = s]
    BY <1>4
  <2> HIDE DEF s
  <2>3. /\ w \in WorkShape /\ w.todo = v.todo /\ w.trigger = v.trigger /\ w.amount = v.amount
        /\ w.failed = s
    BY <1>3, <2>1, <2>2 DEF WorkShape
  <2>. QED
    BY <1>2, <1>3, <1>4, <2>3 DEF s
<1>5. CASE w = [v EXCEPT !.full = v.full \cup {NextLeg}]
  <2> DEFINE s == v.full \cup {NextLeg}
  <2>1. s \in SUBSET Leg
    BY <1>1, <1>3, WorkFields
  <2>2. w = [v EXCEPT !.full = s]
    BY <1>5
  <2> HIDE DEF s
  <2>3. /\ w \in WorkShape /\ w.todo = v.todo /\ w.trigger = v.trigger /\ w.amount = v.amount
        /\ w.failed = v.failed
    BY <1>3, <2>1, <2>2 DEF WorkShape
  <2>4. w = [v EXCEPT !.failed = v.failed \cup {NextLeg}] => w.failed = v.failed \cup {NextLeg}
    BY <1>3 DEF WorkShape
  <2>. QED
    BY <1>2, <1>3, <2>3, <2>4
<1>6. CASE w = [v EXCEPT !.sent = v.sent \cup {NextLeg}]
  <2> DEFINE s == v.sent \cup {NextLeg}
  <2>1. s \in SUBSET Leg
    BY <1>1, <1>3, WorkFields
  <2>2. w = [v EXCEPT !.sent = s]
    BY <1>6
  <2> HIDE DEF s
  <2>3. /\ w \in WorkShape /\ w.todo = v.todo /\ w.trigger = v.trigger /\ w.amount = v.amount
        /\ w.failed = v.failed
    BY <1>3, <2>1, <2>2 DEF WorkShape
  <2>4. w = [v EXCEPT !.failed = v.failed \cup {NextLeg}] => w.failed = v.failed \cup {NextLeg}
    BY <1>3 DEF WorkShape
  <2>. QED
    BY <1>2, <1>3, <2>3, <2>4
<1>7. CASE w = v
  <2>1. w = [v EXCEPT !.failed = v.failed \cup {NextLeg}] => w.failed = v.failed \cup {NextLeg}
    BY <1>3 DEF WorkShape
  <2>. QED
    BY <1>2, <1>3, <1>7, <2>1
<1>. QED
  BY <1>2, <1>4, <1>5, <1>6, <1>7

\* A change of a leg that is no matter of what is open
LEMMA LegTouched ==
  ASSUME Here, pc \in Asks, NEW l \in LegShape,
         l.qty = copy.legs[NextLeg].qty, l.filled = copy.legs[NextLeg].filled,
         NextLeg = "short" => ~l.resting, NEW q, q = LegSet(copy, NextLeg, l)
  PROVE  /\ q \in Shape /\ q.exit = copy.exit /\ q.active = copy.active
         /\ q.residual = copy.residual /\ q.tp1 = copy.tp1 /\ q.closed = copy.closed
         /\ ~q.legs["short"].resting /\ q.legs[NextLeg] = l
         /\ \A leg \in Leg : leg # NextLeg => q.legs[leg] = copy.legs[leg]
         /\ \A leg \in Leg : q.legs[leg].qty = copy.legs[leg].qty
         /\ \A leg \in Leg : OpenOf(q, leg) = OpenOf(copy, leg)
<1>1. NextLeg \in Leg /\ copy \in Shape /\ ~copy.legs["short"].resting /\ l \in LegShape
  BY AskFacts, HereFacts
<1>2. /\ q \in Shape /\ q.legs[NextLeg] = l
      /\ \A k \in Leg : k # NextLeg => q.legs[k] = copy.legs[k]
      /\ q.exit = copy.exit /\ q.active = copy.active /\ q.residual = copy.residual
      /\ q.closed = copy.closed /\ q.tp1 = copy.tp1
  BY <1>1, LegChanges
<1>3. ~q.legs["short"].resting
  BY <1>1, <1>2 DEF Leg
<1>4. \A leg \in Leg : q.legs[leg].qty = copy.legs[leg].qty
  BY <1>2
<1>5. \A leg \in Leg : OpenOf(q, leg) = OpenOf(copy, leg)
  BY <1>4 DEF OpenOf
<1>. QED
  BY <1>2, <1>3, <1>4, <1>5

\* The record stays sound when an order of one of its legs is read, or sent again.
LEMMA TouchedSound ==
  ASSUME NEW os, NEW r \in Shape, NEW q \in Shape, LegsSound(os, r), NEW leg \in Leg,
         \A k \in Leg : k # leg => q.legs[k] = r.legs[k],
         \A k \in Leg : q.legs[k].qty = r.legs[k].qty /\ q.legs[k].filled = r.legs[k].filled,
         q.residual = r.residual, q.closed = r.closed, q.tp1 = r.tp1,
         r.legs[leg].order \in DOMAIN os, 0 \notin DOMAIN os,
         q.legs[leg].order \in DOMAIN os,
         leg = "short" => q.legs[leg].order = r.legs[leg].order /\ q.legs[leg].status = r.legs[leg].status,
         leg = "long" => q.legs[leg].status \in {"submitted", "filled"},
         leg = "long" /\ q.legs[leg].resting =>
            LET o == os[q.legs[leg].order]
            IN  o.leg = "long" /\ o.part = "exit" /\ o.qty = q.legs[leg].qty
  PROVE  LegsSound(os, q)
<1>1. \A k : OpenOf(q, k) = OpenOf(r, k) \/ k \notin Leg
  BY DEF OpenOf
<1>2. OpenOf(q, "short") = OpenOf(r, "short") /\ OpenOf(q, "long") = OpenOf(r, "long")
  BY <1>1 DEF Leg
<1>3. CASE leg = "long"
  <2>1. q.legs["short"] = r.legs["short"]
    BY <1>3 DEF Leg
  <2>2. r.legs["long"].status # "none"
    BY <1>3 DEF LegsSound
  <2>3. q.legs["long"].filled = Units
    BY <1>3 DEF LegsSound
  <2>. QED
    BY <1>2, <1>3, <2>1, <2>2, <2>3 DEF LegsSound
<1>4. CASE leg = "short"
  <2>1. q.legs["long"] = r.legs["long"]
    BY <1>4 DEF Leg
  <2>2. q.legs["short"].status = "filled" /\ q.legs["short"].filled = Units
        /\ os[q.legs["short"].order].state = "filled" /\ q.legs["short"].order \in DOMAIN os
    BY <1>4 DEF LegsSound
  <2>. QED
    BY <1>2, <1>4, <2>1, <2>2 DEF LegsSound
<1>. QED
  BY <1>3, <1>4 DEF Leg

LEMMA QueryOverStep == Covering /\ Here /\ QueryOver => There
<1> SUFFICES ASSUME Covering, Here, QueryOver PROVE There
  OBVIOUS
<1> DEFINE o == ExitOrder(NextLeg)
<1> DEFINE leg == NextLeg
<1>1. /\ pc = "query" /\ pc' = AfterLeg /\ pc \in Asks
      /\ UNCHANGED <<env, orders, journal, rec, faults, spent>>
  BY DEF QueryOver, Goto, Asks
<1>2. /\ leg \in Leg /\ copy.legs[leg] \in LegShape /\ copy \in Shape /\ work.todo # <<>>
      /\ work.failed \in SUBSET Leg /\ o.filled \in Nat
      /\ copy.legs["short"].resting = FALSE
  <2>1. leg \in Leg /\ work.todo # <<>> /\ o.filled \in Nat
    BY <1>1, AskFacts, Going, OrderFields
  <2>2. copy.legs["short"].resting = FALSE
    BY HereFacts, ShapeFields, LegFields
  <2>. QED
    BY <2>1, <2>2, HereFacts, ShapeFields, WorkFields
<1>3. CASE DeadUnfilled(o) /\ LegIsFailed
  <2> DEFINE l == [copy.legs[leg] EXCEPT !.status = "failed", !.done = 0]
  <2> DEFINE q == copy'
  <2> DEFINE w == work'
  <2>1. l \in LegShape /\ l.qty = copy.legs[leg].qty /\ l.filled = copy.legs[leg].filled
        /\ l.resting = copy.legs[leg].resting
    BY <1>2 DEF LegShape
  <2>2. q = LegSet(copy, leg, l)
    BY <1>3 DEF LegIsFailed, LegSet
  <2>3. w = [WorkDone EXCEPT !.failed = @ \cup {NextLeg}]
    BY <1>3 DEF LegIsFailed
  <2> HIDE DEF l, q, w
  <2>4. w \in WorkShape /\ w.todo = Tail(work.todo) /\ w.failed # {}
    BY <1>2, <2>3, DoneWork
  <2>5. leg = "short" => ~l.resting
    BY <1>2, <2>1
  <2>6. /\ q \in Shape /\ q.exit = copy.exit /\ q.active = copy.active
        /\ q.residual = copy.residual /\ q.tp1 = copy.tp1
        /\ ~q.legs["short"].resting
        /\ \A k \in Leg : k # leg => q.legs[k] = copy.legs[k]
        /\ \A k \in Leg : q.legs[k].qty = copy.legs[k].qty
    BY <1>1, <2>1, <2>2, <2>5, LegTouched
  <2>7. CoverInv(orders, q, rec, journal, AfterLeg, w)
    BY <1>1, <2>4, <2>6, HereFacts, LegIsOver
  <2>. QED
    BY <1>1, <2>7 DEF There, q, w
<1>4. CASE FilledNow(o, copy.legs[leg].qty) /\ LegIsFilled(o.filled)
  <2> DEFINE l == [copy.legs[leg] EXCEPT !.status = "filled", !.done = o.filled]
  <2> DEFINE q == copy'
  <2> DEFINE w == work'
  <2>1. l \in LegShape /\ l.qty = copy.legs[leg].qty /\ l.filled = copy.legs[leg].filled
        /\ l.resting = copy.legs[leg].resting /\ l.order = copy.legs[leg].order
        /\ l.status = "filled"
    BY <1>2 DEF LegShape
  <2>2. q = LegSet(copy, leg, l)
    BY <1>4 DEF LegIsFilled, LegSet
  <2>3. w = [WorkDone EXCEPT !.full = @ \cup {NextLeg}]
    BY <1>4 DEF LegIsFilled
  <2> HIDE DEF l, q, w
  <2>4. w \in WorkShape /\ w.todo = Tail(work.todo) /\ (w.failed = {} => work.failed = {})
    BY <1>2, <2>3, DoneWork
  <2>5. leg = "short" => ~l.resting
    BY <1>2, <2>1
  <2>6. /\ q \in Shape /\ q.exit = copy.exit /\ q.active = copy.active
        /\ q.residual = copy.residual /\ q.tp1 = copy.tp1 /\ q.closed = copy.closed
        /\ ~q.legs["short"].resting /\ q.legs[leg] = l
        /\ \A k \in Leg : k # leg => q.legs[k] = copy.legs[k]
        /\ \A k \in Leg : q.legs[k].qty = copy.legs[k].qty
    BY <1>1, <2>1, <2>2, <2>5, LegTouched
  <2>7. ASSUME work.failed = {} PROVE LegsSound(orders, q)
    <3>1. LegsSound(orders, copy) /\ copy.legs[leg].order \in DOMAIN orders
      BY <1>1, <2>7, AskFacts
    <3>2. 0 \notin DOMAIN orders
      BY HereFacts, WholeOrders
    <3>3. leg = "short" => copy.legs[leg].status = "filled"
      BY <3>1, <3>2 DEF LegsSound
    <3>4. leg = "long" /\ q.legs[leg].resting =>
            LET x == orders[q.legs[leg].order]
            IN  x.leg = "long" /\ x.part = "exit" /\ x.qty = q.legs[leg].qty
      BY <2>1, <2>6, <3>1 DEF LegsSound
    <3>5. \A k \in Leg : q.legs[k].filled = copy.legs[k].filled
      BY <2>1, <2>6
    <3> HIDE DEF leg
    <3>. QED
      BY <1>2, <2>1, <2>6, <3>1, <3>2, <3>3, <3>4, <3>5, TouchedSound
  <2>8. work.failed = {} => Worst(orders) >= Ahead(copy)
    BY <1>1, AskFacts DEF Sending
  <2>9. CoverInv(orders, q, rec, journal, AfterLeg, w)
    BY <1>1, <2>4, <2>6, <2>7, <2>8, HereFacts, LegIsOver
  <2>. QED
    BY <1>1, <2>9 DEF There, q, w
<1>. QED
  BY <1>3, <1>4 DEF QueryOver

\* A leg at a limit is walked on: nothing has failed before it.
LEMMA LongIsNext ==
  ASSUME Here, pc \in Asks, NextLeg = "long"
  PROVE  /\ work.failed = {} /\ work.todo \in {<<"long", "short">>, <<"long">>}
         /\ LegsSound(orders, copy) /\ JournalSound(copy, journal, pc, work)
         /\ Ahead(copy) \in Int /\ copy.legs["long"].order \in DOMAIN orders
         /\ work.todo = <<"long", "short">> => copy.legs["short"].order \in DOMAIN orders
<1>1. work.todo \in {<<"long", "short">>, <<"long">>} /\ pc \in Queries
  BY AskFacts, Going
<1>2. work.failed = {}
  BY <1>1, HereFacts DEF Reconciling
<1>. QED
  BY <1>1, <1>2, AskFacts

LEMMA LegIsWalked ==
  ASSUME Here, pc \in Asks, NextLeg = "long", NEW p \in {"escalate", "look", "resend"},
         NEW os, Whole(os), DOMAIN orders = DOMAIN os, Worst(os) >= 0,
         NEW q \in Shape, q.exit = copy.exit, q.active = copy.active, q.residual = copy.residual,
         q.tp1 = copy.tp1, q.legs["short"] = copy.legs["short"],
         q.legs["long"].qty = copy.legs["long"].qty, q.legs["long"].resting,
         q.legs["long"].order = copy.legs["long"].order, LegsSound(os, q),
         p = "escalate" => Worst(os) >= Ahead(copy),
         p # "escalate" => LET l == copy.legs["long"]
                           IN  /\ os[l.order].state = "canceled"
                               /\ Worst(os) - l.qty >= 0 /\ Worst(os) - l.qty >= Ahead(copy)
  PROVE  CoverInv(os, q, rec, journal, p, work)
<1>1. /\ p \in Queries /\ p \in Places /\ p \notin Rounds /\ p # "settle" /\ p # "query"
      /\ (p \notin Sending => p = "escalate")
  BY DEF Queries, Places, ExitSteps, Rounds, Sending
<1>2. Typed(os, q, rec, journal, p, work)
  BY <1>1, HereFacts DEF Typed
<1>3. \A leg \in Leg : OpenOf(q, leg) = OpenOf(copy, leg)
  BY DEF OpenOf, Leg
<1>4. Ahead(q) = Ahead(copy)
  BY <1>3 DEF Ahead, Leg
<1>5. JournalSound(q, journal, p, work)
  <2>1. pc \notin Rounds /\ JournalSound(copy, journal, pc, work)
    BY LongIsNext DEF Asks, Rounds
  <2>. QED
    BY <1>1, <1>3, <2>1 DEF JournalSound, FirstTarget, Leg, Rounds
<1>6. Reconciling(os, q, p, work)
  <2>1. /\ work.todo \in {<<"long", "short">>, <<"long">>} /\ work.todo # <<>>
        /\ Head(work.todo) = "long" /\ q.legs["long"].order \in DOMAIN os
        /\ work.todo = <<"long", "short">> => q.legs["short"].order \in DOMAIN os
        /\ q.exit \in {"submitted", "partial"} /\ work.failed = {}
    BY LongIsNext, AskFacts, Going
  <2>. QED
    BY <1>1, <1>4, <2>1 DEF Reconciling
<1>7. ~q.legs["short"].resting /\ ~(q.residual > 0)
  BY AskFacts, HereFacts
<1>. QED
  BY <1>1, <1>2, <1>4, <1>5, <1>6, <1>7, HereFacts, ToQuery

LEMMA QueryPendingStep == Covering /\ Here /\ QueryPending => There
<1> SUFFICES ASSUME Covering, Here, QueryPending PROVE There
  OBVIOUS
<1> DEFINE o == ExitOrder(NextLeg)
<1> DEFINE leg == NextLeg
<1> DEFINE l == [copy.legs[leg] EXCEPT !.done = o.filled]
<1> DEFINE q == copy'
<1> DEFINE w == work'
<1>1. /\ pc = "query" /\ pc \in Asks /\ pc \notin Sending
      /\ q = LegSet(copy, leg, l)
      /\ UNCHANGED <<env, orders, journal, rec, faults, spent>>
      /\ IF copy.legs[leg].resting THEN pc' = "escalate" /\ w = work
                                   ELSE pc' = AfterLeg /\ LegIsPending
  BY DEF QueryPending, Goto, Asks, Sending, LegSet
<1>2. /\ leg \in Leg /\ copy.legs[leg] \in LegShape /\ copy \in Shape /\ o.filled \in Nat
      /\ copy.legs["short"].resting = FALSE
  <2>1. leg \in Leg /\ o.filled \in Nat
    BY <1>1, AskFacts, OrderFields
  <2>2. copy.legs["short"].resting = FALSE
    BY HereFacts, ShapeFields, LegFields
  <2>. QED
    BY <2>1, <2>2, HereFacts, ShapeFields
<1>3. l \in LegShape /\ l.qty = copy.legs[leg].qty /\ l.filled = copy.legs[leg].filled
      /\ l.resting = copy.legs[leg].resting /\ l.order = copy.legs[leg].order
      /\ l.status = copy.legs[leg].status
  BY <1>2 DEF LegShape
<1> HIDE DEF l, q, w
<1>4. leg = "short" => ~l.resting
  BY <1>2, <1>3
<1>5. /\ q \in Shape /\ q.exit = copy.exit /\ q.active = copy.active
      /\ q.residual = copy.residual /\ q.tp1 = copy.tp1 /\ q.closed = copy.closed
      /\ ~q.legs["short"].resting /\ q.legs[leg] = l
      /\ \A k \in Leg : k # leg => q.legs[k] = copy.legs[k]
      /\ \A k \in Leg : q.legs[k].qty = copy.legs[k].qty
  BY <1>1, <1>3, <1>4, LegTouched
<1>6. ASSUME work.failed = {} PROVE LegsSound(orders, q) /\ Worst(orders) >= Ahead(copy)
  <2>1. LegsSound(orders, copy) /\ copy.legs[leg].order \in DOMAIN orders
        /\ Worst(orders) >= Ahead(copy)
    BY <1>1, <1>6, AskFacts
  <2>2. 0 \notin DOMAIN orders
    BY HereFacts, WholeOrders
  <2>3. leg = "long" => q.legs[leg].status \in {"submitted", "filled"}
    BY <1>3, <1>5, <2>1, <2>2 DEF LegsSound
  <2>4. leg = "long" /\ q.legs[leg].resting =>
          LET x == orders[q.legs[leg].order]
          IN  x.leg = "long" /\ x.part = "exit" /\ x.qty = q.legs[leg].qty
    BY <1>3, <1>5, <2>1 DEF LegsSound
  <2>5. \A k \in Leg : q.legs[k].filled = copy.legs[k].filled
    BY <1>3, <1>5
  <2> HIDE DEF leg
  <2>. QED
    BY <1>2, <1>3, <1>5, <2>1, <2>2, <2>3, <2>4, <2>5, TouchedSound
<1>7. CASE copy.legs[leg].resting
  <2>1. leg = "long" /\ pc' = "escalate" /\ w = work
    BY <1>1, <1>2, <1>7 DEF Leg
  <2>2. work.failed = {} /\ copy.legs["long"].order \in DOMAIN orders
    BY <1>1, <2>1, LongIsNext
  <2>3. /\ q.legs["short"] = copy.legs["short"] /\ q.legs["long"].qty = copy.legs["long"].qty
        /\ q.legs["long"].resting /\ q.legs["long"].order = copy.legs["long"].order
    BY <1>3, <1>5, <1>7, <2>1 DEF Leg
  <2>4. CoverInv(orders, q, rec, journal, "escalate", work)
    BY <1>1, <1>5, <1>6, <2>1, <2>2, <2>3, HereFacts, LegIsWalked
  <2>. QED
    BY <1>1, <2>1, <2>4 DEF There, q, w
<1>8. CASE ~copy.legs[leg].resting
  <2>1. pc' = AfterLeg /\ LegIsPending
    BY <1>1, <1>8
  <2>2. w \in WorkShape /\ w.todo = Tail(work.todo) /\ w.failed = work.failed
    BY <1>1, <2>1, PendingWork DEF w
  <2>3. CoverInv(orders, q, rec, journal, AfterLeg, w)
    BY <1>1, <1>5, <1>6, <2>2, HereFacts, LegIsOver
  <2>. QED
    BY <1>1, <2>1, <2>3 DEF There, q, w
<1>. QED
  BY <1>7, <1>8

LEMMA WalkFacts ==
  ASSUME Here, pc \in {"escalate", "look", "resend"}
  PROVE  /\ pc \in Asks /\ NextLeg = "long" /\ copy.legs["long"].resting
         /\ copy.legs["long"].qty \in Nat \ {0} /\ copy.legs["long"].order \in DOMAIN orders
         /\ ExitOrder("long").leg = "long" /\ ExitOrder("long").part = "exit"
         /\ ExitOrder("long").qty = copy.legs["long"].qty
         /\ pc # "escalate" =>
              LET l == copy.legs["long"]
              IN  /\ orders[l.order].state = "canceled"
                  /\ Worst(orders) - l.qty >= 0 /\ Worst(orders) - l.qty >= Ahead(copy)
<1>1. pc \in Asks /\ pc \in Queries
  BY DEF Asks, Queries
<1>2. /\ NextLeg = "long" /\ copy.legs["long"].resting
      /\ pc # "escalate" =>
              LET l == copy.legs["long"]
              IN  /\ orders[l.order].state = "canceled"
                  /\ Worst(orders) - l.qty >= 0 /\ Worst(orders) - l.qty >= Ahead(copy)
  BY <1>1, HereFacts, AskFacts, Going DEF Reconciling
<1>3. LegsSound(orders, copy) /\ copy.legs["long"].order \in DOMAIN orders
  BY <1>1, <1>2, LongIsNext
<1>4. /\ ExitOrder("long").leg = "long" /\ ExitOrder("long").part = "exit"
      /\ ExitOrder("long").qty = copy.legs["long"].qty
  BY <1>2, <1>3 DEF LegsSound, ExitOrder
<1>5. copy.legs["long"].qty \in Nat \ {0}
  BY <1>1, <1>2, <1>4, AskFacts, OrderFields
<1>. QED
  BY <1>1, <1>2, <1>3, <1>4, <1>5

LEMMA EscalateCancelsStep == Covering /\ Here /\ EscalateCancels => There
<1> SUFFICES ASSUME Covering, Here, EscalateCancels PROVE There
  OBVIOUS
<1> DEFINE qs == orders'
<1> DEFINE i == copy.legs["long"].order
<1> DEFINE n == copy.legs["long"].qty
<1>1. /\ pc = "escalate" /\ pc' = "look" /\ pc \notin Sending
      /\ UNCHANGED <<env, journal, rec, copy, work, faults, spent>>
  BY DEF EscalateCancels, Goto, Sending
<1>2. /\ pc \in Asks /\ NextLeg = "long" /\ copy.legs["long"].resting
      /\ n \in Nat \ {0} /\ i \in DOMAIN orders
      /\ orders[i].leg = "long" /\ orders[i].part = "exit" /\ orders[i].qty = n
  BY <1>1, WalkFacts DEF ExitOrder
<1>3. Cancelable(i) /\ orders' = Cancel({i})
  BY <1>2 DEF EscalateCancels
<1>4. /\ Whole(qs) /\ Follows(orders, qs) /\ qs[i].state = "canceled"
      /\ Worst(qs) = Worst(orders) - Worth(orders[i])
  BY <1>2, <1>3, HereFacts, CancelFollows
<1>5. Worth(orders[i]) = -n
  BY <1>2, <1>3 DEF Worth, Buys, Live, Cancelable
<1>6. LegsSound(orders, copy) /\ Ahead(copy) \in Int /\ Worst(orders) >= Ahead(copy)
  BY <1>1, <1>2, LongIsNext, AskFacts
<1> DEFINE u == Worst(qs)
<1> DEFINE v == Worst(orders)
<1>7. u >= 0 /\ u - n >= 0 /\ u - n >= Ahead(copy)
  <2>1. u = v - (-n) /\ v \in Int /\ v >= 0 /\ n \in Nat
    BY <1>2, <1>4, <1>5, HereFacts
  <2>2. v >= Ahead(copy) /\ Ahead(copy) \in Int
    BY <1>6
  <2> HIDE DEF u, v, n
  <2>. QED
    BY <2>1, <2>2
<1> HIDE DEF qs
<1>8. LegsSound(qs, copy) /\ DOMAIN orders = DOMAIN qs
  BY <1>4, <1>6, SoundCarries DEF Follows
<1>9. CoverInv(qs, copy, rec, journal, "look", work)
  BY <1>1, <1>2, <1>4, <1>7, <1>8, HereFacts, LegIsWalked
<1>. QED
  BY <1>1, <1>9 DEF There, qs

LEMMA LookStep == Covering /\ Here /\ (LookSeesFill \/ LookSeesNoFill) => There
<1> SUFFICES ASSUME Covering, Here, LookSeesFill \/ LookSeesNoFill PROVE There
  OBVIOUS
<1> DEFINE n == copy.legs["long"].qty
<1>1. pc = "look"
  BY DEF LookSeesFill, LookSeesNoFill
<1>2. /\ pc \in Asks /\ NextLeg = "long" /\ copy.legs["long"].resting /\ n \in Nat \ {0}
      /\ orders[copy.legs["long"].order].state = "canceled"
      /\ Worst(orders) - n >= 0 /\ Worst(orders) - n >= Ahead(copy)
  BY <1>1, WalkFacts
<1>3. ~LookSeesFill
  <2>1. ExitOrder("long").state = "canceled" /\ ExitOrder("long").filled = 0
    BY <1>2, AskFacts DEF ExitOrder
  <2>2. ~FilledWhenCanceled(copy.legs["long"], ExitOrder("long"))
    BY <1>2, <2>1 DEF FilledWhenCanceled, FilledNow
  <2>. QED
    BY <1>2, <2>2 DEF LookSeesFill
<1>4. /\ pc' = "resend" /\ UNCHANGED <<env, orders, journal, rec, copy, work>>
  BY <1>3 DEF LookSeesNoFill, Goto
<1>5. CoverInv(orders, copy, rec, journal, "resend", work)
  BY <1>1, <1>2, LongIsNext, HereFacts, LegIsWalked
<1>. QED
  BY <1>4, <1>5 DEF There

LEMMA ResendsStep == Covering /\ Here /\ Resends => There
<1> SUFFICES ASSUME Covering, Here, Resends PROVE There
  OBVIOUS
<1> DEFINE n == copy.legs["long"].qty
<1>1. /\ pc = "resend" /\ LegIsPending /\ pc' = AfterLeg /\ UNCHANGED <<env, journal, rec>>
  BY DEF Resends, Goto
<1>2. /\ pc \in Asks /\ NextLeg = "long" /\ n \in Nat \ {0}
      /\ Worst(orders) - n >= 0 /\ Worst(orders) - n >= Ahead(copy)
  BY <1>1, WalkFacts
<1>3. PICK limit \in Limits(NextLeg, NextCycle) :
        /\ Submit(NextLeg, "exit", limit, copy.legs[NextLeg].qty)
        /\ copy' = [copy EXCEPT !.legs[NextLeg] =
                      [@ EXCEPT !.order = NewId, !.cycle = NextCycle, !.resting = limit,
                                !.status = "submitted"]]
  BY DEF Resends
<1>4. limit \in BOOLEAN
  BY <1>3 DEF Limits
<1> DEFINE qs == orders'
<1> DEFINE k == NewId
<1>5. IsSent(orders, qs, "long", "exit", limit, n)
  <2>1. qs = Append(orders, [leg |-> "long", part |-> "exit", limit |-> limit, qty |-> n,
                             filled |-> 0, state |-> "working"])
    BY <1>2, <1>3 DEF Submit
  <2>2. "long" \in Leg /\ "exit" \in Part /\ Whole(orders)
    BY HereFacts DEF Leg, Part
  <2> HIDE DEF qs, n
  <2>. QED
    BY <1>2, <1>4, <2>1, <2>2, SentIsAdded
<1> DEFINE m == copy.legs[NextLeg]
<1> DEFINE l == [m EXCEPT !.order = k, !.cycle = NextCycle, !.resting = limit, !.status = "submitted"]
<1> DEFINE q == copy'
<1>6. q = LegSet(copy, NextLeg, l)
  BY <1>3 DEF LegSet
<1>7. /\ Whole(qs) /\ Keeps(orders, qs) /\ k \in DOMAIN qs /\ k \in Nat
      /\ DOMAIN orders \subseteq DOMAIN qs
      /\ qs[k].leg = "long" /\ qs[k].part = "exit" /\ qs[k].qty = n
      /\ Worst(qs) = Worst(orders) - n
  <2>1. Costs("long", "exit", n) = n
    BY DEF Costs
  <2>. QED
    BY <1>5, <2>1 DEF IsSent, NewId
<1>8. /\ m \in LegShape /\ NextCycle \in Nat /\ copy \in Shape /\ m = copy.legs["long"]
      /\ m = copy.legs[NextLeg]
      /\ m.qty = n /\ m.filled = copy.legs["long"].filled
  BY <1>2, HereFacts, ShapeFields, LegFields DEF NextCycle
<1> HIDE DEF k, qs, q, n, m
<1>9. /\ l \in LegShape /\ l.qty = n /\ l.filled = copy.legs["long"].filled
      /\ l.resting = limit /\ l.order = k /\ l.status = "submitted"
  BY <1>4, <1>7, <1>8 DEF LegShape
<1> HIDE DEF l
<1>10. /\ q \in Shape /\ q.exit = copy.exit /\ q.active = copy.active
       /\ q.residual = copy.residual /\ q.tp1 = copy.tp1 /\ q.closed = copy.closed
       /\ ~q.legs["short"].resting /\ q.legs[NextLeg] = l
       /\ \A x \in Leg : x # NextLeg => q.legs[x] = copy.legs[x]
       /\ \A x \in Leg : q.legs[x].qty = copy.legs[x].qty
  BY <1>2, <1>6, <1>8, <1>9, LegTouched
<1>11. /\ work.failed = {} /\ LegsSound(orders, copy) /\ copy.legs["long"].order \in DOMAIN orders
       /\ Ahead(copy) \in Int
  BY <1>2, LongIsNext
<1>12. LegsSound(qs, q)
  <2>1. LegsSound(qs, copy) /\ copy.legs["long"].order \in DOMAIN qs
    BY <1>7, <1>11, SoundCarries
  <2>2. 0 \notin DOMAIN qs
    BY <1>7, WholeOrders
  <2>3. /\ "long" \in Leg /\ q.legs["long"] = l
        /\ \A x \in Leg : x # "long" => q.legs[x] = copy.legs[x]
    BY <1>2, <1>10 DEF Leg
  <2>4. \A x \in Leg : q.legs[x].filled = copy.legs[x].filled
    BY <1>9, <2>3
  <2>. QED
    BY <1>7, <1>8, <1>9, <1>10, <2>1, <2>2, <2>3, <2>4, TouchedSound
<1>13. Worst(qs) >= 0 /\ Worst(qs) >= Ahead(copy)
  BY <1>2, <1>7
<1> DEFINE w == work'
<1>14. w \in WorkShape /\ w.todo = Tail(work.todo) /\ w.failed = work.failed
  BY <1>1, <1>2, PendingWork
<1> HIDE DEF w
<1>15. CoverInv(qs, q, rec, journal, AfterLeg, w)
  BY <1>2, <1>7, <1>10, <1>11, <1>12, <1>13, <1>14, HereFacts, LegIsOver
<1>. QED
  BY <1>1, <1>15 DEF There, q, qs, w

\* A failed exit: the position is left to the residual, or to the user.
LEMMA FailureEnds ==
  ASSUME NEW r \in Shape
  PROVE  /\ Failure(r) \in Shape /\ ~InPlay(Failure(r)) /\ ~Failure(r).active
         /\ Failure(r).legs = r.legs
<1> DEFINE q == Failure(r)
<1> DEFINE n == Remaining(r, "long")
<1>1. n \in Nat
  <2> DEFINE l == r.legs["long"]
  <2>1. l.filled \in Nat /\ l.done \in Nat
    BY ShapeFields, LegFields
  <2>2. l.filled - l.done \in Int
    BY <2>1
  <2> HIDE DEF l
  <2>3. Max({0, l.filled - l.done}) \in Nat
    BY <2>2, MaxOfTwo
  <2>. QED
    BY <2>3 DEF Remaining, l
<1> HIDE DEF n
<1>2. CASE Unclosed(r) = {"long"}
  <2>1. q = [r EXCEPT !.residual = n, !.flat = 0, !.exit = "residual", !.active = FALSE, !.told = FALSE]
    BY <1>2 DEF Failure, n
  <2>2. q \in Shape /\ q.legs = r.legs /\ q.exit = "residual" /\ q.active = FALSE
    <3> HIDE DEF q
    <3>. QED
      BY <1>1, <2>1 DEF Shape
  <2>. QED
    BY <2>2 DEF InPlay
<1>3. CASE Unclosed(r) # {"long"}
  <2>1. q = [r EXCEPT !.told = TRUE, !.exit = "combo", !.active = FALSE]
    BY <1>3 DEF Failure
  <2>. QED
    BY <2>1 DEF Shape, InPlay
<1>. QED
  BY <1>2, <1>3

LEMMA SettleStep == Covering /\ Here /\ Settle => There
<1> SUFFICES ASSUME Covering, Here, Settle PROVE There
  OBVIOUS
<1> DEFINE q == Settled
<1>1. /\ pc = "settle" /\ pc \in Queries /\ pc \notin Rounds /\ pc \notin Sending
      /\ copy' = q /\ work' = NoWork /\ pc' = TrackingStep(q)
      /\ UNCHANGED <<env, orders, journal, rec, faults, spent>>
  BY DEF Settle, Goto, Queries, Rounds, Sending
<1>2. "persist" \in Places /\ "persist" \notin Rounds
  BY DEF Places, Rounds
<1>3. /\ q \in Shape /\ ~q.legs["short"].resting
      /\ \/ q = copy /\ work.failed = {}
         \/ ~InPlay(q)
  <2>1. CASE work.failed # {}
    <3>1. q = Failure(copy)
      BY <2>1 DEF Settled
    <3>. QED
      BY <3>1, FailureEnds, HereFacts
  <2>2. CASE work.failed = {} /\ work.sent = {} /\ work.full # {}
    <3>1. q = [copy EXCEPT !.exit = "filled", !.active = FALSE]
      BY <2>2 DEF Settled
    <3>. QED
      BY <3>1, HereFacts DEF Shape, InPlay
  <2>3. CASE work.failed = {} /\ ~(work.sent = {} /\ work.full # {})
    <3>1. q = copy
      BY <2>3 DEF Settled
    <3>. QED
      BY <2>3, <3>1, HereFacts
  <2>. QED
    BY <2>1, <2>2, <2>3
<1>4. Typed(orders, q, rec, journal, "persist", NoWork)
  BY <1>2, <1>3, HereFacts, NoWorkShape DEF Typed
<1>5. InPlay(q) => /\ LegsSound(orders, q) /\ JournalSound(q, journal, "persist", NoWork)
                   /\ Worst(orders) >= Ahead(q)
  <2> SUFFICES ASSUME InPlay(q)
               PROVE  /\ LegsSound(orders, q) /\ JournalSound(q, journal, "persist", NoWork)
                      /\ Worst(orders) >= Ahead(q)
    OBVIOUS
  <2>1. q = copy /\ work.failed = {} /\ InPlay(copy)
    BY <1>3
  <2>2. /\ LegsSound(orders, copy) /\ JournalSound(copy, journal, pc, work)
        /\ Worst(orders) >= Ahead(copy)
    BY <1>1, <2>1, HereFacts DEF Sound, Playing
  <2>3. JournalSound(copy, journal, "persist", NoWork)
    BY <1>1, <1>2, <2>2, JournalSame
  <2>. QED
    BY <2>1, <2>2, <2>3
<1> HIDE DEF q
<1>6. CoverInv(orders, q, rec, journal, TrackingStep(q), NoWork)
  BY <1>3, <1>4, <1>5, HereFacts, NoWorkShape, ToTracking
<1>. QED
  BY <1>1, <1>6 DEF There

-----------------------------------------------------------------------------
(* The record is compared with the positions, and triggers are looked for. *)

LEMMA WatchFacts ==
  ASSUME Here, pc \in {"positions", "quote"}
  PROVE  /\ work.failed = {} /\ LegsSound(orders, copy) /\ JournalSound(copy, journal, pc, work)
         /\ Worst(orders) >= Ahead(copy) /\ pc \notin Rounds
<1>1. pc \notin Rounds /\ pc \notin Sending /\ pc \notin Rounds \cup Queries \cup {"persist"}
  BY DEF Rounds, Sending, Queries
<1>2. work.failed = {}
  BY <1>1, HereFacts DEF Ending
<1>. QED
  BY <1>1, <1>2, HereFacts DEF Sound, Playing

\* Nothing but what a pass has seen is noted.
LEMMA Watched ==
  ASSUME Here, pc \in {"positions", "quote"}, NEW q \in Shape, q.legs = copy.legs,
         q.residual = copy.residual, q.closed = copy.closed, q.tp1 = copy.tp1 \/ ~q.tp1,
         NEW p \in {"persist", "quote"}
  PROVE  CoverInv(orders, q, rec, journal, p, work)
<1>1. /\ work.failed = {} /\ LegsSound(orders, copy) /\ JournalSound(copy, journal, pc, work)
      /\ Worst(orders) >= Ahead(copy) /\ pc \notin Rounds
  BY WatchFacts
<1>2. p \notin Rounds /\ p \in Places
  BY DEF Rounds, Places, ExitSteps
<1>3. \A leg : OpenOf(q, leg) = OpenOf(copy, leg)
  BY DEF OpenOf
<1>4. LegsSound(orders, q)
  BY <1>1, <1>3 DEF LegsSound
<1>5. Ahead(q) = Ahead(copy)
  BY <1>3 DEF Ahead
<1>6. JournalSound(q, journal, p, work)
  BY <1>1, <1>2, <1>3, JournalSame
<1>7. Typed(orders, q, rec, journal, p, work) /\ ~q.legs["short"].resting
  BY <1>2, HereFacts DEF Typed
<1>8. CASE p = "persist"
  BY <1>1, <1>4, <1>5, <1>6, <1>7, <1>8, HereFacts, ToPersist
<1>9. CASE p = "quote"
  BY <1>1, <1>4, <1>5, <1>6, <1>7, <1>9, HereFacts, ToWatch
<1>. QED
  BY <1>8, <1>9

LEMMA ManualFlatEnds ==
  ASSUME Here, pc = "positions"
  PROVE  ManualFlat \in Shape /\ ~InPlay(ManualFlat) /\ ~ManualFlat.legs["short"].resting
<1> DEFINE m == [leg \in Leg |-> IF leg \in Expected THEN ClosedLeg(leg) ELSE copy.legs[leg]]
<1>1. /\ copy \in Shape /\ \A leg \in Leg : copy.legs[leg] \in LegShape
      /\ \A leg \in Leg : OpenQuantity(copy, leg) \in Nat
  BY WatchFacts, OpenIs, HereFacts, ShapeFields
<1>2. ASSUME NEW leg \in Leg
      PROVE  ClosedLeg(leg) \in LegShape /\ ClosedLeg(leg).resting = copy.legs[leg].resting
  <2> DEFINE l == copy.legs[leg]
  <2> DEFINE n == OpenQuantity(copy, leg)
  <2>1. l \in LegShape /\ n \in Nat
    BY <1>1
  <2>2. ClosedLeg(leg) = [l EXCEPT !.status = "filled", !.qty = n, !.done = n]
    BY DEF ClosedLeg
  <2> HIDE DEF l, n
  <2>3. ClosedLeg(leg) \in LegShape /\ ClosedLeg(leg).resting = l.resting
    BY <2>1, <2>2 DEF LegShape
  <2>. QED
    BY <2>3 DEF l
<1>3. \A leg \in Leg : m[leg] \in LegShape /\ m[leg].resting = copy.legs[leg].resting
  BY <1>1, <1>2
<1>4. m \in [Leg -> LegShape]
  BY <1>3
<1>5. ~m["short"].resting
  BY <1>3, HereFacts DEF Leg
<1> DEFINE q == ManualFlat
<1>6. q = [copy EXCEPT !.active = FALSE, !.exit = "filled", !.closed = Units, !.flat = 0,
                       !.mismatch = 0, !.legs = m]
  BY DEF ManualFlat
<1> HIDE DEF m, q
<1>7. q \in Shape /\ q.legs = m /\ q.exit = "filled" /\ q.active = FALSE
  BY <1>1, <1>4, <1>6, HereFacts DEF Shape
<1>. QED
  BY <1>5, <1>7 DEF InPlay, q

LEMMA ComparePositionsStep == Covering /\ Here /\ ComparePositions => There
<1> SUFFICES ASSUME Covering, Here, ComparePositions PROVE There
  OBVIOUS
<1> DEFINE q == copy'
<1>1. pc = "positions" /\ UNCHANGED <<env, orders, journal, rec, work, faults, spent>>
  BY DEF ComparePositions
<1>2. CASE Expected # {} /\ Present = {} /\ FlatIsConfirmed
  <2>1. pc' = "persist"
    BY <1>2 DEF ComparePositions, Goto
  <2>2. q = ManualFlat
    BY <1>2 DEF ComparePositions
  <2>3. q \in Shape /\ ~InPlay(q) /\ ~q.legs["short"].resting
    BY <1>1, <2>2, ManualFlatEnds
  <2> HIDE DEF q
  <2>4. Typed(orders, q, rec, journal, "persist", work)
    BY <2>3, HereFacts DEF Typed, Places
  <2>5. CoverInv(orders, q, rec, journal, "persist", work)
    BY <2>3, <2>4, HereFacts, ToPersist
  <2>. QED
    BY <1>1, <2>1, <2>5 DEF There, q
<1>3. CASE ~(Expected # {} /\ Present = {} /\ FlatIsConfirmed)
  <2>1. pc' = "quote"
    BY <1>3 DEF ComparePositions, Goto
  <2>2. \/ q = copy
        \/ q = [copy EXCEPT !.flat = 0]
        \/ q = [copy EXCEPT !.mismatch = 1]
        \/ q = [copy EXCEPT !.mismatch = 2, !.active = FALSE, !.told = TRUE]
        \/ q = [copy EXCEPT !.flat = 1, !.mismatch = 0]
    BY <1>3 DEF ComparePositions
  <2>3. /\ q \in Shape /\ q.legs = copy.legs /\ q.residual = copy.residual
        /\ q.closed = copy.closed /\ q.tp1 = copy.tp1
    <3> HIDE DEF q
    <3>1. CASE q = copy
      BY <3>1, HereFacts
    <3>2. CASE q = [copy EXCEPT !.flat = 0]
      BY <3>2, HereFacts DEF Shape
    <3>3. CASE q = [copy EXCEPT !.mismatch = 1]
      BY <3>3, HereFacts DEF Shape
    <3>4. CASE q = [copy EXCEPT !.mismatch = 2, !.active = FALSE, !.told = TRUE]
      BY <3>4, HereFacts DEF Shape
    <3>5. CASE q = [copy EXCEPT !.flat = 1, !.mismatch = 0]
      BY <3>5, HereFacts DEF Shape
    <3>. QED
      BY <2>2, <3>1, <3>2, <3>3, <3>4, <3>5
  <2> HIDE DEF q
  <2>4. CoverInv(orders, q, rec, journal, "quote", work)
    BY <1>1, <2>3, Watched
  <2>. QED
    BY <1>1, <2>1, <2>4 DEF There, q
<1>. QED
  BY <1>2, <1>3

LEMMA ComparePositionsFailsStep == Covering /\ Here /\ (ComparePositionsFails \/ NoQuote) => There
<1> SUFFICES ASSUME Covering, Here, ComparePositionsFails \/ NoQuote PROVE There
  OBVIOUS
<1>1. /\ pc \in {"positions", "quote"} /\ pc' \in {"persist", "quote"}
      /\ UNCHANGED <<env, orders, journal, rec, copy, work>>
  BY DEF ComparePositionsFails, NoQuote, Sees, Goto
<1> DEFINE p == pc'
<1>2. p \in {"persist", "quote"}
  BY <1>1
<1> HIDE DEF p
<1>3. CoverInv(orders, copy, rec, journal, p, work)
  BY <1>1, <1>2, HereFacts, Watched
<1>. QED
  BY <1>1, <1>3 DEF There, p

LEMMA NoTriggerStep == Covering /\ Here /\ (NoTrigger \/ FirstSight) => There
<1> SUFFICES ASSUME Covering, Here, NoTrigger \/ FirstSight PROVE There
  OBVIOUS
<1> DEFINE q == copy'
<1>1. /\ pc = "quote" /\ pc' = "persist"
      /\ UNCHANGED <<env, orders, journal, rec, work, faults, spent>>
  BY DEF NoTrigger, FirstSight, Pays, Sees, Goto
<1>2. \/ q = [copy EXCEPT !.pending = "none", !.smart = FALSE]
      \/ \E t \in Trigger : q = [copy EXCEPT !.pending = t]
      \/ q = [copy EXCEPT !.smart = TRUE]
  BY DEF NoTrigger, FirstSight
<1> HIDE DEF q
<1>3. /\ q \in Shape /\ q.legs = copy.legs /\ q.residual = copy.residual
      /\ q.closed = copy.closed /\ q.tp1 = copy.tp1
  <2>1. CASE q = [copy EXCEPT !.pending = "none", !.smart = FALSE]
    BY <2>1, HereFacts DEF Shape
  <2>2. CASE \E t \in Trigger : q = [copy EXCEPT !.pending = t]
    <3>1. PICK t \in Trigger : q = [copy EXCEPT !.pending = t]
      BY <2>2
    <3>. QED
      BY <3>1, HereFacts DEF Shape
  <2>3. CASE q = [copy EXCEPT !.smart = TRUE]
    BY <2>3, HereFacts DEF Shape
  <2>. QED
    BY <1>2, <2>1, <2>2, <2>3
<1>4. CoverInv(orders, q, rec, journal, "persist", work)
  BY <1>1, <1>3, Watched
<1>. QED
  BY <1>1, <1>4 DEF There, q

LEMMA ClearedIs ==
  ASSUME Here, NEW t
  PROVE  /\ Cleared(t) \in Shape /\ Cleared(t).legs = copy.legs
         /\ Cleared(t).residual = copy.residual /\ Cleared(t).closed = copy.closed
         /\ Cleared(t).tp1 = copy.tp1 /\ Cleared(t).exit = copy.exit
         /\ Cleared(t).active = copy.active
<1> DEFINE q == Cleared(t)
<1>1. q = [copy EXCEPT !.smart = FALSE] \/ q = [copy EXCEPT !.pending = "none"]
  BY DEF Cleared
<1> HIDE DEF q
<1>2. /\ q \in Shape /\ q.legs = copy.legs /\ q.residual = copy.residual /\ q.closed = copy.closed
      /\ q.tp1 = copy.tp1 /\ q.exit = copy.exit /\ q.active = copy.active
  BY <1>1, HereFacts DEF Shape
<1>. QED
  BY <1>2 DEF q

LEMMA SeenIs ==
  ASSUME NEW r \in Shape, NEW t
  PROVE  /\ Seen(r, t) \in Shape /\ Seen(r, t).legs = r.legs /\ Seen(r, t).residual = r.residual
         /\ Seen(r, t).closed = r.closed /\ Seen(r, t).exit = r.exit /\ Seen(r, t).active = r.active
         /\ t # "tp1" => Seen(r, t).tp1 = r.tp1
         /\ t = "tp1" => ~Seen(r, t).tp1
<1> DEFINE q == Seen(r, t)
<1> DEFINE v == r.tp1 /\ t # "tp1"
<1>1. q = [r EXCEPT !.tp1 = v]
  BY DEF Seen
<1>2. v \in BOOLEAN /\ r.tp1 \in BOOLEAN
  BY ShapeFields
<1>3. (t # "tp1" => v = r.tp1) /\ (t = "tp1" => ~v)
  BY <1>2
<1> HIDE DEF q, v
<1>4. /\ q \in Shape /\ q.legs = r.legs /\ q.residual = r.residual /\ q.closed = r.closed
      /\ q.exit = r.exit /\ q.active = r.active /\ q.tp1 = v
  BY <1>1, <1>2 DEF Shape
<1>. QED
  BY <1>3, <1>4 DEF q

LEMMA TriggerIsAnnouncedStep == Covering /\ Here /\ TriggerIsAnnounced => There
<1> SUFFICES ASSUME Covering, Here, TriggerIsAnnounced PROVE There
  OBVIOUS
<1>1. PICK t \in Trigger :
        /\ Confirms(t)
        /\ copy' = Seen([Cleared(t) EXCEPT !.told = TRUE, !.active = @ /\ Partial(t)], t)
  BY DEF TriggerIsAnnounced
<1>2. /\ pc = "quote" /\ pc' = "persist"
      /\ UNCHANGED <<env, orders, journal, rec, work, faults, spent>>
  BY <1>1 DEF TriggerIsAnnounced, Confirms, Pays, Sees, Goto
<1> DEFINE c == Cleared(t)
<1> DEFINE v == c.active /\ Partial(t)
<1> DEFINE m == [c EXCEPT !.told = TRUE, !.active = v]
<1>3. copy' = Seen(m, t) /\ v \in BOOLEAN
  BY <1>1
<1>4. c \in Shape /\ c.legs = copy.legs /\ c.residual = copy.residual /\ c.closed = copy.closed
      /\ c.tp1 = copy.tp1
  BY ClearedIs
<1> HIDE DEF c, v
<1>5. m \in Shape /\ m.legs = c.legs /\ m.residual = c.residual /\ m.closed = c.closed /\ m.tp1 = c.tp1
  BY <1>3, <1>4 DEF Shape
<1> HIDE DEF m
<1> DEFINE q == copy'
<1>6. /\ q \in Shape /\ q.legs = copy.legs /\ q.residual = copy.residual /\ q.closed = copy.closed
      /\ (q.tp1 = copy.tp1 \/ ~q.tp1)
  BY <1>3, <1>4, <1>5, SeenIs
<1> HIDE DEF q
<1>7. CoverInv(orders, q, rec, journal, "persist", work)
  BY <1>2, <1>6, Watched
<1>. QED
  BY <1>2, <1>7 DEF There, q

-----------------------------------------------------------------------------
(* A round of exits *)

LEMMA TargetIs ==
  ASSUME Here, pc = "quote", NEW t \in Trigger, t = "tp1" => copy.tp1
  PROVE  LET n == TargetUnits(copy, t)
         IN  /\ n \in Nat
             /\ ~Partial(t) => n >= OpenOf(copy, "short")
             /\ ~env.tiered => n = Units
             /\ Partial(t) => n >= 1 /\ n <= Units
<1>1. LegsSound(orders, copy) /\ copy \in Shape /\ Units \in Nat /\ Units # 0
  BY WatchFacts, HereFacts
<1>2. /\ OpenOf(copy, "short") \in Nat /\ OpenOf(copy, "short") <= Units
      /\ \A leg \in Leg : OpenQuantity(copy, leg) \in Nat
      /\ OpenQuantity(copy, "short") = OpenOf(copy, "short")
  BY <1>1, OpenIs DEF Leg
<1>3. /\ copy.closed \in Nat /\ OpenOf(copy, "short") <= Units - copy.closed
      /\ (copy.tp1 \/ ~env.tiered => copy.closed = 0)
  BY <1>1, ShapeFields DEF LegsSound
<1> DEFINE c == copy.closed
<1> DEFINE m == Min({OpenQuantity(copy, leg) : leg \in Leg})
<1> DEFINE open == IF c < Units THEN Units - c ELSE m
<1>4. TargetUnits(copy, t) = IF Partial(t) THEN Max({1, open \div 2}) ELSE open
  BY DEF TargetUnits
<1>5. m \in Nat
  <2> DEFINE a == OpenQuantity(copy, "long")
  <2> DEFINE b == OpenQuantity(copy, "short")
  <2>1. {OpenQuantity(copy, leg) : leg \in Leg} = {a, b}
    BY DEF Leg
  <2>2. a \in Nat /\ b \in Nat
    BY <1>2 DEF Leg
  <2> HIDE DEF a, b
  <2>3. Min({a, b}) \in Nat
    BY <2>2, MinOfTwo
  <2>. QED
    BY <2>1, <2>3
<1> HIDE DEF m
<1>6. open \in Nat /\ open >= OpenOf(copy, "short") /\ (c = 0 => open = Units)
  BY <1>1, <1>2, <1>3, <1>5
<1>7. Partial(t) => c = 0
  BY <1>3 DEF Partial
<1>8. ~env.tiered => ~Partial(t) /\ c = 0
  BY <1>3 DEF Partial
<1> HIDE DEF c, open
<1>9. Partial(t) => LET n == Max({1, open \div 2}) IN n \in Nat /\ n >= 1 /\ n <= Units
  <2> SUFFICES ASSUME Partial(t) PROVE LET n == Max({1, open \div 2}) IN n \in Nat /\ n >= 1 /\ n <= Units
    OBVIOUS
  <2>1. open = Units
    BY <1>6, <1>7
  <2> DEFINE h == open \div 2
  <2>2. h \in Nat /\ h <= Units
    BY <1>1, <2>1
  <2> HIDE DEF h
  <2>3. Max({1, h}) \in Nat /\ Max({1, h}) >= 1 /\ Max({1, h}) <= Units
    BY <1>1, <2>2, MaxOfTwo
  <2>. QED
    BY <2>3 DEF h
<1>. QED
  BY <1>4, <1>6, <1>7, <1>8, <1>9

LEMMA TriggerFiresStep == Covering /\ Here /\ TriggerFires => There
<1> SUFFICES ASSUME Covering, Here, TriggerFires PROVE There
  OBVIOUS
<1>1. PICK t \in Trigger :
        /\ Confirms(t) /\ copy' = Cleared(t)
        /\ work' = [NoWork EXCEPT !.todo = ExitSequence, !.trigger = t,
                                  !.amount = TargetUnits(copy, t)]
  BY DEF TriggerFires
<1>2. /\ pc = "quote" /\ pc' = "exit" /\ (t = "tp1" => copy.tp1)
      /\ UNCHANGED <<env, orders, journal, rec, faults, spent>>
  BY <1>1 DEF TriggerFires, Confirms, Pays, Sees, Goto
<1> DEFINE q == Cleared(t)
<1> DEFINE n == TargetUnits(copy, t)
<1> DEFINE w == [NoWork EXCEPT !.todo = ExitSequence, !.trigger = t, !.amount = n]
<1>3. /\ q \in Shape /\ q.legs = copy.legs /\ q.residual = copy.residual /\ q.closed = copy.closed
      /\ q.tp1 = copy.tp1
  BY ClearedIs
<1>4. /\ n \in Nat
      /\ ~Partial(t) => n >= OpenOf(copy, "short")
      /\ ~env.tiered => n = Units
      /\ Partial(t) => n >= 1 /\ n <= Units
  BY <1>2, TargetIs
<1> HIDE DEF n, q
<1>5. /\ w \in WorkShape /\ w.todo = <<"short", "long">> /\ w.trigger = t /\ w.amount = n
      /\ w.failed = {}
  BY <1>4, NoWorkShape DEF WorkShape, Routes, ExitSequence
<1> HIDE DEF w
<1>6. /\ work.failed = {} /\ LegsSound(orders, copy) /\ JournalSound(copy, journal, pc, work)
      /\ Worst(orders) >= Ahead(copy) /\ pc \notin Rounds
  BY <1>2, WatchFacts
<1>7. \A leg : OpenOf(q, leg) = OpenOf(copy, leg)
  BY <1>3 DEF OpenOf
<1>8. LegsSound(orders, q) /\ Ahead(q) = Ahead(copy)
  BY <1>3, <1>6, <1>7 DEF LegsSound, Ahead
<1>9. JournalSound(q, journal, "exit", w)
  BY <1>3, <1>6, <1>7, <1>2 DEF JournalSound, FirstTarget, Rounds
<1>10. AmountSound(q, w)
  BY <1>2, <1>3, <1>4, <1>5, <1>7 DEF AmountSound, ExitSequence, Partial
<1>11. "exit" \in Rounds /\ "exit" \in Places /\ "exit" \notin Sending
  BY DEF Rounds, Places, ExitSteps, Sending
<1>12. Round(orders, q, "exit", w)
  BY <1>5, <1>10, Going DEF Round
<1>13. Typed(orders, q, rec, journal, "exit", w) /\ ~q.legs["short"].resting /\ ~(q.residual > 0)
  <2>1. q.residual = 0
    BY <1>8 DEF LegsSound
  <2>. QED
    BY <1>3, <1>5, <1>11, <2>1, HereFacts DEF Typed
<1>14. CoverInv(orders, q, rec, journal, "exit", w)
  BY <1>6, <1>8, <1>9, <1>11, <1>12, <1>13, HereFacts, ToRound
<1>. QED
  BY <1>1, <1>2, <1>14 DEF There, q, w, n

LEMMA RoundFacts ==
  ASSUME Here, pc \in Rounds
  PROVE  /\ work.trigger \in Trigger
         /\ work.todo \in {<<"short", "long">>, <<"long">>, <<>>}
         /\ work.failed # {} => work.todo = <<>> \/ (work.todo = <<"long">> /\ "short" \in work.failed)
         /\ pc # "exit" => work.failed = {} /\ work.todo # <<>> /\ SentOut(orders, copy, work)
         /\ copy.residual > 0 => ~InPlay(copy)
         /\ work.amount \in Nat
         /\ work.failed = {} =>
              /\ LegsSound(orders, copy) /\ JournalSound(copy, journal, pc, work)
              /\ AmountSound(copy, work) /\ Ahead(copy) \in Int
              /\ \A leg \in Leg : /\ OpenOf(copy, leg) \in Nat /\ OpenOf(copy, leg) <= Units
                                  /\ OpenQuantity(copy, leg) = OpenOf(copy, leg)
              /\ pc = "exit" => Worst(orders) >= Ahead(copy)
              /\ pc = "exit" /\ work.todo = <<"long">> =>
                    Worst(orders) >= OpenOf(copy, "long") \/ Worst(orders) >= work.amount
<1>1. /\ work.trigger \in Trigger
      /\ work.todo \in {<<"short", "long">>, <<"long">>, <<>>}
      /\ work.failed # {} => work.todo = <<>> \/ (work.todo = <<"long">> /\ "short" \in work.failed)
      /\ pc # "exit" => work.failed = {} /\ work.todo # <<>>
      /\ work.failed = {} /\ pc # "exit" => SentOut(orders, copy, work)
      /\ work.failed = {} => AmountSound(copy, work)
      /\ work.failed = {} /\ pc = "exit" /\ work.todo = <<"long">> =>
            Worst(orders) >= OpenOf(copy, "long") \/ Worst(orders) >= work.amount
  BY HereFacts DEF Round
<1>2. (copy.residual > 0 => ~InPlay(copy)) /\ work.amount \in Nat
  BY HereFacts, WorkFields DEF Ending
<1>3. ASSUME work.failed = {}
      PROVE  /\ LegsSound(orders, copy) /\ JournalSound(copy, journal, pc, work)
             /\ pc = "exit" => Worst(orders) >= Ahead(copy)
  BY <1>3, HereFacts DEF Sound, Playing, Sending
<1>4. work.failed = {} =>
        /\ Ahead(copy) \in Int
        /\ \A leg \in Leg : /\ OpenOf(copy, leg) \in Nat /\ OpenOf(copy, leg) <= Units
                            /\ OpenQuantity(copy, leg) = OpenOf(copy, leg)
  BY <1>3, HereFacts, OpenIs, AheadType
<1>. QED
  BY <1>1, <1>2, <1>3, <1>4

LEMMA LegInTurn ==
  ASSUME Here, pc \in Rounds, work.todo # <<>>
  PROVE  /\ NextLeg = Head(work.todo) /\ NextLeg \in Leg
         /\ \/ work.todo = <<"short", "long">> /\ NextLeg = "short" /\ Tail(work.todo) = <<"long">>
               /\ work.todo = ExitSequence
            \/ work.todo = <<"long">> /\ NextLeg = "long" /\ Tail(work.todo) = <<>>
               /\ work.todo # ExitSequence
         /\ work.todo # ExitSequence => NextLeg = "long"
         /\ Tail(work.todo) # ExitSequence
         /\ pc = "exit" /\ ~HoldsHedge => work.failed = {}
<1>1. work.todo \in {<<"short", "long">>, <<"long">>}
  BY RoundFacts
<1>2. CASE work.todo = <<"short", "long">>
  BY <1>2, RoundFacts, Going DEF NextLeg, Leg, ExitSequence
<1>3. CASE work.todo = <<"long">>
  BY <1>3, RoundFacts, Going DEF NextLeg, Leg, ExitSequence, HoldsHedge
<1>. QED
  BY <1>1, <1>2, <1>3

\* Of the journal and of amounts, what stays when the round goes on
LEMMA JournalGoesOn ==
  ASSUME NEW r, NEW q, NEW j, NEW w, NEW v, JournalSound(r, j, "exit", w), q.tp1 = r.tp1,
         OpenOf(q, "short") = OpenOf(r, "short"), v.trigger = w.trigger, v.todo # ExitSequence
  PROVE  JournalSound(q, j, "exit", v)
<1>1. FirstTarget(r, "exit", w) => FirstTarget(q, "exit", v)
  BY DEF FirstTarget, Rounds
<1>. QED
  BY <1>1 DEF JournalSound

\* A leg for which no exit goes out ends the round's promises.
LEMMA RoundIsBroken ==
  ASSUME Here, pc \in Rounds, work.todo # <<>>, NEW os, Whole(os), DOMAIN orders \subseteq DOMAIN os,
         Worst(os) >= 0, NEW q \in Shape, q.exit = copy.exit, q.active = copy.active,
         q.residual = copy.residual, ~q.legs["short"].resting,
         NEW j \in JournalShape,
         \A x \in Keys : j[x].state = "after" => j[x] = journal[x],
         NEW w \in WorkShape, w.todo = Tail(work.todo), w.trigger = work.trigger,
         w.failed # {}, NextLeg = "short" => "short" \in w.failed
  PROVE  CoverInv(os, q, rec, j, "exit", w)
<1>1. "exit" \in Rounds /\ "exit" \in Places
  BY DEF Rounds, Places, ExitSteps
<1>2. Typed(os, q, rec, j, "exit", w)
  BY <1>1, HereFacts DEF Typed
<1>3. w.todo = <<>> \/ (w.todo = <<"long">> /\ "short" \in w.failed)
  BY LegInTurn
<1>4. Round(os, q, "exit", w)
  BY <1>3, RoundFacts DEF Round
<1>5. q.residual > 0 => ~InPlay(q)
  BY RoundFacts DEF InPlay
<1>. QED
  BY <1>1, <1>2, <1>4, <1>5, HereFacts, ToRound

LEMMA LegIsDeferredStep == Covering /\ Here /\ LegIsDeferred => There
<1> SUFFICES ASSUME Covering, Here, LegIsDeferred PROVE There
  OBVIOUS
<1> DEFINE l == [copy.legs[NextLeg] EXCEPT !.status = "deferred"]
<1> DEFINE q == copy'
<1> DEFINE w == work'
<1>1. /\ pc = "exit" /\ pc' = "exit" /\ pc \in Rounds /\ work.todo # <<>> /\ HoldsHedge
      /\ q = LegSet(copy, NextLeg, l) /\ w = WorkDone
      /\ UNCHANGED <<env, orders, journal, rec>>
  BY DEF LegIsDeferred, Rounds, LegSet
<1>2. NextLeg = "long" /\ "short" \in work.failed
  BY <1>1 DEF HoldsHedge
<1>3. copy \in Shape /\ copy.legs[NextLeg] \in LegShape /\ NextLeg \in Leg
  BY <1>2, HereFacts, ShapeFields DEF Leg
<1>4. l \in LegShape
  BY <1>3 DEF LegShape
<1> HIDE DEF l, q, w
<1>5. /\ q \in Shape /\ q.exit = copy.exit /\ q.active = copy.active
      /\ q.residual = copy.residual /\ \A k \in Leg : k # NextLeg => q.legs[k] = copy.legs[k]
  BY <1>1, <1>3, <1>4, LegChanges
<1>8. q.legs["short"] = copy.legs["short"]
  BY <1>2, <1>5 DEF Leg
<1>6. /\ w \in WorkShape /\ w.todo = Tail(work.todo) /\ w.trigger = work.trigger
      /\ w.failed = work.failed
  <2>1. work \in WorkShape /\ Tail(work.todo) \in Routes
    BY <1>1, HereFacts, WorkFields, RoutesOf
  <2>. QED
    BY <1>1, <2>1 DEF WorkDone, WorkShape
<1>7. CoverInv(orders, q, rec, journal, "exit", w)
  BY <1>1, <1>2, <1>5, <1>6, <1>8, HereFacts, RoundIsBroken
<1>. QED
  BY <1>1, <1>7 DEF There, q, w

LEMMA SendIsRefusedStep == Covering /\ Here /\ (SendIsRefused \/ SendFails) => There
<1> SUFFICES ASSUME Covering, Here, SendIsRefused \/ SendFails PROVE There
  OBVIOUS
<1> DEFINE l == [copy.legs[NextLeg] EXCEPT !.status = "failed"]
<1> DEFINE q == copy'
<1> DEFINE w == work'
<1> DEFINE j == journal'
<1>1. /\ pc = "exit" /\ pc' = "exit" /\ pc \in Rounds /\ work.todo # <<>>
      /\ q = LegSet(copy, NextLeg, l) /\ w = [WorkDone EXCEPT !.failed = @ \cup {NextLeg}]
      /\ UNCHANGED <<env, rec>>
  BY DEF SendIsRefused, SendFails, Sends, ExitLegFails, Goto, Rounds, LegSet
<1>2. orders' = orders
  BY DEF SendIsRefused, SendFails, SubmitLost, Covering, Tame, TameExit
<1>3. copy \in Shape /\ copy.legs[NextLeg] \in LegShape /\ NextLeg \in Leg /\ work.trigger \in Trigger
  BY <1>1, HereFacts, ShapeFields, LegInTurn, RoundFacts
<1>4. l \in LegShape /\ l.resting = copy.legs[NextLeg].resting
  BY <1>3 DEF LegShape
<1>5. j \in JournalShape /\ \A x \in Keys : j[x].state = "after" => j[x] = journal[x]
  <2>1. journal' = journal \/ NotesBefore(ExitKey, "exit")
    BY DEF SendIsRefused, SendFails
  <2>2. ExitKey \in Keys /\ journal \in JournalShape
    BY <1>3, HereFacts DEF ExitKey, Keys, Purpose
  <2>. QED
    BY <2>1, <2>2, NotesBeforeKeep
<1> HIDE DEF l, q, w, j
<1>6. /\ q \in Shape /\ q.exit = copy.exit /\ q.active = copy.active
      /\ q.residual = copy.residual /\ q.legs[NextLeg] = l
      /\ \A k \in Leg : k # NextLeg => q.legs[k] = copy.legs[k]
  BY <1>1, <1>3, <1>4, LegChanges
<1>7. ~q.legs["short"].resting
  BY <1>4, <1>6, HereFacts DEF Leg
<1>8. /\ w \in WorkShape /\ w.todo = Tail(work.todo) /\ w.trigger = work.trigger
      /\ NextLeg \in w.failed
  BY <1>1, <1>3, DoneWork
<1>9. CoverInv(orders, q, rec, j, "exit", w)
  BY <1>1, <1>5, <1>6, <1>7, <1>8, HereFacts, RoundIsBroken
<1>. QED
  BY <1>1, <1>2, <1>9 DEF There, q, w, j

\* What goes out for a leg: no more than is open of it, or than the round is for.
LEMMA CloseIs ==
  ASSUME Here, pc = "exit", work.todo # <<>>, ~HoldsHedge
  PROVE  LET open == OpenOf(copy, NextLeg)
         IN  /\ work.failed = {} /\ open \in Nat /\ work.amount \in Nat
             /\ CloseQuantity \in Nat /\ CloseQuantity <= open /\ CloseQuantity <= work.amount
             /\ CloseQuantity = open \/ CloseQuantity = work.amount
<1>1. pc \in Rounds /\ pc = "exit"
  BY DEF Rounds
<1>2. work.failed = {} /\ NextLeg \in Leg
  BY <1>1, LegInTurn
<1> DEFINE a == OpenQuantity(copy, NextLeg)
<1> DEFINE b == work.amount
<1>3. a = OpenOf(copy, NextLeg) /\ a \in Nat /\ b \in Nat
  BY <1>1, <1>2, RoundFacts
<1>4. CloseQuantity = Min({a, b})
  BY DEF CloseQuantity
<1> HIDE DEF a, b
<1>5. Min({a, b}) \in Nat /\ Min({a, b}) <= a /\ Min({a, b}) <= b /\ Min({a, b}) \in {a, b}
  BY <1>3, MinOfTwo
<1>6. CloseQuantity \in Nat /\ CloseQuantity <= a /\ CloseQuantity <= b
      /\ (CloseQuantity = a \/ CloseQuantity = b)
  BY <1>4, <1>5
<1>7. b = work.amount
  BY DEF b
<1>. QED
  BY <1>2, <1>3, <1>6, <1>7

LEMMA LegHasNothingOpenStep == Covering /\ Here /\ LegHasNothingOpen => There
<1> SUFFICES ASSUME Covering, Here, LegHasNothingOpen PROVE There
  OBVIOUS
<1> DEFINE w == WorkDone
<1>1. /\ pc = "exit" /\ pc' = "exit" /\ pc \in Rounds /\ work.todo # <<>> /\ ~HoldsHedge
      /\ CloseQuantity = 0 /\ work' = w /\ UNCHANGED <<env, orders, journal, rec, copy>>
  BY DEF LegHasNothingOpen, Rounds
<1>2. /\ work.failed = {} /\ (OpenOf(copy, NextLeg) = 0 \/ work.amount = 0)
  BY <1>1, CloseIs
<1>3. /\ w \in WorkShape /\ w.todo = Tail(work.todo) /\ w.trigger = work.trigger
      /\ w.failed = work.failed /\ w.amount = work.amount
  <2>1. work \in WorkShape /\ Tail(work.todo) \in Routes
    BY <1>1, HereFacts, WorkFields, RoutesOf
  <2>. QED
    BY <2>1 DEF WorkDone, WorkShape
<1> HIDE DEF w
<1>4. /\ LegsSound(orders, copy) /\ JournalSound(copy, journal, "exit", work)
      /\ AmountSound(copy, work) /\ Worst(orders) >= Ahead(copy)
      /\ OpenOf(copy, "long") \in Nat /\ OpenOf(copy, "short") \in Nat
      /\ work.trigger \in Trigger /\ work.amount \in Nat
      /\ copy.residual > 0 => ~InPlay(copy)
  BY <1>1, <1>2, RoundFacts DEF Leg
<1>5. \/ NextLeg = "short" /\ w.todo = <<"long">> /\ work.todo = ExitSequence
      \/ NextLeg = "long" /\ w.todo = <<>> /\ work.todo # ExitSequence
  BY <1>1, <1>3, LegInTurn
<1>6. w.todo # ExitSequence /\ w.todo \in {<<"long">>, <<>>}
  BY <1>5, Going DEF ExitSequence
<1>7. AmountSound(copy, w)
  <2>1. CASE NextLeg = "long"
    BY <1>3, <1>4, <1>5, <2>1 DEF AmountSound, Partial
  <2>2. CASE NextLeg = "short"
    <3>1. Partial(work.trigger) => work.amount <= Units - OpenOf(copy, "short")
      <4> SUFFICES ASSUME Partial(work.trigger) PROVE work.amount <= Units - OpenOf(copy, "short")
        OBVIOUS
      <4>1. work.amount >= 1 /\ work.amount <= Units
        BY <1>4 DEF AmountSound
      <4>. QED
        BY <1>2, <1>4, <2>2, <4>1, HereFacts
    <3>. QED
      BY <1>3, <1>4, <3>1 DEF AmountSound, Partial
  <2>. QED
    BY <1>5, <2>1, <2>2
<1>8. w.todo = <<"long">> => Worst(orders) >= OpenOf(copy, "long") \/ Worst(orders) >= w.amount
  <2> SUFFICES ASSUME w.todo = <<"long">>
               PROVE  Worst(orders) >= OpenOf(copy, "long") \/ Worst(orders) >= w.amount
    OBVIOUS
  <2>1. NextLeg = "short"
    BY <1>5, Going
  <2>2. Worst(orders) >= OpenOf(copy, "long") - OpenOf(copy, "short")
    BY <1>4 DEF Ahead
  <2>. QED
    BY <1>2, <1>3, <1>4, <2>1, <2>2, HereFacts
<1>9. Round(orders, copy, "exit", w)
  BY <1>2, <1>3, <1>4, <1>6, <1>7, <1>8 DEF Round
<1>10. JournalSound(copy, journal, "exit", w)
  BY <1>3, <1>4, <1>6, JournalGoesOn
<1>11. Typed(orders, copy, rec, journal, "exit", w)
  BY <1>1, <1>3, HereFacts DEF Typed
<1>12. CoverInv(orders, copy, rec, journal, "exit", w)
  BY <1>1, <1>4, <1>9, <1>10, <1>11, HereFacts, ToRound
<1>. QED
  BY <1>1, <1>12 DEF There

LEMMA SendExitStep == Covering /\ Here /\ SendExit => There
<1> SUFFICES ASSUME Covering, Here, SendExit PROVE There
  OBVIOUS
<1> DEFINE leg == NextLeg
<1> DEFINE n == CloseQuantity
<1> DEFINE k == NewId
<1> DEFINE qs == orders'
<1> DEFINE j == journal'
<1> DEFINE w == [work EXCEPT !.order = k]
<1>1. /\ pc = "exit" /\ pc' = "sent" /\ pc \in Rounds /\ work.todo # <<>> /\ ~HoldsHedge
      /\ n > 0 /\ NotesBefore(ExitKey, "exit") /\ work' = w
      /\ UNCHANGED <<env, rec, copy>>
  BY DEF SendExit, Sends, Rounds, Goto
<1>2. PICK limit \in Limits(NextLeg, copy.legs[NextLeg].cycle) : Submit(NextLeg, "exit", limit, n)
  BY DEF SendExit
<1>3. limit \in BOOLEAN /\ (limit => leg = "long" /\ "exit" \in env.limit)
  BY <1>2 DEF Limits
<1>4. leg \in Leg /\ leg = Head(work.todo) /\ work.trigger \in Trigger
  BY <1>1, LegInTurn, RoundFacts
<1>5. /\ work.failed = {} /\ n \in Nat \ {0} /\ work.amount \in Nat /\ OpenOf(copy, leg) \in Nat
      /\ n <= OpenOf(copy, leg) /\ n <= work.amount
      /\ n = OpenOf(copy, leg) \/ n = work.amount
  BY <1>1, CloseIs
<1>6. IsSent(orders, qs, leg, "exit", limit, n)
  <2>1. qs = Append(orders, [leg |-> leg, part |-> "exit", limit |-> limit, qty |-> n,
                             filled |-> 0, state |-> "working"])
    BY <1>2 DEF Submit
  <2>2. leg \in Leg /\ "exit" \in Part /\ Whole(orders) /\ limit \in BOOLEAN /\ n \in Nat \ {0}
    BY <1>3, <1>4, <1>5, HereFacts DEF Part
  <2> HIDE DEF qs, n, leg
  <2>. QED
    BY <2>1, <2>2, SentIsAdded
<1>7. /\ Whole(qs) /\ Keeps(orders, qs) /\ k \in DOMAIN qs /\ k \in Nat
      /\ DOMAIN orders \subseteq DOMAIN qs
      /\ qs[k].leg = leg /\ qs[k].part = "exit" /\ qs[k].qty = n /\ qs[k].limit = limit
      /\ WorstBut(qs, k) = Worst(orders)
      /\ Worst(qs) = Worst(orders) - (IF leg = "long" THEN n ELSE 0)
  <2>1. Costs(leg, "exit", n) = IF leg = "long" THEN n ELSE 0
    BY DEF Costs
  <2>. QED
    BY <1>6, <2>1 DEF IsSent, NewId
<1>8. /\ LegsSound(orders, copy) /\ JournalSound(copy, journal, "exit", work)
      /\ AmountSound(copy, work) /\ Worst(orders) >= Ahead(copy) /\ Ahead(copy) \in Int
      /\ work.todo = <<"long">> => Worst(orders) >= OpenOf(copy, "long") \/ Worst(orders) >= work.amount
      /\ copy.residual > 0 => ~InPlay(copy)
      /\ work.todo \in {<<"short", "long">>, <<"long">>}
  BY <1>1, <1>5, RoundFacts
<1>9. /\ w \in WorkShape /\ w.todo = work.todo /\ w.trigger = work.trigger
      /\ w.failed = work.failed /\ w.amount = work.amount /\ w.order = k
  BY <1>7, HereFacts DEF WorkShape
<1>10. /\ j \in JournalShape
       /\ \A x \in Keys : j[x].state = "after" => j[x] = journal[x]
  <2>1. ExitKey \in Keys /\ journal \in JournalShape
    BY <1>4, HereFacts DEF ExitKey, Keys, Purpose
  <2>. QED
    BY <1>1, <2>1, NotesBeforeKeep
<1> HIDE DEF k, qs, j, w, n, leg
<1>11. Worst(qs) >= 0
  <2>1. leg = "long" => work.todo = <<"long">>
    BY <1>4, <1>8, Going
  <2>2. leg = "long" => Worst(orders) >= n
    BY <1>5, <1>8, <2>1, HereFacts
  <2>. QED
    BY <1>5, <1>7, <2>2, HereFacts
<1>12. SentOut(qs, copy, w)
  BY <1>3, <1>4, <1>5, <1>7, <1>8, <1>9, HereFacts DEF SentOut
<1>13. AmountSound(copy, w)
  BY <1>8, <1>9 DEF AmountSound, Partial
<1>14. Round(qs, copy, "sent", w)
  BY <1>4, <1>5, <1>8, <1>9, <1>12, <1>13, Going DEF Round
<1>15. JournalSound(copy, j, "sent", w)
  <2>1. \A t \in Trigger : <<"short", t>> \in Keys
    BY DEF Leg, Keys, Purpose
  <2>2. FirstTarget(copy, "exit", work) => FirstTarget(copy, "sent", w)
    BY <1>9 DEF FirstTarget, Rounds
  <2>. QED
    BY <1>8, <1>10, <2>1, <2>2 DEF JournalSound
<1>16. "sent" \in Rounds /\ "sent" \in Places
  BY DEF Rounds, Places, ExitSteps
<1>17. Typed(qs, copy, rec, j, "sent", w)
  BY <1>7, <1>9, <1>10, <1>16, HereFacts DEF Typed
<1>18. LegsSound(qs, copy)
  BY <1>7, <1>8, SoundCarries
<1>19. CoverInv(qs, copy, rec, j, "sent", w)
  BY <1>8, <1>11, <1>14, <1>15, <1>16, <1>17, <1>18, HereFacts, ToRound
<1>. QED
  BY <1>1, <1>19 DEF There, qs, j, w

LEMMA NoteSentStep == Covering /\ Here /\ NoteSent => There
<1> SUFFICES ASSUME Covering, Here, NoteSent PROVE There
  OBVIOUS
<1> DEFINE y == <<NextLeg, work.trigger>>
<1> DEFINE j == journal'
<1> DEFINE e == [state |-> "after", order |-> work.order]
<1>1. /\ pc = "sent" /\ pc' = "await" /\ pc \in Rounds /\ Notes(y, "exit", e)
      /\ UNCHANGED <<env, orders, rec, copy, work>>
  BY DEF NoteSent, Rounds, Goto, ExitKey
<1>2. /\ work.failed = {} /\ work.todo # <<>> /\ SentOut(orders, copy, work)
      /\ LegsSound(orders, copy) /\ JournalSound(copy, journal, "sent", work)
      /\ AmountSound(copy, work) /\ work.trigger \in Trigger
      /\ copy.residual > 0 => ~InPlay(copy)
      /\ work.todo \in {<<"short", "long">>, <<"long">>, <<>>}
  BY <1>1, RoundFacts
<1>3. work.order \in DOMAIN orders /\ work.order \in Nat /\ NextLeg \in Leg /\ NextLeg = Head(work.todo)
  BY <1>1, <1>2, LegInTurn, HereFacts, WorkFields DEF SentOut
<1>4. y \in Keys /\ journal \in JournalShape
  BY <1>2, <1>3, HereFacts DEF Keys, Purpose
<1>5. e \in Entry /\ e.order = work.order
  BY <1>3 DEF Entry
<1> HIDE DEF y, e
<1>6. /\ j \in JournalShape /\ (j[y] = e \/ j[y] = journal[y])
      /\ \A x \in Keys : x # y => j[x] = journal[x]
  BY <1>1, <1>4, <1>5, NotesKeep
<1> HIDE DEF j
<1>7. "await" \in Rounds /\ "await" \in Places /\ "await" # "exit"
  BY DEF Rounds, Places, ExitSteps
<1>8. Typed(orders, copy, rec, j, "await", work)
  <2>1. \A x \in Keys : j[x].state = "after" => j[x].order \in DOMAIN orders
    BY <1>3, <1>4, <1>5, <1>6, HereFacts DEF Typed
  <2>. QED
    BY <1>6, <1>7, <2>1, HereFacts DEF Typed
<1>9. JournalSound(copy, j, "await", work)
  <2> SUFFICES ASSUME NEW t \in Trigger, j[<<"short", t>>].state = "after"
               PROVE  \/ OpenOf(copy, "short") = 0
                      \/ "await" = "await" /\ work.trigger = t /\ Head(work.todo) = "short"
                      \/ t = "tp1" /\ FirstTarget(copy, "await", work)
    BY DEF JournalSound
  <2>1. CASE <<"short", t>> = y
    BY <1>3, <2>1 DEF y
  <2>2. CASE <<"short", t>> # y
    <3>1. <<"short", t>> \in Keys
      BY DEF Leg, Keys, Purpose
    <3>2. journal[<<"short", t>>].state = "after"
      BY <1>6, <2>2, <3>1
    <3>3. FirstTarget(copy, "sent", work) => FirstTarget(copy, "await", work)
      BY DEF FirstTarget, Rounds
    <3>. QED
      BY <1>2, <3>2, <3>3 DEF JournalSound
  <2>. QED
    BY <2>1, <2>2
<1>10. Round(orders, copy, "await", work)
  BY <1>2, <1>7 DEF Round
<1>11. CoverInv(orders, copy, rec, j, "await", work)
  BY <1>2, <1>7, <1>8, <1>9, <1>10, HereFacts, ToRound
<1>. QED
  BY <1>1, <1>11 DEF There, j

\* What the answer about an order makes of the record and of the work
Recorded(id, over, dead, qty, resting) ==
    /\ pc' = "exit"
    /\ \E l \in LegShape :
          /\ copy' = LegSet(copy, NextLeg, l)
          /\ l.order = id /\ l.qty = copy.legs[NextLeg].qty + qty /\ l.resting = resting
          /\ l.filled = copy.legs[NextLeg].filled
          /\ ~dead => l.status \in {"submitted", "filled"}
          /\ ~dead /\ over => l.status = "filled"
    /\ work' \in WorkShape /\ work'.todo = Tail(work.todo)
    /\ work'.trigger = work.trigger /\ work'.amount = work.amount
    /\ dead => work'.failed = work.failed \cup {NextLeg}
    /\ ~dead => work'.failed = work.failed

LEMMA AnsweredIs ==
  ASSUME Here, work.todo # <<>>, NextLeg \in Leg, NEW id, NEW n, NEW over, NEW dead, NEW qty,
         NEW resting, id \in Nat, n \in Nat, over \in BOOLEAN, dead \in BOOLEAN, qty \in Nat,
         resting \in BOOLEAN, Answered(id, n, over, dead, qty, resting)
  PROVE  Recorded(id, over, dead, qty, resting)
<1> DEFINE m == copy.legs[NextLeg]
<1> DEFINE status == IF dead THEN "failed" ELSE IF over THEN "filled" ELSE "submitted"
<1> DEFINE k == m.qty + qty
<1> DEFINE l == [m EXCEPT !.order = id, !.qty = k, !.done = n, !.status = status,
                          !.resting = resting]
<1>1. pc' = "exit" /\ copy' = LegSet(copy, NextLeg, l)
  BY DEF Answered, LegSet, Goto
<1>2. m \in LegShape /\ m.qty \in Nat
  BY HereFacts, ShapeFields, LegFields
<1>3. k \in Nat /\ status \in {"filled", "failed", "submitted"}
  BY <1>2
<1>4. /\ l \in LegShape /\ l.order = id /\ l.qty = k /\ l.resting = resting
      /\ l.filled = m.filled /\ l.status = status
  <2> HIDE DEF m, k, status
  <2>. QED
    BY <1>2, <1>3 DEF LegShape
<1>5. \E x \in LegShape :
         /\ copy' = LegSet(copy, NextLeg, x)
         /\ x.order = id /\ x.qty = copy.legs[NextLeg].qty + qty /\ x.resting = resting
         /\ x.filled = copy.legs[NextLeg].filled
         /\ ~dead => x.status \in {"submitted", "filled"}
         /\ ~dead /\ over => x.status = "filled"
  <2>1. /\ l \in LegShape /\ copy' = LegSet(copy, NextLeg, l)
        /\ l.order = id /\ l.qty = copy.legs[NextLeg].qty + qty /\ l.resting = resting
        /\ l.filled = copy.legs[NextLeg].filled
        /\ ~dead => l.status \in {"submitted", "filled"}
        /\ ~dead /\ over => l.status = "filled"
    BY <1>1, <1>4
  <2> HIDE DEF l
  <2>. QED
    BY <2>1
<1>6. /\ work' \in WorkShape /\ work'.todo = Tail(work.todo)
      /\ work'.trigger = work.trigger /\ work'.amount = work.amount
      /\ dead => work'.failed = work.failed \cup {NextLeg}
      /\ ~dead => work'.failed = work.failed
  <2> DEFINE failed == IF dead THEN WorkDone.failed \cup {NextLeg} ELSE WorkDone.failed
  <2> DEFINE sent == IF dead THEN WorkDone.sent ELSE WorkDone.sent \cup {NextLeg}
  <2> DEFINE full == IF over /\ ~dead THEN WorkDone.full \cup {NextLeg} ELSE WorkDone.full
  <2>1. work \in WorkShape /\ work.failed \in SUBSET Leg /\ work.sent \in SUBSET Leg /\ work.full \in SUBSET Leg
    BY HereFacts, WorkFields
  <2>2. /\ WorkDone.failed = work.failed /\ WorkDone.sent = work.sent /\ WorkDone.full = work.full
    BY <2>1 DEF WorkDone, WorkShape
  <2>3. failed \in SUBSET Leg /\ sent \in SUBSET Leg /\ full \in SUBSET Leg
    BY <2>1, <2>2
  <2>4. work' = [WorkDone EXCEPT !.failed = failed, !.sent = sent, !.full = full]
    BY DEF Answered
  <2>6. failed = IF dead THEN work.failed \cup {NextLeg} ELSE work.failed
    BY <2>2
  <2> DEFINE v == WorkDone
  <2>7. /\ v \in WorkShape /\ v.todo = Tail(work.todo) /\ v.trigger = work.trigger
        /\ v.amount = work.amount
    BY <2>1, RoutesOf, WorkFields DEF WorkDone, WorkShape
  <2>8. work' = [v EXCEPT !.failed = failed, !.sent = sent, !.full = full]
    BY <2>4
  <2> HIDE DEF v, failed, sent, full
  <2>9. /\ work' \in WorkShape /\ work'.todo = v.todo /\ work'.failed = failed
        /\ work'.trigger = v.trigger /\ work'.amount = v.amount
    BY <2>3, <2>7, <2>8 DEF WorkShape
  <2>. QED
    BY <2>6, <2>7, <2>9
<1>. QED
  BY <1>1, <1>5, <1>6 DEF Recorded

\* An exit of a leg is out, and the record says so: the round goes on.
LEMMA LegIsAnswered ==
  ASSUME Here, pc \in Rounds, work.failed = {}, work.todo # <<>>,
         NEW n \in Nat \ {0}, n <= OpenOf(copy, NextLeg), n <= work.amount,
         n = OpenOf(copy, NextLeg) \/ n = work.amount,
         NEW l \in LegShape, l.filled = copy.legs[NextLeg].filled,
         l.qty = copy.legs[NextLeg].qty + n, l.order \in DOMAIN orders,
         l.status \in {"submitted", "filled"},
         NextLeg = "short" =>
            /\ l.status = "filled" /\ orders[l.order].state = "filled" /\ ~l.resting
            /\ Worst(orders) >= Ahead(copy) + n /\ Worst(orders) >= n,
         NextLeg = "long" => Worst(orders) >= Ahead(copy) - n,
         l.resting => LET o == orders[l.order]
                      IN  o.leg = "long" /\ o.part = "exit" /\ o.qty = l.qty,
         NEW q, q = LegSet(copy, NextLeg, l),
         NEW w \in WorkShape, w.todo = Tail(work.todo), w.failed = {},
         w.trigger = work.trigger, w.amount = work.amount
  PROVE  CoverInv(orders, q, rec, journal, "exit", w)
<1>1. /\ LegsSound(orders, copy) /\ JournalSound(copy, journal, pc, work)
      /\ AmountSound(copy, work) /\ Ahead(copy) \in Int
      /\ \A leg \in Leg : OpenOf(copy, leg) \in Nat /\ OpenOf(copy, leg) <= Units
      /\ work.trigger \in Trigger /\ work.amount \in Nat
      /\ copy.residual > 0 => ~InPlay(copy)
  BY RoundFacts
<1>2. /\ NextLeg \in Leg /\ Tail(work.todo) # ExitSequence
      /\ \/ NextLeg = "short" /\ w.todo = <<"long">> /\ work.todo = ExitSequence
         \/ NextLeg = "long" /\ w.todo = <<>> /\ work.todo # ExitSequence
      /\ NextLeg = Head(work.todo)
  BY LegInTurn
<1> DEFINE m == copy.legs[NextLeg]
<1>3. copy \in Shape /\ m \in LegShape /\ m.qty \in Nat /\ Units \in Nat /\ m.filled = Units
  <2>1. copy \in Shape /\ Units \in Nat
    BY HereFacts
  <2>2. m \in LegShape /\ m.qty \in Nat
    BY <1>2, <2>1, ShapeFields, LegFields
  <2>3. m.filled = Units
    BY <1>1, <1>2 DEF LegsSound, Leg
  <2>. QED
    BY <2>1, <2>2, <2>3
<1>4. /\ q \in Shape /\ q.legs[NextLeg] = l
      /\ \A k \in Leg : k # NextLeg => q.legs[k] = copy.legs[k]
      /\ q.exit = copy.exit /\ q.active = copy.active /\ q.residual = copy.residual
      /\ q.closed = copy.closed /\ q.tp1 = copy.tp1
  <2> HIDE DEF m
  <2>. QED
    BY <1>2, <1>3, LegChanges
<1>5. OpenOf(q, NextLeg) = OpenOf(copy, NextLeg) - n
  <2>1. OpenOf(copy, NextLeg) = IF Units >= m.qty THEN Units - m.qty ELSE 0
    BY DEF OpenOf
  <2>2. OpenOf(q, NextLeg) = IF Units >= l.qty THEN Units - l.qty ELSE 0
    BY <1>4 DEF OpenOf
  <2>3. l.qty = m.qty + n
    OBVIOUS
  <2> DEFINE u == OpenOf(copy, NextLeg)
  <2> DEFINE v == OpenOf(q, NextLeg)
  <2> DEFINE a == m.qty
  <2> DEFINE b == l.qty
  <2>4. u = (IF Units >= a THEN Units - a ELSE 0) /\ v = (IF Units >= b THEN Units - b ELSE 0)
        /\ b = a + n /\ a \in Nat /\ n <= u
    BY <1>3, <2>1, <2>2, <2>3
  <2> HIDE DEF u, v, a, b
  <2>5. v = u - n
    BY <1>3, <2>4
  <2>. QED
    BY <2>5 DEF u, v
<1>6. \A k \in Leg : k # NextLeg => OpenOf(q, k) = OpenOf(copy, k)
  BY <1>4 DEF OpenOf
<1> DEFINE S == OpenOf(copy, "short")
<1> DEFINE L == OpenOf(copy, "long")
<1> DEFINE T == OpenOf(q, "short")
<1> DEFINE M == OpenOf(q, "long")
<1>7. /\ S \in Nat /\ L \in Nat /\ S <= Units /\ L <= Units
      /\ NextLeg = "short" => T = S - n /\ M = L /\ n <= S /\ (n = S \/ n = work.amount)
      /\ NextLeg = "long" => T = S /\ M = L - n /\ n <= L /\ (n = L \/ n = work.amount)
  BY <1>1, <1>5, <1>6 DEF Leg
<1>8. Ahead(copy) = L - S /\ Ahead(q) = M - T
  BY DEF Ahead
<1>9. /\ ~Partial(work.trigger) => work.amount >= S
      /\ ~env.tiered => work.amount = Units
      /\ Partial(work.trigger) => copy.tp1 /\ work.amount >= 1 /\ work.amount <= Units
      /\ Partial(work.trigger) /\ work.todo # ExitSequence => work.amount <= Units - S
  BY <1>1 DEF AmountSound
<1>10. S <= Units - copy.closed /\ copy.closed \in Nat /\ (copy.tp1 \/ ~env.tiered => copy.closed = 0)
       /\ (~env.tiered => copy.legs["long"].status = "none" \/ L = 0)
  BY <1>1, <1>3, ShapeFields DEF LegsSound
<1> HIDE DEF S, L, T, M, m
<1>11. LegsSound(orders, q)
  <2>1. q.legs["short"].filled = Units /\ q.legs["long"].filled = Units /\ q.residual = 0
    BY <1>1, <1>2, <1>3, <1>4 DEF LegsSound, Leg, m
  <2>2. LET s == q.legs["short"]
        IN  \/ s.status = "none" /\ s.qty = 0 /\ s.order = 0
            \/ s.status = "filled" /\ s.order \in DOMAIN orders /\ orders[s.order].state = "filled"
    BY <1>1, <1>2, <1>4 DEF LegsSound, Leg
  <2>3. LET x == q.legs["long"]
        IN  /\ \/ x.status = "none" /\ x.qty = 0 /\ x.order = 0
               \/ x.status \in {"submitted", "filled"} /\ x.order \in DOMAIN orders
            /\ x.resting => /\ x.order \in DOMAIN orders
                            /\ LET o == orders[x.order]
                               IN  o.leg = "long" /\ o.part = "exit" /\ o.qty = x.qty
    BY <1>1, <1>2, <1>4 DEF LegsSound, Leg
  <2>4. T <= Units - q.closed
    BY <1>2, <1>3, <1>4, <1>7, <1>10
  <2>5. q.tp1 \/ ~env.tiered => q.closed = 0
    BY <1>4, <1>10
  <2>6. ~env.tiered => q.legs["long"].status = "none" \/ M = 0
    <3> SUFFICES ASSUME ~env.tiered PROVE q.legs["long"].status = "none" \/ M = 0
      OBVIOUS
    <3>1. CASE NextLeg = "long"
      BY <1>3, <1>7, <1>9, <3>1
    <3>2. CASE NextLeg = "short"
      BY <1>4, <1>7, <1>10, <3>2 DEF Leg
    <3>. QED
      BY <1>2, <3>1, <3>2
  <2>. QED
    BY <2>1, <2>2, <2>3, <2>4, <2>5, <2>6 DEF LegsSound, T, M
<1>12. "exit" \in Rounds /\ "exit" \in Places
  BY DEF Rounds, Places, ExitSteps
<1>13. JournalSound(q, journal, "exit", w)
  <2> SUFFICES ASSUME NEW t \in Trigger, journal[<<"short", t>>].state = "after"
               PROVE  T = 0 \/ (t = "tp1" /\ FirstTarget(q, "exit", w))
    BY DEF JournalSound, T
  <2>1. \/ S = 0
        \/ pc = "await" /\ work.trigger = t /\ NextLeg = "short"
        \/ t = "tp1" /\ FirstTarget(copy, pc, work)
    BY <1>1, <1>2 DEF JournalSound, S
  <2>2. CASE S = 0
    BY <1>2, <1>7, <2>2
  <2>3. CASE work.trigger = t /\ NextLeg = "short" /\ ~Partial(t)
    BY <1>7, <1>9, <2>3
  <2>4. CASE work.trigger = t /\ NextLeg = "short" /\ Partial(t)
    BY <1>2, <1>12, <2>4 DEF FirstTarget, Partial
  <2>5. CASE t = "tp1" /\ FirstTarget(copy, pc, work)
    BY <1>2, <1>4, <1>12, <2>5 DEF FirstTarget
  <2>. QED
    BY <2>1, <2>2, <2>3, <2>4, <2>5
<1>14. AmountSound(q, w)
  <2>1. ~Partial(work.trigger) => work.amount >= T
    BY <1>1, <1>2, <1>7, <1>9
  <2>2. Partial(work.trigger) => work.amount <= Units - T
    BY <1>1, <1>2, <1>3, <1>7, <1>9
  <2>. QED
    BY <1>4, <1>9, <2>1, <2>2 DEF AmountSound, T
<1>15. w.todo = <<"long">> => Worst(orders) >= M \/ Worst(orders) >= w.amount
  <2> SUFFICES ASSUME w.todo = <<"long">> PROVE Worst(orders) >= M \/ Worst(orders) >= w.amount
    OBVIOUS
  <2>1. NextLeg = "short"
    BY <1>2, Going
  <2>. QED
    BY <1>1, <1>7, <1>8, <2>1, HereFacts
<1>16. Worst(orders) >= Ahead(q)
  BY <1>2, <1>7, <1>8, HereFacts
<1>17. Round(orders, q, "exit", w)
  <2>1. w.todo \in {<<"short", "long">>, <<"long">>, <<>>}
    BY <1>2
  <2>. QED
    BY <1>1, <1>14, <1>15, <2>1 DEF Round, M
<1>18. Typed(orders, q, rec, journal, "exit", w)
  BY <1>4, <1>12, HereFacts DEF Typed
<1>19. ~q.legs["short"].resting
  BY <1>2, <1>4, HereFacts DEF Leg
<1>. QED
  BY <1>1, <1>4, <1>11, <1>12, <1>13, <1>16, <1>17, <1>18, <1>19, HereFacts, ToRound DEF InPlay

LEMMA TakeOverStep == Covering /\ Here /\ TakeOver => There
<1> SUFFICES ASSUME Covering, Here, TakeOver PROVE There
  OBVIOUS
<1>0. PICK noted \in Noted :
         /\ TakenOver(noted)
         /\ LET o == orders[noted.order]
            IN  Answered(noted.order, o.filled, FilledNow(o, CloseQuantity), FALSE,
                         CloseQuantity, FALSE)
  BY DEF TakeOver
<1>a. noted.state = "after" /\ noted = journal[<<NextLeg, work.trigger>>]
  BY <1>0, RecalledIs DEF Noted, ExitKey, TakenOver
<1> DEFINE n == CloseQuantity
<1> DEFINE id == noted.order
<1> DEFINE q == copy'
<1> DEFINE w == work'
<1>1. /\ pc = "exit" /\ pc \in Rounds /\ work.todo # <<>> /\ ~HoldsHedge /\ n > 0
      /\ UNCHANGED <<env, orders, journal, rec, faults, spent>>
      /\ Answered(id, orders[id].filled, FilledNow(orders[id], n), FALSE, n, FALSE)
  BY <1>0 DEF TakeOver, Sends, Rounds
<1>2. /\ work.failed = {} /\ n \in Nat \ {0} /\ work.amount \in Nat
      /\ n <= OpenOf(copy, NextLeg) /\ n <= work.amount
      /\ n = OpenOf(copy, NextLeg) \/ n = work.amount
      /\ OpenOf(copy, NextLeg) \in Nat
  BY <1>1, CloseIs
<1>3. /\ NextLeg \in Leg /\ work.trigger \in Trigger
      /\ NextLeg = "short" => work.todo = ExitSequence
  BY <1>1, LegInTurn, RoundFacts
<1>4. /\ JournalSound(copy, journal, "exit", work) /\ AmountSound(copy, work)
      /\ Worst(orders) >= Ahead(copy) /\ Ahead(copy) \in Int
  BY <1>1, <1>2, RoundFacts
<1>5. NextLeg # "short"
  <2> SUFFICES ASSUME NextLeg = "short" PROVE FALSE
    OBVIOUS
  <2>1. journal[<<"short", work.trigger>>].state = "after"
    BY <1>a
  <2>2. OpenOf(copy, "short") # 0
    BY <1>2
  <2>3. work.trigger = "tp1" /\ FirstTarget(copy, "exit", work)
    BY <1>3, <1>4, <2>1, <2>2 DEF JournalSound
  <2>4. env.tiered /\ ~copy.tp1
    BY <1>3, <2>3 DEF FirstTarget
  <2>. QED
    BY <1>4, <2>3, <2>4 DEF AmountSound, Partial
<1>6. id \in DOMAIN orders /\ id \in Nat /\ orders[id].filled \in Nat
  <2>1. <<NextLeg, work.trigger>> \in Keys
    BY <1>3 DEF Keys, Purpose
  <2>2. id \in DOMAIN orders
    BY <1>a, <2>1, HereFacts DEF Typed
  <2>. QED
    BY <2>2, HereFacts, WholeOrders, OrderFields
<1>7. FilledNow(orders[id], n) \in BOOLEAN
  BY DEF FilledNow
<1> HIDE DEF n, id
<1>8. /\ pc' = "exit"
      /\ \E l \in LegShape :
            /\ q = LegSet(copy, NextLeg, l)
            /\ l.order = id /\ l.qty = copy.legs[NextLeg].qty + n /\ ~l.resting
            /\ l.filled = copy.legs[NextLeg].filled
            /\ l.status \in {"submitted", "filled"}
      /\ w \in WorkShape /\ w.todo = Tail(work.todo)
      /\ w.trigger = work.trigger /\ w.amount = work.amount
      /\ w.failed = work.failed
  <2> DEFINE over == FilledNow(orders[id], n)
  <2>1. /\ Answered(id, orders[id].filled, over, FALSE, n, FALSE) /\ over \in BOOLEAN /\ n \in Nat
        /\ work.todo # <<>> /\ NextLeg \in Leg /\ id \in Nat /\ orders[id].filled \in Nat
    BY <1>1, <1>2, <1>3, <1>6, <1>7
  <2> DEFINE dead == FALSE
  <2>2. Answered(id, orders[id].filled, over, dead, n, dead) /\ dead \in BOOLEAN
    BY <2>1
  <2> HIDE DEF over, dead
  <2>3. Recorded(id, over, dead, n, dead)
    BY <2>1, <2>2, AnsweredIs
  <2>4. ~dead
    BY DEF dead
  <2>. QED
    BY <2>3, <2>4 DEF Recorded, dead
<1>9. PICK l \in LegShape :
         /\ q = LegSet(copy, NextLeg, l)
         /\ l.order = id /\ l.qty = copy.legs[NextLeg].qty + n /\ ~l.resting
         /\ l.filled = copy.legs[NextLeg].filled /\ l.status \in {"submitted", "filled"}
  BY <1>8
<1> HIDE DEF q, w
<1>10. Worst(orders) >= Ahead(copy) - n
  BY <1>2, <1>4, HereFacts
<1>11. CoverInv(orders, q, rec, journal, "exit", w)
  BY <1>1, <1>2, <1>5, <1>6, <1>8, <1>9, <1>10, LegIsAnswered
<1>. QED
  BY <1>1, <1>8, <1>11 DEF There, q, w

LEMMA AwaitEndsStep == Covering /\ Here /\ AwaitEnds => There
<1> SUFFICES ASSUME Covering, Here, AwaitEnds PROVE There
  OBVIOUS
<1> DEFINE id == work.order
<1> DEFINE o == orders[id]
<1> DEFINE n == o.qty
<1> DEFINE q == copy'
<1> DEFINE w == work'
<1>1. /\ pc = "await" /\ pc \in Rounds /\ pc # "exit"
      /\ WaitIsOver(o) /\ Answered(id, o.filled, FilledNow(o, n), DeadUnfilled(o), n, o.limit)
      /\ UNCHANGED <<env, orders, journal, rec, faults, spent>>
  BY DEF AwaitEnds, Rounds, Covering
<1>2. /\ work.failed = {} /\ work.todo # <<>> /\ SentOut(orders, copy, work)
      /\ LegsSound(orders, copy) /\ Ahead(copy) \in Int /\ AmountSound(copy, work)
  BY <1>1, RoundFacts
<1>3. NextLeg \in Leg /\ NextLeg = Head(work.todo)
  BY <1>1, <1>2, LegInTurn
<1>4. /\ id \in DOMAIN orders /\ o.leg = NextLeg /\ o.part = "exit"
      /\ n <= OpenOf(copy, NextLeg) /\ n <= work.amount
      /\ n = OpenOf(copy, NextLeg) \/ n = work.amount
      /\ o.limit => NextLeg = "long" /\ "exit" \in env.limit
      /\ NextLeg = "short" => WorstBut(orders, id) >= 0
      /\ WorstBut(orders, id) >= Ahead(copy)
  BY <1>2, <1>3 DEF SentOut
<1>5. /\ o \in OrderShape /\ o.filled = IF o.state = "filled" THEN n ELSE 0
  BY <1>4, HereFacts DEF Whole
<1>6. /\ n \in Nat \ {0} /\ o.filled \in Nat /\ o.limit \in BOOLEAN
      /\ o.state \in {"working", "filled", "canceled", "rejected"}
      /\ id \in Nat /\ OpenOf(copy, NextLeg) \in Nat
      /\ WorstBut(orders, id) \in Int /\ Worth(o) \in Int
      /\ Worst(orders) = Worth(o) + WorstBut(orders, id)
  BY <1>1, <1>2, <1>3, <1>4, <1>5, HereFacts, WholeOrders, WorstType, OrderFields, RoundFacts
<1>7. o.state = "working" => o.limit
  <2>1. o.part \notin env.slow
    BY DEF Covering
  <2>. QED
    BY <1>1, <2>1 DEF WaitIsOver, Alive
<1>8. FilledNow(o, n) \in BOOLEAN /\ DeadUnfilled(o) \in BOOLEAN
  BY DEF FilledNow, DeadUnfilled, Dead
<1> DEFINE over == FilledNow(o, n)
<1> DEFINE dead == DeadUnfilled(o)
<1>9. Answered(id, o.filled, over, dead, n, o.limit)
  BY <1>1
<1>10. /\ dead <=> o.state \in {"canceled", "rejected"}
       /\ over <=> o.state = "filled"
  BY <1>5, <1>6 DEF FilledNow, DeadUnfilled, Dead
<1>11. /\ Worth(o) = IF o.leg = "short" THEN o.filled
                     ELSE IF o.state \in {"working", "filled"} THEN -n ELSE 0
  <2>1. o.leg \in {"long", "short"} /\ o.part = "exit"
    BY <1>3, <1>4 DEF Leg
  <2>. QED
    BY <2>1 DEF Worth, Buys, Live
<1> HIDE DEF over, dead
<1>12. /\ pc' = "exit"
       /\ \E l \in LegShape :
             /\ q = LegSet(copy, NextLeg, l)
             /\ l.order = id /\ l.qty = copy.legs[NextLeg].qty + n /\ l.resting = o.limit
             /\ l.filled = copy.legs[NextLeg].filled
             /\ ~dead => l.status \in {"submitted", "filled"}
             /\ ~dead /\ over => l.status = "filled"
       /\ w \in WorkShape /\ w.todo = Tail(work.todo)
       /\ w.trigger = work.trigger /\ w.amount = work.amount
       /\ dead => w.failed = work.failed \cup {NextLeg}
       /\ ~dead => w.failed = work.failed
  <2>1. /\ over \in BOOLEAN /\ dead \in BOOLEAN /\ n \in Nat /\ o.limit \in BOOLEAN
        /\ o.filled \in Nat /\ id \in Nat
    BY <1>6, <1>8 DEF over, dead
  <2> DEFINE filled == o.filled
  <2> DEFINE limit == o.limit
  <2>2. /\ Answered(id, filled, over, dead, n, limit) /\ limit \in BOOLEAN /\ filled \in Nat
    BY <1>9, <2>1
  <2> HIDE DEF id, n, filled, limit
  <2>3. Recorded(id, over, dead, n, limit)
    BY <1>2, <1>3, <2>1, <2>2, AnsweredIs
  <2> HIDE DEF q, w
  <2>4. q = copy' /\ w = work'
    BY DEF q, w
  <2>. QED
    BY <2>3, <2>4 DEF Recorded, limit
<1>13. PICK l \in LegShape :
          /\ q = LegSet(copy, NextLeg, l)
          /\ l.order = id /\ l.qty = copy.legs[NextLeg].qty + n /\ l.resting = o.limit
          /\ l.filled = copy.legs[NextLeg].filled
          /\ ~dead => l.status \in {"submitted", "filled"}
          /\ ~dead /\ over => l.status = "filled"
  BY <1>12
<1> HIDE DEF q, w
<1>14. CASE dead
  <2>1. w.failed # {} /\ (NextLeg = "short" => "short" \in w.failed)
    BY <1>12, <1>14
  <2>2. /\ q \in Shape /\ q.exit = copy.exit /\ q.active = copy.active
        /\ q.residual = copy.residual /\ q.legs[NextLeg] = l
        /\ \A k \in Leg : k # NextLeg => q.legs[k] = copy.legs[k]
    BY <1>3, <1>13, HereFacts, LegChanges
  <2>3. ~q.legs["short"].resting
    BY <1>4, <1>13, <2>2, HereFacts DEF Leg
  <2>4. CoverInv(orders, q, rec, journal, "exit", w)
    BY <1>1, <1>2, <1>12, <2>1, <2>2, <2>3, HereFacts, RoundIsBroken
  <2>. QED
    BY <1>1, <1>12, <2>4 DEF There, q, w
<1>15. CASE ~dead
  <2>1. w.failed = {} /\ l.status \in {"submitted", "filled"}
    BY <1>2, <1>12, <1>13, <1>15
  <2>2. NextLeg = "short" => /\ l.status = "filled" /\ o.state = "filled" /\ ~l.resting
                             /\ Worth(o) = n
    BY <1>4, <1>5, <1>6, <1>7, <1>10, <1>11, <1>13, <1>15
  <2>3. NextLeg = "long" => Worth(o) = -n
    BY <1>4, <1>6, <1>10, <1>11, <1>15
  <2> DEFINE x == Worst(orders)
  <2> DEFINE y == WorstBut(orders, id)
  <2> DEFINE a == Ahead(copy)
  <2> DEFINE v == Worth(o)
  <2>4. /\ x = v + y /\ v \in Int /\ y \in Int /\ a \in Int /\ y >= a /\ n \in Nat
        /\ NextLeg = "short" => y >= 0 /\ v = n
        /\ NextLeg = "long" => v = -n
    BY <1>2, <1>4, <1>6, <2>2, <2>3
  <2>5. /\ NextLeg = "short" => x >= a + n /\ x >= n
        /\ NextLeg = "long" => x >= a - n
    <3> HIDE DEF x, y, a, v, n
    <3>. QED
      BY <2>4
  <2>6. l.resting => n = l.qty
    <3> SUFFICES ASSUME o.limit PROVE n = l.qty
      BY <1>13
    <3>1. ~env.tiered /\ NextLeg = "long"
      BY <1>4 DEF Covering, Tame, TameExit
    <3>2. copy.legs["long"].status = "none" \/ OpenOf(copy, "long") = 0
      BY <1>2, <3>1 DEF LegsSound
    <3>3. OpenOf(copy, "long") # 0
      BY <1>4, <1>6, <3>1
    <3>4. copy.legs[NextLeg].qty = 0
      BY <1>2, <3>1, <3>2, <3>3 DEF LegsSound
    <3>. QED
      BY <1>6, <1>13, <3>4
  <2>7. l.resting => LET e == orders[l.order] IN e.leg = "long" /\ e.part = "exit" /\ e.qty = l.qty
    BY <1>4, <1>13, <2>6
  <2>8. l.order \in DOMAIN orders /\ (NextLeg = "short" => orders[l.order].state = "filled")
    BY <1>4, <1>13, <2>2
  <2>9. /\ n \in Nat \ {0} /\ n <= OpenOf(copy, NextLeg) /\ n <= work.amount
        /\ n = OpenOf(copy, NextLeg) \/ n = work.amount
        /\ l.filled = copy.legs[NextLeg].filled /\ l.qty = copy.legs[NextLeg].qty + n
        /\ q = LegSet(copy, NextLeg, l)
    BY <1>4, <1>6, <1>13
  <2> HIDE DEF n, id, o
  <2>10. CoverInv(orders, q, rec, journal, "exit", w)
    BY <1>1, <1>2, <1>12, <2>1, <2>2, <2>5, <2>7, <2>8, <2>9, LegIsAnswered
  <2>. QED
    BY <1>1, <1>12, <2>10 DEF There, q, w
<1>. QED
  BY <1>14, <1>15

\* What a round ends with: an exit that is out, or none, or one that failed
LEMMA ConcludedIs ==
  ASSUME Here, pc \in Rounds, work.failed = {}
  PROVE  LET c == Concluded
         IN  /\ c \in Shape /\ c.legs = copy.legs /\ c.residual = copy.residual /\ c.tp1 = copy.tp1
             /\ c.closed = copy.closed \/ (Partial(work.trigger) /\ c.closed = copy.closed + work.amount)
<1> DEFINE all == Cardinality(work.full) >= Cardinality(work.sent)
<1> DEFINE active == ~all
<1> DEFINE exit == IF Partial(work.trigger) THEN "partial" ELSE IF all THEN "filled" ELSE "submitted"
<1> DEFINE closed == IF Partial(work.trigger) THEN copy.closed + work.amount ELSE copy.closed
<1> DEFINE c == Concluded
<1>1. copy \in Shape /\ copy.closed \in Nat /\ work.amount \in Nat
  BY HereFacts, ShapeFields, RoundFacts
<1>2. \/ c = [copy EXCEPT !.active = TRUE, !.exit = "nothing"]
      \/ c = [copy EXCEPT !.active = active, !.exit = exit, !.closed = closed]
  BY DEF Concluded
<1>3. active \in BOOLEAN /\ exit \in {"partial", "filled", "submitted"} /\ closed \in Nat
      /\ (closed = copy.closed \/ (Partial(work.trigger) /\ closed = copy.closed + work.amount))
  BY <1>1
<1> HIDE DEF active, exit, closed, c
<1>4. CASE c = [copy EXCEPT !.active = TRUE, !.exit = "nothing"]
  <2>1. /\ c \in Shape /\ c.legs = copy.legs /\ c.residual = copy.residual /\ c.tp1 = copy.tp1
        /\ c.closed = copy.closed
    BY <1>1, <1>4 DEF Shape
  <2>. QED
    BY <2>1 DEF c
<1>5. CASE c = [copy EXCEPT !.active = active, !.exit = exit, !.closed = closed]
  <2>1. /\ c \in Shape /\ c.legs = copy.legs /\ c.residual = copy.residual /\ c.tp1 = copy.tp1
        /\ c.closed = closed
    BY <1>1, <1>3, <1>5 DEF Shape
  <2>. QED
    BY <1>3, <2>1 DEF c
<1>. QED
  BY <1>2, <1>4, <1>5

LEMMA ConcludeStep == Covering /\ Here /\ Conclude => There
<1> SUFFICES ASSUME Covering, Here, Conclude PROVE There
  OBVIOUS
<1> DEFINE t == work.trigger
<1> DEFINE c == Concluded
<1> DEFINE q == copy'
<1>1. /\ pc = "exit" /\ pc \in Rounds /\ work.todo = <<>> /\ q = Seen(c, t) /\ pc' = "persist"
      /\ UNCHANGED <<env, orders, journal, rec, work, faults, spent>>
  BY DEF Conclude, Goto, Rounds
<1>2. "persist" \in Places /\ "persist" \notin Rounds
  BY DEF Places, Rounds
<1>3. CASE work.failed # {}
  <2>1. c = Failure(copy)
    BY <1>3 DEF Concluded
  <2>2. c \in Shape /\ ~InPlay(c) /\ c.legs = copy.legs
    BY <2>1, FailureEnds, HereFacts
  <2> HIDE DEF c
  <2>3. q \in Shape /\ q.legs = c.legs /\ q.exit = c.exit /\ q.active = c.active
    BY <1>1, <2>2, SeenIs
  <2> HIDE DEF q
  <2>4. ~InPlay(q) /\ ~q.legs["short"].resting
    BY <2>2, <2>3, HereFacts DEF InPlay
  <2>5. Typed(orders, q, rec, journal, "persist", work)
    BY <1>2, <2>3, HereFacts DEF Typed
  <2>6. CoverInv(orders, q, rec, journal, "persist", work)
    BY <2>4, <2>5, HereFacts, ToPersist
  <2>. QED
    BY <1>1, <2>6 DEF There, q
<1>4. CASE work.failed = {}
  <2>1. /\ c \in Shape /\ c.legs = copy.legs /\ c.residual = copy.residual /\ c.tp1 = copy.tp1
        /\ c.closed = copy.closed \/ (Partial(t) /\ c.closed = copy.closed + work.amount)
    BY <1>1, <1>4, ConcludedIs
  <2>2. /\ LegsSound(orders, copy) /\ JournalSound(copy, journal, "exit", work)
        /\ AmountSound(copy, work) /\ Worst(orders) >= Ahead(copy)
        /\ OpenOf(copy, "short") \in Nat /\ work.amount \in Nat
    BY <1>1, <1>4, RoundFacts DEF Leg
  <2> HIDE DEF c
  <2>3. /\ q \in Shape /\ q.legs = copy.legs /\ q.residual = copy.residual /\ q.closed = c.closed
        /\ t # "tp1" => q.tp1 = copy.tp1
        /\ t = "tp1" => ~q.tp1
    BY <1>1, <2>1, SeenIs
  <2> HIDE DEF q
  <2>4. \A leg : OpenOf(q, leg) = OpenOf(copy, leg)
    BY <2>3 DEF OpenOf
  <2>5. q.tp1 \/ ~env.tiered => q.closed = 0
    BY <2>1, <2>2, <2>3 DEF LegsSound, Partial
  <2>6. OpenOf(copy, "short") <= Units - q.closed
    <3>1. CASE q.closed = copy.closed
      BY <2>2, <3>1 DEF LegsSound
    <3>2. CASE Partial(t) /\ q.closed = copy.closed + work.amount
      <4>1. work.amount <= Units - OpenOf(copy, "short") /\ copy.tp1
        BY <1>1, <2>2, <3>2, Going DEF AmountSound, ExitSequence
      <4>2. copy.closed = 0
        BY <2>2, <4>1 DEF LegsSound
      <4>. QED
        BY <2>2, <3>2, <4>1, <4>2, HereFacts
    <3>. QED
      BY <2>1, <2>3, <3>1, <3>2
  <2>7. LegsSound(orders, q)
    BY <2>2, <2>3, <2>4, <2>5, <2>6 DEF LegsSound
  <2>8. JournalSound(q, journal, "persist", work)
    <3>1. FirstTarget(copy, "exit", work) => FirstTarget(q, "persist", work)
      BY <2>3 DEF FirstTarget
    <3>. QED
      BY <2>2, <2>4, <3>1 DEF JournalSound
  <2>9. Ahead(q) = Ahead(copy)
    BY <2>4 DEF Ahead
  <2>10. Typed(orders, q, rec, journal, "persist", work) /\ ~q.legs["short"].resting
    BY <1>2, <2>3, HereFacts DEF Typed
  <2>11. CoverInv(orders, q, rec, journal, "persist", work)
    BY <1>4, <2>2, <2>7, <2>8, <2>9, <2>10, HereFacts, ToPersist
  <2>. QED
    BY <1>1, <2>11 DEF There, q
<1>. QED
  BY <1>3, <1>4

LEMMA PassHandlers == Covering /\ Here /\ Pass => There
<1>1. Covering /\ Here /\ (ResidualLook \/ ResidualLookFails) => There
  BY ResidualStep
<1>2. Covering /\ Here /\ (QueryOver \/ QueryPending \/ QueryFails \/ EscalateCancelFails) => There
  BY QueryOverStep, QueryPendingStep, QueryFailsStep
<1>3. /\ Covering /\ Here
      /\ EscalateCancels \/ LookSeesFill \/ LookSeesNoFill \/ Resends \/ ResendFails \/ Settle
      => There
  BY EscalateCancelsStep, LookStep, ResendsStep, ResendFailsStep, SettleStep
<1>4. /\ Covering /\ Here
      /\ ComparePositions \/ ComparePositionsFails \/ NoQuote \/ NoTrigger \/ FirstSight
      => There
  BY ComparePositionsStep, ComparePositionsFailsStep, NoTriggerStep
<1>5. Covering /\ Here /\ (TriggerFires \/ TriggerIsAnnounced) => There
  BY TriggerFiresStep, TriggerIsAnnouncedStep
<1>6. /\ Covering /\ Here
      /\ LegIsDeferred \/ LegHasNothingOpen \/ SendIsRefused \/ SendExit \/ SendFails \/ NoteSent
      => There
  BY LegIsDeferredStep, LegHasNothingOpenStep, SendIsRefusedStep, SendExitStep, NoteSentStep
<1>7. Covering /\ Here /\ (TakeOver \/ AwaitEnds \/ Conclude) => There
  BY TakeOverStep, AwaitEndsStep, ConcludeStep
<1>. QED
  BY <1>1, <1>2, <1>3, <1>4, <1>5, <1>6, <1>7 DEF Pass

-----------------------------------------------------------------------------
(* A handler ends, or dies. *)

LEMMA ToIdle ==
  ASSUME Here, NEW r \in Shape, ~r.legs["short"].resting, r.residual > 0 => ~InPlay(r),
         InPlay(r) => /\ LegsSound(orders, r) /\ JournalSound(r, journal, "idle", NoWork)
                      /\ Worst(orders) >= Ahead(r)
  PROVE  CoverInv(orders, r, r, journal, "idle", NoWork)
<1>1. /\ "idle" \in Places
      /\ "idle" \notin Opens \cup Leads \cup Rounds \cup Queries \cup Sending
      /\ "idle" \notin {"positions", "quote", "residual", "persist"}
  BY DEF Places, Opens, Leads, Rounds, Queries, Sending
<1>2. Typed(orders, r, r, journal, "idle", NoWork)
  BY <1>1, HereFacts, NoWorkShape DEF Typed
<1>3. Opening(r, journal, "idle", NoWork) /\ Leading(orders, r, "idle", NoWork)
  BY <1>1 DEF Opening, Leading
<1>4. Sound(orders, r, journal, "idle", NoWork)
  BY <1>1 DEF Sound, Playing
<1>5. Round(orders, r, "idle", NoWork) /\ Reconciling(orders, r, "idle", NoWork)
  BY <1>1 DEF Round, Reconciling
<1>6. Ending(r, r, "idle", NoWork)
  BY <1>1, NoWorkShape DEF Ending
<1>. QED
  BY <1>2, <1>3, <1>4, <1>5, <1>6, HereFacts DEF CoverInv

LEMMA PersistStep == Covering /\ Here /\ Persist => There
<1> SUFFICES ASSUME Covering, Here, Persist PROVE There
  OBVIOUS
<1>1. /\ pc = "persist" /\ rec' = copy /\ work' = NoWork /\ pc' = "idle"
      /\ UNCHANGED <<env, orders, journal, copy, faults, spent>>
  BY DEF Persist, Goto
<1>2. /\ "persist" \notin Rounds /\ "idle" \notin Rounds /\ "persist" \notin Sending
  BY DEF Rounds, Sending
<1>3. /\ copy.residual > 0 => ~InPlay(copy)
      /\ InPlay(copy) => work.failed = {}
  BY <1>1, HereFacts DEF Ending
<1>4. InPlay(copy) => /\ LegsSound(orders, copy) /\ JournalSound(copy, journal, "persist", work)
                      /\ Worst(orders) >= Ahead(copy)
  BY <1>1, <1>2, <1>3, HereFacts DEF Sound, Playing
<1>5. InPlay(copy) => JournalSound(copy, journal, "idle", NoWork)
  BY <1>2, <1>4, JournalSame
<1>6. CoverInv(orders, copy, copy, journal, "idle", NoWork)
  BY <1>3, <1>4, <1>5, HereFacts, ToIdle
<1>. QED
  BY <1>1, <1>6 DEF There

LEMMA NoRecordIs ==
  /\ NoRecord \in Shape /\ ~InPlay(NoRecord) /\ Fresh(NoRecord)
  /\ \A leg \in Leg : NoRecord.legs[leg].filled = 0
<1> DEFINE m == [leg \in Leg |-> NoLeg]
<1>1. /\ NoLeg \in LegShape /\ NoLeg.filled = 0 /\ NoLeg.status = "none" /\ NoLeg.qty = 0
      /\ NoLeg.order = 0 /\ ~NoLeg.resting
  BY DEF NoLeg, LegShape
<1>2. m \in [Leg -> LegShape] /\ \A leg \in Leg : m[leg] = NoLeg
  BY <1>1
<1>3. NoRecord.legs = m
  BY DEF NoRecord
<1> HIDE DEF m
<1>4. NoRecord \in Shape
  BY <1>2, <1>3 DEF NoRecord, Shape
<1>5. /\ NoRecord.exit = "none" /\ NoRecord.active = FALSE /\ NoRecord.closed = 0
      /\ NoRecord.residual = 0 /\ NoRecord.tp1 = TRUE
  BY DEF NoRecord
<1>. QED
  BY <1>1, <1>2, <1>3, <1>4, <1>5 DEF InPlay, Fresh

\* Only while it opens the position does the process die: nothing is recorded yet.
LEMMA CrashStep == Covering /\ Here /\ Crash => There
<1> SUFFICES ASSUME Covering, Here, Crash PROVE There
  OBVIOUS
<1>1. /\ copy' = rec /\ work' = NoWork /\ pc' = "idle"
      /\ UNCHANGED <<env, orders, journal, rec, faults>>
  BY DEF Crash, Goto
<1>2. rec = NoRecord
  BY DEF Crash, Covering
<1>3. CoverInv(orders, rec, rec, journal, "idle", NoWork)
  <2>1. rec \in Shape /\ ~InPlay(rec) /\ ~rec.legs["short"].resting
    BY <1>2, NoRecordIs, HereFacts
  <2>. QED
    BY <2>1, ToIdle
<1>. QED
  BY <1>1, <1>3 DEF There

\* The user does not flatten.
LEMMA NeverFlattens == Covering /\ Here => ~Flatten /\ ~BeginFlatten
<1> SUFFICES ASSUME Covering, Here, Flatten \/ BeginFlatten PROVE FALSE
  OBVIOUS
<1>1. ~BeginFlatten
  BY DEF BeginFlatten, Covering
<1>2. pc \in {"cancel", "flatten", "flattenLegs"}
  BY <1>1 DEF Flatten, FlattenCancels, FlattenResidual, FlattenLookFails, FlattenLeg, FlattenLegFails,
              FlattenEnds
<1>3. pc \in Places
  BY HereFacts DEF Typed
<1>. QED
  BY <1>2, <1>3 DEF Places, Opens, Leads, ExitSteps

-----------------------------------------------------------------------------
(* The theorem *)

LEMMA CoverFirst == Init => Inv
<1> SUFFICES ASSUME Init PROVE env \in Environment /\ CoverInv(orders, copy, rec, journal, pc, work)
  BY DEF Inv
<1>1. /\ env \in Environment /\ orders = <<>> /\ rec = NoRecord /\ copy = NoRecord /\ pc = "entry"
      /\ journal = [key \in Keys |-> Nothing]
      /\ work = [NoWork EXCEPT !.todo = ExecutionSequence]
  BY DEF Init, Keys
<1>2. Whole(orders) /\ DOMAIN orders = {}
  BY <1>1 DEF Whole
<1>3. Worst(orders) = 0
  BY <1>2, SumEmpty DEF Worst
<1>4. /\ work \in WorkShape /\ work.failed = {} /\ work.tries = 0
      /\ work.todo = <<"long", "short">>
  BY <1>1, NoWorkShape DEF WorkShape, Routes, ExecutionSequence
<1>5. /\ journal \in JournalShape
      /\ \A x \in Keys : journal[x].state = "none"
  BY <1>1 DEF JournalShape, Entry, Nothing
<1>6. pc \in Places /\ pc \in Opens /\ pc = "entry"
  BY <1>1 DEF Places, Opens, Leads
<1>7. Typed(orders, copy, rec, journal, pc, work)
  BY <1>1, <1>2, <1>4, <1>5, <1>6, NoRecordIs DEF Typed
<1>8. Opening(copy, journal, pc, work)
  <2>1. \A t \in Purpose : \A leg \in Leg : journal[<<leg, t>>].state = "none"
    BY <1>5 DEF Keys
  <2>2. "entry" \in Purpose /\ \A t \in Trigger : t \in Purpose
    BY DEF Purpose
  <2>3. Head(work.todo) \in Leg
    BY <1>4, Going DEF Leg
  <2>4. EntryNotes(journal, pc, work)
    BY <1>1, <1>4, <2>1, <2>2, <2>3 DEF EntryNotes, Leg
  <2>. QED
    BY <1>1, <1>4, <2>1, <2>2, <2>4, NoRecordIs DEF Opening, Leg
<1>9. Leading(orders, copy, pc, work)
  BY <1>1, <1>2, <1>4, Going DEF Leading
<1>10. ~rec.legs["short"].resting
  BY <1>1, NoRecordIs DEF Fresh, Leg
<1>11. CoverInv(orders, copy, rec, journal, pc, work)
  BY <1>3, <1>6, <1>7, <1>8, <1>9, <1>10, ToOpen
<1>. QED
  BY <1>1, <1>11

LEMMA CoverNext == Inv /\ [Next]_vars => Inv'
<1> SUFFICES ASSUME Inv, [Next]_vars, Covering' PROVE Inv'
  BY DEF Inv
<1>1. env' = env
  <2>1. CASE Next
    <3>1. CASE EntryNext
      BY <3>1 DEF EntryNext, EntryBlocked, RecheckBreaches, EntrySubmits, EntryFails, EntrySubmitFails,
                  EntryLegFilled, EntryLegPartlyFilled, EntryLegUnfilled, EntryCancels, EntryComplete, Unwinds,
                  NothingUnwound, UnwindEnds
    <3>2. CASE Pass
      BY <3>2 DEF Pass, ResidualLook, ResidualLookFails, QueryOver, QueryPending, QueryFails,
                  EscalateCancels, EscalateCancelFails, LookSeesFill, LookSeesNoFill, Resends,
                  ResendFails, Settle, ComparePositions, ComparePositionsFails, NoQuote, NoTrigger,
                  FirstSight, TriggerFires, TriggerIsAnnounced, LegIsDeferred, LegHasNothingOpen,
                  SendIsRefused, SendExit, SendFails, NoteSent, TakeOver, AwaitEnds, Conclude
    <3>3. CASE Flatten
      BY <3>3 DEF Flatten, FlattenCancels, FlattenResidual, FlattenLookFails, FlattenLeg,
                  FlattenLegFails, FlattenEnds
    <3>4. CASE Persist \/ BeginPass \/ BeginFlatten \/ Crash
      BY <3>4 DEF Persist, BeginPass, BeginFlatten, Crash
    <3>5. CASE Broker
      BY <3>5 DEF Broker, Fills, IsRejected, CancelTakesEffect, UserCloses
    <3>. QED
      BY <2>1, <3>1, <3>2, <3>3, <3>4, <3>5 DEF Next, Handler
  <2>2. CASE UNCHANGED vars
    BY <2>2 DEF vars
  <2>. QED
    BY <2>1, <2>2
<1>2. Covering
  BY <1>1 DEF Covering, Tame, TameExit, FlattensWhole, EntryIsRemembered
<1>3. Here
  BY <1>2 DEF Inv, Here
<1>4. CASE Broker
  BY <1>4, BrokerStep
<1>5. CASE Handler \/ BeginPass \/ BeginFlatten \/ Crash
  <2>1. There
    BY <1>2, <1>3, <1>5, EntryHandlers, PassHandlers, PersistStep, BeginPassStep, CrashStep,
       NeverFlattens DEF Handler
  <2>. QED
    BY <1>3, <2>1, NextInv DEF Here, There
<1>6. CASE UNCHANGED vars
  <2>1. There
    <3>1. /\ env' = env /\ orders' = orders /\ copy' = copy /\ rec' = rec /\ journal' = journal
          /\ pc' = pc /\ work' = work
      BY <1>6 DEF vars
    <3>. QED
      BY <1>3, <3>1 DEF Here, There
  <2>. QED
    BY <1>3, <2>1, NextInv DEF Here, There
<1>. QED
  BY <1>4, <1>5, <1>6 DEF Next

(* What was sold short is never held without what was bought against it, in
   every reachable state, as NeverNaked states it: the short leg is opened
   after the long one (_strategy_execution_sequence), covered before it
   (_exit_ordered_entries), and what the record says is open of the two is
   right even when covers fail, are taken over or are walked. *)
THEOREM ShortIsCovered == Spec => []NeverNaked
<1>1. Inv => NeverNaked
  BY CoverIsNeverNaked DEF NeverNaked, Covering
<1>. QED
  BY <1>1, CoverFirst, CoverNext, PTL DEF Spec
=============================================================================
