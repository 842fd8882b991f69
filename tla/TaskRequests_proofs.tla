------------------------ MODULE TaskRequests_proofs ------------------------
(***************************************************************************)
(* What the requests do to the tasks of a note, for any note and any       *)
(* clients: only tasks of the texts that were asked for change, a task     *)
(* that goes was shown cancelled and is cancelled, a batch is applied      *)
(* whole or not at all.                                                    *)
(*                                                                         *)
(* The invariant Inv says that lines have numbers of their own, that the   *)
(* text in a row is the text of its line in the version the row carries,   *)
(* and that a command fits the rows it was given for.  Keeps says where    *)
(* the lines that stay are after a request was served.                     *)
(***************************************************************************)
EXTENDS TaskRequests, WellFoundedInduction, TLAPS

-----------------------------------------------------------------------------
(* Induction, over a set of numbers instead of a predicate.                *)

LEMMA WellOrdered ==
  ASSUME NEW T \in SUBSET Nat, T # {}
  PROVE  \E x \in T : \A y \in T : x <= y
  <1> DEFINE R == OpToRel(<, Nat)
  <1>1. IsWellFoundedOn(R, Nat)
    BY NatLessThanWellFounded
  <1>2. PICK x \in T : \A y \in T : ~ (<<y, x>> \in R)
    <2> HIDE DEF R
    <2>1. QED
      BY <1>1, WFMin
  <1>3. \A y \in T : ~ (y < x)
    BY <1>2 DEF OpToRel
  <1>4. QED
    BY <1>3

LEMMA NumbersFromZero ==
  ASSUME NEW S \in SUBSET Nat, 0 \in S, \A n \in S : n + 1 \in S
  PROVE  S = Nat
  <1> SUFFICES ASSUME Nat \ S # {} PROVE FALSE
    OBVIOUS
  <1>1. PICK x \in Nat \ S : \A y \in Nat \ S : x <= y
    BY WellOrdered
  <1>2. x \in Nat /\ x - 1 \in Nat /\ ~ (x <= x - 1) /\ x - 1 + 1 = x
    OBVIOUS
  <1>3. x - 1 \in S
    BY <1>1, <1>2
  <1>4. QED
    BY <1>2, <1>3

-----------------------------------------------------------------------------
(* Pick: the elements at some places of a sequence, in their order.        *)

\* at says where in s each element of t comes from.
Picks(t, s, places, at) ==
  /\ at \in [DOMAIN t -> places]
  /\ \A k \in DOMAIN t : t[k] = s[at[k]]
  /\ \A k, l \in DOMAIN t : k < l => at[k] < at[l]
  /\ \A i \in places : \E k \in DOMAIN t : at[k] = i

PicksBelow(t, T, s, places, n) ==
  t \in Seq(T) /\ \E at : Picks(t, s, {i \in places : i <= n}, at)

\* One step of the recursion.
Longer(f, s, places, i) ==
  IF i = 0 THEN <<>>
  ELSE IF i \in places THEN Append(f[i - 1], s[i]) ELSE f[i - 1]

LEMMA PickPrefixes ==
  ASSUME NEW T, NEW s \in Seq(T), NEW places
  PROVE  \E f : /\ f = [i \in 0..Len(s) |-> Longer(f, s, places, i)]
                /\ Pick(s, places) = f[Len(s)]
  <1> DEFINE Good == {n \in Nat : \E f : f = [i \in 0..n |-> Longer(f, s, places, i)]}
  <1>1. 0 \in Good
    <2>1. PICK f : f = [i \in 0..0 |-> <<>>]
      OBVIOUS
    <2>2. \A i \in 0..0 : f[i] = Longer(f, s, places, i)
      BY <2>1 DEF Longer
    <2>3. f = [i \in 0..0 |-> Longer(f, s, places, i)]
      BY <2>1, <2>2
    <2>4. QED
      BY <2>3
  <1>2. ASSUME NEW n \in Good PROVE n + 1 \in Good
    <2>1. PICK f : f = [i \in 0..n |-> Longer(f, s, places, i)]
      BY <1>2
    <2>2. PICK g : g = [i \in 0..(n + 1) |-> IF i = n + 1 THEN Longer(f, s, places, n + 1) ELSE f[i]]
      OBVIOUS
    <2>3. ASSUME NEW i \in 0..(n + 1) PROVE g[i] = Longer(g, s, places, i)
      <3>1. CASE i = n + 1
        <4>1. g[i - 1] = f[i - 1] /\ i - 1 \in 0..n
          BY <2>2, <3>1
        <4>2. QED
          BY <2>2, <3>1, <4>1 DEF Longer
      <3>2. CASE i \in 0..n
        <4>1. i # 0 => g[i - 1] = f[i - 1]
          BY <2>2, <3>2
        <4>2. g[i] = f[i] /\ f[i] = Longer(f, s, places, i)
          BY <2>1, <2>2, <3>2
        <4>3. QED
          BY <4>1, <4>2 DEF Longer
      <3>3. QED
        BY <3>1, <3>2
    <2>4. g = [i \in 0..(n + 1) |-> Longer(g, s, places, i)]
      BY <2>2, <2>3
    <2>5. QED
      BY <2>4
  <1>3. Len(s) \in Good
    <2>1. Good \in SUBSET Nat
      OBVIOUS
    <2>2. Good = Nat
      <3> HIDE DEF Good
      <3>1. QED
        BY <1>1, <1>2, <2>1, NumbersFromZero
    <2>3. QED
      BY <2>2
  <1> DEFINE upTo == CHOOSE f : f = [i \in 0..Len(s) |-> IF i = 0 THEN <<>>
                       ELSE IF i \in places THEN Append(f[i - 1], s[i]) ELSE f[i - 1]]
  <1>4. \E f : f = [i \in 0..Len(s) |-> IF i = 0 THEN <<>>
                       ELSE IF i \in places THEN Append(f[i - 1], s[i]) ELSE f[i - 1]]
    BY <1>3 DEF Longer
  <1>5. upTo = [i \in 0..Len(s) |-> IF i = 0 THEN <<>>
                       ELSE IF i \in places THEN Append(upTo[i - 1], s[i]) ELSE upTo[i - 1]]
    BY <1>4
  <1>6. Pick(s, places) = upTo[Len(s)]
    BY Zenon DEF Pick
  <1>7. upTo = [i \in 0..Len(s) |-> Longer(upTo, s, places, i)]
    BY <1>5 DEF Longer
  <1>8. QED
    BY <1>6, <1>7

LEMMA PickIs ==
  ASSUME NEW T, NEW s \in Seq(T), NEW places \in SUBSET (DOMAIN s)
  PROVE  /\ Pick(s, places) \in Seq(T)
         /\ \E at : Picks(Pick(s, places), s, places, at)
  <1>1. PICK f : /\ f = [i \in 0..Len(s) |-> Longer(f, s, places, i)]
                 /\ Pick(s, places) = f[Len(s)]
    BY PickPrefixes
  <1> DEFINE Below(n) == {i \in places : i <= n}
             Good == {n \in Nat : n <= Len(s) => PicksBelow(f[n], T, s, places, n)}
  <1>2. 0 \in Good
    <2>1. f[0] = <<>> /\ Below(0) = {}
      BY <1>1 DEF Longer
    <2>2. PICK t : t = f[0]
      OBVIOUS
    <2>3. t \in Seq(T) /\ DOMAIN t = {}
      BY <2>1, <2>2
    <2>4. Picks(t, s, {}, [k \in DOMAIN t |-> 0])
      BY <2>3 DEF Picks
    <2>5. PicksBelow(f[0], T, s, places, 0)
      BY <2>1, <2>2, <2>3, <2>4 DEF PicksBelow
    <2>6. QED
      BY <2>5
  <1>3. ASSUME NEW n \in Good PROVE n + 1 \in Good
    <2> SUFFICES ASSUME n + 1 <= Len(s)
                 PROVE  PicksBelow(f[n + 1], T, s, places, n + 1)
      OBVIOUS
    <2>1. PicksBelow(f[n], T, s, places, n)
      BY <1>3
    <2>2. PICK t : t = f[n]
      OBVIOUS
    <2>3. PICK at : Picks(t, s, Below(n), at)
      BY <2>1, <2>2 DEF PicksBelow
    <2>4. t \in Seq(T) /\ f[n + 1] = Longer(f, s, places, n + 1)
      BY <1>1, <2>1, <2>2 DEF PicksBelow
    <2>5. CASE n + 1 \notin places
      <3>1. f[n + 1] = t /\ Below(n + 1) = Below(n)
        BY <2>2, <2>4, <2>5 DEF Longer
      <3>2. QED
        BY <2>3, <2>4, <3>1 DEF PicksBelow
    <2>6. CASE n + 1 \in places
      <3>1. PICK u : u = Append(t, s[n + 1])
        OBVIOUS
      <3>2. f[n + 1] = u
        BY <2>2, <2>4, <2>6, <3>1 DEF Longer
      <3>3. /\ u \in Seq(T) /\ DOMAIN u = 1..(Len(t) + 1) /\ DOMAIN t = 1..Len(t) /\ Len(t) \in Nat
            /\ u[Len(t) + 1] = s[n + 1] /\ \A k \in 1..Len(t) : u[k] = t[k]
        BY <2>4, <3>1
      <3>4. PICK to : to = [k \in 1..(Len(t) + 1) |-> IF k = Len(t) + 1 THEN n + 1 ELSE at[k]]
        OBVIOUS
      <3>5. at \in [1..Len(t) -> Below(n)] /\ \A k \in 1..Len(t) : at[k] \in places /\ at[k] <= n
        BY <2>3, <3>3 DEF Picks
      <3>6. to \in [DOMAIN u -> Below(n + 1)]
        BY <2>6, <3>3, <3>4, <3>5
      <3>7. \A k \in DOMAIN u : u[k] = s[to[k]]
        BY <2>3, <3>3, <3>4 DEF Picks
      <3>8. \A k, l \in DOMAIN u : k < l => to[k] < to[l]
        <4>1. SUFFICES ASSUME NEW k \in 1..(Len(t) + 1), NEW l \in 1..(Len(t) + 1), k < l
                       PROVE  to[k] < to[l]
          BY <3>3
        <4>2. k \in 1..Len(t) /\ to[k] = at[k] /\ at[k] \in Nat
          BY <3>3, <3>4, <3>5, <4>1
        <4>3. CASE l = Len(t) + 1
          BY <3>4, <3>5, <4>2, <4>3
        <4>4. CASE l \in 1..Len(t)
          <5>1. to[l] = at[l]
            BY <3>3, <3>4, <4>4
          <5>2. k \in DOMAIN t /\ l \in DOMAIN t
            BY <3>3, <4>2, <4>4
          <5>3. at[k] < at[l]
            BY <2>3, <4>1, <5>2 DEF Picks
          <5>4. QED
            BY <4>2, <5>1, <5>3
        <4>5. QED
          BY <3>3, <4>3, <4>4
      <3>9. \A i \in Below(n + 1) : \E k \in DOMAIN u : to[k] = i
        <4>1. SUFFICES ASSUME NEW i \in Below(n + 1) PROVE \E k \in DOMAIN u : to[k] = i
          OBVIOUS
        <4>2. CASE i = n + 1
          BY <3>3, <3>4, <4>2
        <4>3. CASE i # n + 1
          <5>1. i \in Below(n)
            BY <4>3
          <5>2. PICK k \in DOMAIN t : at[k] = i
            BY <2>3, <5>1 DEF Picks
          <5>3. QED
            BY <3>3, <3>4, <5>2
        <4>4. QED
          BY <4>2, <4>3
      <3>10. Picks(u, s, Below(n + 1), to)
        BY <3>6, <3>7, <3>8, <3>9 DEF Picks
      <3>11. QED
        BY <3>2, <3>3, <3>10 DEF PicksBelow
    <2>7. QED
      BY <2>5, <2>6
  <1>4. Good = Nat
    <2>1. Good \in SUBSET Nat
      OBVIOUS
    <2> HIDE DEF Good
    <2>2. QED
      BY <1>2, <1>3, <2>1, NumbersFromZero
  <1>5. Len(s) \in Nat /\ Below(Len(s)) = places
    OBVIOUS
  <1>6. QED
    BY <1>1, <1>4, <1>5 DEF PicksBelow

-----------------------------------------------------------------------------
(* The edits of a line keep it a line, with its number.                    *)

Ops ==
  [name : {"toggle"}, new : BOOLEAN] \cup [name : {"due"}, new : Dates]
    \cup [name : {"recurrence"}, new : Rules \cup {NoRule}] \cup [name : {"priority"}, new : Priorities]
    \cup [name : {"triage"}, new : Triages] \cup [name : {"add"}, new : Texts]
    \cup [name : {"hide", "cancel", "purge"}, new : {TRUE}]

Metas == Seq(MarkSet)

LEMMA AMark ==
  ASSUME NEW f, NEW v, (f = "rule" /\ v \in Rule) \/ (f \in Marks \ {"rule"} /\ v \in Int)
  PROVE  Mark(f, v) \in MarkSet
  BY DEF Mark, MarkSet

LEMMA NoRuleType == NoRule \in Rule
  BY DEF NoRule, Rule

LEMMA ClearType ==
  ASSUME NEW meta \in Metas, NEW f
  PROVE  Clear(meta, f) \in Metas
  <1>1. {i \in DOMAIN meta : meta[i].f # f} \in SUBSET DOMAIN meta
    OBVIOUS
  <1>2. Pick(meta, {i \in DOMAIN meta : meta[i].f # f}) \in Metas
    BY <1>1, PickIs DEF Metas
  <1>3. QED
    BY <1>2 DEF Clear

LEMMA FirstPlace ==
  ASSUME NEW l \in Line, NEW f, Places(l, f) # {}
  PROVE  \E i \in Places(l, f) : \A j \in Places(l, f) : i <= j
  <1>1. Places(l, f) \in SUBSET Nat
    BY DEF Places, Line
  <1>2. QED
    BY <1>1, WellOrdered

LEMMA ValueOf ==
  ASSUME NEW l \in Line, NEW f, NEW none
  PROVE  \/ Places(l, f) = {} /\ Value(l, f, none) = none
         \/ \E i \in Places(l, f) : Value(l, f, none) = l.meta[i].v
  <1>1. CASE Places(l, f) # {}
    <2>1. PICK i : /\ i = CHOOSE k \in Places(l, f) : \A j \in Places(l, f) : k <= j
                   /\ i \in Places(l, f)
      BY <1>1, FirstPlace
    <2>2. Value(l, f, none) = l.meta[i].v
      BY <1>1, <2>1 DEF Value
    <2>3. QED
      BY <2>1, <2>2
  <1>2. QED
    BY <1>1 DEF Value

LEMMA ValueType ==
  ASSUME NEW l \in Line, NEW f \in Marks, NEW none
  PROVE  /\ f # "rule" /\ none \in Int => Value(l, f, none) \in Int
         /\ f = "rule" /\ none \in Rule => Value(l, f, none) \in Rule
  <1>1. ASSUME NEW i \in Places(l, f)
        PROVE  IF f = "rule" THEN l.meta[i].v \in Rule ELSE l.meta[i].v \in Int
    BY DEF Places, Line, MarkSet
  <1>2. QED
    BY <1>1, ValueOf

LEMMA DueType == ASSUME NEW l \in Line PROVE Due(l) \in Int /\ BaseDate(l) \in Int
  <1>1. NoDate \in Int /\ "due" \in Marks /\ "scheduled" \in Marks
    BY DEF NoDate, Marks
  <1>2. QED
    BY <1>1, ValueType DEF Due, BaseDate

LEMMA RecurrenceType == ASSUME NEW l \in Line PROVE Recurrence(l) \in Rule \cup {Unread}
  BY NoRuleType, ValueType DEF Recurrence, Marks

LEMMA ShiftedType ==
  ASSUME NEW meta \in Metas, NEW days \in Int
  PROVE  Shifted(meta, days) \in Metas
  <1>1. ASSUME NEW i \in DOMAIN meta
        PROVE  (IF meta[i].f \in {"due", "scheduled"} THEN [meta[i] EXCEPT !.v = @ + days] ELSE meta[i])
                 \in MarkSet
    BY DEF Metas, MarkSet
  <1>2. QED
    BY <1>1 DEF Shifted, Metas

LEMMA NextOccurrenceLine ==
  ASSUME NEW l \in Line, HasNext(l), NEW id \in Nat
  PROVE  /\ NextOccurrence(l, id) \in Line /\ NextOccurrence(l, id).id = id
         /\ NextOccurrence(l, id).box = " "
  <1>1. Recurrence(l) \in Rule /\ BaseDate(l) \in Int
    BY RecurrenceType, DueType DEF HasNext
  <1>2. NextDate(l) - BaseDate(l) \in Int
    BY <1>1, TodayAssumption DEF NextDate, Rule
  <1>3. l.meta \in Metas
    BY DEF Line, Metas
  <1>4. Clear(Shifted(l.meta, NextDate(l) - BaseDate(l)), "done") \in Metas
    BY <1>2, <1>3, ShiftedType, ClearType
  <1>5. QED
    BY <1>4 DEF NextOccurrence, Line, Metas, Boxes

LEMMA CompletedLine ==
  ASSUME NEW l \in Line
  PROVE  Completed(l) \in Line /\ Completed(l).id = l.id /\ Completed(l).box = "x"
  <1>1. Mark("done", Today) \in MarkSet
    BY AMark, TodayAssumption DEF Marks
  <1>2. l.meta \in Seq(MarkSet) /\ Append(l.meta, Mark("done", Today)) \in Seq(MarkSet)
    BY <1>1 DEF Line
  <1>3. QED
    BY <1>2 DEF Completed, Line, Boxes

LEMMA ReopenedLine ==
  ASSUME NEW l \in Line
  PROVE  Reopened(l) \in Line /\ Reopened(l).id = l.id
  <1>1. Clear(l.meta, "done") \in Metas
    BY ClearType DEF Line, Metas
  <1>2. QED
    BY <1>1 DEF Reopened, Line, Metas, Boxes

LEMMA CancelledLine ==
  ASSUME NEW l \in Line
  PROVE  Cancelled(l) \in Line /\ Cancelled(l).id = l.id /\ Cancelled(l).box = "-"
  <1>1. Mark("cancelled", Today) \in MarkSet
    BY AMark, TodayAssumption DEF Marks
  <1>2. l.meta \in Seq(MarkSet) /\ Append(l.meta, Mark("cancelled", Today)) \in Seq(MarkSet)
    BY <1>1 DEF Line
  <1>3. QED
    BY <1>2 DEF Cancelled, Line, Boxes

LEMMA SetDueLine ==
  ASSUME NEW l \in Line, NEW due \in Int
  PROVE  SetDue(l, due) \in Line /\ SetDue(l, due).id = l.id
  <1>1. l.meta \in Metas /\ Mark("due", due) \in MarkSet
    BY AMark DEF Line, Metas, Marks
  <1>2. Clear(l.meta, "due") \in Metas
    BY <1>1, ClearType
  <1>3. [i \in DOMAIN l.meta |-> IF l.meta[i].f = "due" THEN Mark("due", due) ELSE l.meta[i]] \in Metas
    BY <1>1 DEF Metas
  <1>4. Append(l.meta, Mark("due", due)) \in Metas
    BY <1>1 DEF Metas
  <1>5. QED
    BY <1>2, <1>3, <1>4 DEF SetDue, Line, Metas

LEMMA SetPriorityLine ==
  ASSUME NEW l \in Line, NEW priority \in Int
  PROVE  SetPriority(l, priority) \in Line /\ SetPriority(l, priority).id = l.id
  <1>1. l.meta \in Metas /\ Mark("priority", priority) \in MarkSet
    BY AMark DEF Line, Metas, Marks
  <1>2. PICK rest : rest = Clear(l.meta, "priority")
    OBVIOUS
  <1>3. PICK head : head = IF rest # <<>> /\ rest[1].f = "tag" THEN 1 ELSE 0
    OBVIOUS
  <1>4. PICK new : new = IF priority = Normal THEN <<>> ELSE <<Mark("priority", priority)>>
    OBVIOUS
  <1>5. rest \in Seq(MarkSet) /\ new \in Seq(MarkSet) /\ head \in 0..1 /\ (head = 1 => Len(rest) >= 1)
    <2>1. rest \in Seq(MarkSet)
      BY <1>1, <1>2, ClearType DEF Metas
    <2>2. new \in Seq(MarkSet)
      BY <1>1, <1>4
    <2>3. rest # <<>> => Len(rest) >= 1
      BY <2>1
    <2>4. QED
      BY <1>3, <2>1, <2>2, <2>3
  <1>6. SubSeq(rest, 1, head) \in Seq(MarkSet)
    BY <1>5
  <1>7. SubSeq(rest, head + 1, Len(rest)) \in Seq(MarkSet)
    BY <1>5
  <1>8. SubSeq(rest, 1, head) \o new \o SubSeq(rest, head + 1, Len(rest)) \in Seq(MarkSet)
    BY <1>5, <1>6, <1>7
  <1>9. SetPriority(l, priority) =
          [l EXCEPT !.meta = SubSeq(rest, 1, head) \o new \o SubSeq(rest, head + 1, Len(rest))]
    BY <1>2, <1>3, <1>4 DEF SetPriority
  <1>10. QED
    BY <1>8, <1>9 DEF Line

LEMMA SetRecurrenceLine ==
  ASSUME NEW l \in Line, NEW rule \in Rule
  PROVE  SetRecurrence(l, rule) \in Line /\ SetRecurrence(l, rule).id = l.id
  <1>1. PICK stays : stays = {i \in DOMAIN l.meta :
                                i \notin Places(l, "rule")
                                  /\ ~(i - 1 \in Places(l, "rule") /\ l.meta[i].f = "tag")}
    OBVIOUS
  <1>2. PICK new : new = IF rule = NoRule THEN <<>> ELSE <<Mark("rule", rule)>>
    OBVIOUS
  <1>3. PICK at : at = CASE Places(l, "rule") # {} -> CHOOSE i \in Places(l, "rule") : TRUE
                         [] Places(l, "due") # {} -> CHOOSE i \in Places(l, "due") : TRUE
                         [] OTHER -> Len(l.meta) + 1
    OBVIOUS
  <1>4. SetRecurrence(l, rule) =
          [l EXCEPT !.meta = Pick(l.meta, {i \in stays : i < at}) \o new \o Pick(l.meta, {i \in stays : i >= at})]
    BY <1>1, <1>2, <1>3 DEF SetRecurrence
  <1>5. l.meta \in Seq(MarkSet) /\ {i \in stays : i < at} \in SUBSET DOMAIN l.meta
          /\ {i \in stays : i >= at} \in SUBSET DOMAIN l.meta
    BY <1>1 DEF Line
  <1>6. Pick(l.meta, {i \in stays : i < at}) \in Seq(MarkSet)
          /\ Pick(l.meta, {i \in stays : i >= at}) \in Seq(MarkSet)
    BY <1>5, PickIs
  <1>7. new \in Seq(MarkSet)
    BY <1>2, AMark
  <1>8. Pick(l.meta, {i \in stays : i < at}) \o new \o Pick(l.meta, {i \in stays : i >= at}) \in Seq(MarkSet)
    BY <1>6, <1>7
  <1>9. QED
    BY <1>4, <1>8 DEF Line

LEMMA TriagedLine ==
  ASSUME NEW l \in Line, NEW action \in Triages
  PROVE  Triaged(l, action) \in Line /\ Triaged(l, action).id = l.id
  <1>1. action.due \in Int /\ action.name \in {"backlog", "reference", "cancel", "due"}
    BY RequestsAssumption DEF Triages, NoDate
  <1>2. Mark("tag", 0) \in MarkSet /\ Mark("due", action.due) \in MarkSet
    BY <1>1, AMark DEF Marks
  <1>3. Append(l.meta, Mark("tag", 0)) \in Seq(MarkSet) /\ Append(l.meta, Mark("due", action.due)) \in Seq(MarkSet)
    BY <1>2 DEF Line
  <1>4. CASE action.name = "backlog"
    BY <1>3, <1>4 DEF Triaged, Line
  <1>5. CASE action.name = "due"
    BY <1>3, <1>5 DEF Triaged, Line
  <1>6. CASE action.name = "reference"
    BY <1>6 DEF Triaged, Line, Boxes
  <1>7. CASE action.name = "cancel"
    BY <1>7, CancelledLine DEF Triaged
  <1>8. QED
    BY <1>1, <1>4, <1>5, <1>6, <1>7

Rewrites == {"toggle", "due", "recurrence", "priority", "cancel", "triage"}

LEMMA RewrittenLine ==
  ASSUME NEW op \in Ops, op.name \in Rewrites, NEW l \in Line
  PROVE  Rewritten(l, op) \in Line /\ Rewritten(l, op).id = l.id
  <1>1. CASE op.name = "toggle"
    BY <1>1, CompletedLine, ReopenedLine DEF Rewritten
  <1>2. CASE op.name = "due"
    <2>1. op.new \in Int
      BY <1>2, RequestsAssumption DEF Ops
    <2>2. QED
      BY <1>2, <2>1, SetDueLine DEF Rewritten
  <1>3. CASE op.name = "recurrence"
    <2>1. op.new \in Rule
      BY <1>3, RequestsAssumption, NoRuleType DEF Ops
    <2>2. QED
      BY <1>3, <2>1, SetRecurrenceLine DEF Rewritten
  <1>4. CASE op.name = "priority"
    <2>1. op.new \in Int
      BY <1>4, RequestsAssumption DEF Ops
    <2>2. QED
      BY <1>4, <2>1, SetPriorityLine DEF Rewritten
  <1>5. CASE op.name = "cancel"
    BY <1>5, CancelledLine DEF Rewritten
  <1>6. CASE op.name = "triage"
    <2>1. op.new \in Triages
      BY <1>6 DEF Ops
    <2>2. QED
      BY <1>6, <2>1, TriagedLine DEF Rewritten
  <1>7. QED
    BY <1>1, <1>2, <1>3, <1>4, <1>5, <1>6 DEF Rewrites

-----------------------------------------------------------------------------
(* What a request does to the lines of the note.                           *)

\* Lines have numbers of their own, below nextId.
Numbered(n) ==
  /\ \A i \in DOMAIN n.lines : n.lines[i].id \in 1..(nextId - 1)
  /\ \A i, j \in DOMAIN n.lines : n.lines[i].id = n.lines[j].id => i = j

\* to says where the lines that stay are in the new note, in their order; those
\* in places may be rewritten, and one line may be new.
Keeps(old, new, places, gone, adds, to) ==
  LET stay == DOMAIN old \ gone
  IN  /\ to \in [stay -> DOMAIN new]
      /\ \A i, j \in stay : i < j => to[i] < to[j]
      /\ \A i \in stay : new[to[i]].id = old[i].id /\ (i \notin places => new[to[i]] = old[i])
      /\ \A k \in DOMAIN new : (\A i \in stay : to[i] # k) =>
           /\ adds /\ new[k].id = nextId /\ Status(new[k]) = "open"
           /\ \A l \in DOMAIN new : (\A i \in stay : to[i] # l) => k = l

Adds(n, op, rows) == op.name = "add" \/ Recurs(n, op, rows)

Gone(op, rows) == IF op.name = "purge" THEN {r.at : r \in rows} ELSE {}

\* t is s with e put at this place.
Inserted(t, T, s, at, e) ==
  /\ t \in Seq(T) /\ Len(t) = Len(s) + 1 /\ t[at] = e
  /\ \A k \in 1..Len(s) : t[IF k < at THEN k ELSE k + 1] = s[k]

LEMMA InsertAtIs ==
  ASSUME NEW T, NEW s \in Seq(T), NEW e \in T, NEW at \in 1..Len(s)
  PROVE  Inserted(InsertAt(s, at, e), T, s, at, e)
  <1>1. PICK a, b : a = SubSeq(s, 1, at - 1) /\ b = SubSeq(s, at, Len(s))
    OBVIOUS
  <1>2. /\ a \in Seq(T) /\ Len(a) = at - 1 /\ \A k \in 1..(at - 1) : a[k] = s[k]
        /\ b \in Seq(T) /\ Len(b) = Len(s) - at + 1 /\ \A k \in 1..(Len(s) - at + 1) : b[k] = s[at + k - 1]
    BY <1>1
  <1>3. PICK t : t = a \o <<e>> \o b
    OBVIOUS
  <1>4. InsertAt(s, at, e) = t
    BY <1>1, <1>3 DEF InsertAt
  <1>5. PICK d : d = a \o <<e>>
    OBVIOUS
  <1>6. d \in Seq(T) /\ Len(d) = at /\ d[at] = e /\ \A k \in 1..(at - 1) : d[k] = s[k]
    BY <1>2, <1>5
  <1>7. t = d \o b
    BY <1>3, <1>5
  <1>8. t \in Seq(T) /\ Len(t) = Len(s) + 1 /\ t[at] = e
    <2>1. t \in Seq(T)
      BY <1>2, <1>6, <1>7
    <2>2. Len(t) = Len(s) + 1
      BY <1>2, <1>6, <1>7
    <2>3. t[at] = d[at]
      BY <1>2, <1>6, <1>7
    <2>4. QED
      BY <1>6, <2>1, <2>2, <2>3
  <1>9. ASSUME NEW k \in 1..Len(s) PROVE t[IF k < at THEN k ELSE k + 1] = s[k]
    <2>1. CASE k < at
      BY <1>2, <1>6, <1>7, <2>1
    <2>2. CASE ~(k < at)
      <3>1. t[k + 1] = b[k + 1 - at]
        BY <1>2, <1>6, <1>7, <2>2
      <3>2. b[k + 1 - at] = s[at + (k + 1 - at) - 1]
        BY <1>2, <2>2
      <3>3. QED
        BY <2>2, <3>1, <3>2
    <2>3. QED
      BY <2>1, <2>2
  <1>10. QED
    BY <1>4, <1>8, <1>9 DEF Inserted

LEMMA KeepsAll ==
  ASSUME NEW n \in Note, NEW places, NEW adds, NEW new \in Seq(Line), DOMAIN new = DOMAIN n.lines,
         \A i \in DOMAIN new : new[i].id = n.lines[i].id /\ (i \notin places => new[i] = n.lines[i])
  PROVE  \E to : Keeps(n.lines, new, places, {}, adds, to)
  <1>1. Keeps(n.lines, new, places, {}, adds, [i \in DOMAIN new |-> i])
    BY DEF Keeps
  <1>2. QED
    BY <1>1

\* What is written, by the kind of the request.
WritesLines(n, op, rows, new) ==
  LET places == {r.at : r \in rows}
  IN  \/ op.name = "purge" /\ new = Without(n, places)
      \/ op.name = "add" /\ new = Append(n.lines, NewLine(op.new))
      \/ Recurs(n, op, rows) /\ new = Recurred(n, op, CHOOSE i \in places : TRUE)
      \/ /\ op.name \notin {"hide", "purge", "add"} /\ ~Recurs(n, op, rows)
         /\ new = [i \in DOMAIN n.lines |-> IF i \in places THEN Rewritten(n.lines[i], op) ELSE n.lines[i]]

LEMMA WrittenIs ==
  ASSUME NEW n, NEW op, NEW rows
  PROVE  /\ op.name = "hide" => Written(n, op, rows) = [n EXCEPT !.hidden = TRUE]
         /\ \A new : WritesLines(n, op, rows, new) => Written(n, op, rows) = [n EXCEPT !.lines = new]
  <1>1. PICK places : places = {r.at : r \in rows}
    OBVIOUS
  <1>2. PICK purge : purge = Without(n, places)
    OBVIOUS
  <1>3. PICK add : add = Append(n.lines, NewLine(op.new))
    OBVIOUS
  <1>4. PICK recurs : recurs = Recurred(n, op, CHOOSE i \in places : TRUE)
    OBVIOUS
  <1>5. PICK plain : plain = [i \in DOMAIN n.lines |-> IF i \in places THEN Rewritten(n.lines[i], op) ELSE n.lines[i]]
    OBVIOUS
  <1>6. Written(n, op, rows) = CASE op.name = "hide" -> [n EXCEPT !.hidden = TRUE]
                                 [] op.name = "purge" -> [n EXCEPT !.lines = purge]
                                 [] op.name = "add" -> [n EXCEPT !.lines = add]
                                 [] Recurs(n, op, rows) -> [n EXCEPT !.lines = recurs]
                                 [] OTHER -> [n EXCEPT !.lines = plain]
    BY <1>1, <1>2, <1>3, <1>4, <1>5, Zenon DEF Written
  <1>7. Recurs(n, op, rows) => op.name = "toggle"
    BY DEF Recurs
  <1>8. ASSUME NEW new, WritesLines(n, op, rows, new) PROVE Written(n, op, rows) = [n EXCEPT !.lines = new]
    <2>1. \/ op.name = "purge" /\ new = purge
          \/ op.name = "add" /\ new = add
          \/ Recurs(n, op, rows) /\ new = recurs
          \/ op.name \notin {"hide", "purge", "add"} /\ ~Recurs(n, op, rows) /\ new = plain
      BY <1>1, <1>2, <1>3, <1>4, <1>5, <1>8, Zenon DEF WritesLines
    <2>2. QED
      BY <1>6, <1>7, <2>1
  <1>9. QED
    BY <1>6, <1>7, <1>8
LEMMA NewLineIs ==
  ASSUME NEW text \in Texts, nextId \in Nat
  PROVE  NewLine(text) \in Line /\ NewLine(text).id = nextId /\ Status(NewLine(text)) = "open"
  <1>1. <<>> \in Seq(MarkSet)
    OBVIOUS
  <1>2. QED
    BY <1>1 DEF NewLine, Line, Boxes, Status

LEMMA WrittenKeeps ==
  ASSUME NEW n \in Note, Numbered(n), nextId \in Nat, NEW op \in Ops, NEW rows,
         \A r \in rows : r.at \in DOMAIN n.lines,
         op.name = "toggle" => \A r, q \in rows : r.at = q.at
  PROVE  /\ Written(n, op, rows) \in Note
         /\ \E to : Keeps(n.lines, Written(n, op, rows).lines, {r.at : r \in rows}, Gone(op, rows),
                          Adds(n, op, rows), to)
  <1>1. PICK places : places = {r.at : r \in rows}
    OBVIOUS
  <1>2. PICK lines : lines = n.lines
    OBVIOUS
  <1>3. places \subseteq DOMAIN lines /\ lines \in Seq(Line) /\ n.hidden \in BOOLEAN
    BY <1>1, <1>2 DEF Note
  <1>4. op.name \in Rewrites \cup {"hide", "purge", "add"}
    BY DEF Ops, Rewrites
  <1>5. CASE op.name = "hide"
    <2>1. Written(n, op, rows) = [n EXCEPT !.hidden = TRUE]
      BY <1>5, WrittenIs
    <2>2. Written(n, op, rows) \in Note /\ Written(n, op, rows).lines = lines
      BY <1>2, <2>1 DEF Note
    <2>3. QED
      BY <1>2, <1>3, <1>5, <2>2, KeepsAll DEF Gone
  <1>6. CASE op.name = "purge"
    <2>1. PICK stay : stay = {i \in DOMAIN lines : lines[i].id \notin {lines[j].id : j \in places}}
      OBVIOUS
    <2>2. stay = DOMAIN lines \ places
      BY <1>2, <1>3, <2>1 DEF Numbered
    <2>3. PICK new : new = Pick(lines, stay)
      OBVIOUS
    <2>4. Written(n, op, rows) = [n EXCEPT !.lines = new]
      <3>1. new = Without(n, places)
        BY <1>2, <2>1, <2>3 DEF Without
      <3>2. WritesLines(n, op, rows, new)
        BY <1>1, <1>6, <3>1 DEF WritesLines
      <3>3. QED
        BY <3>2, WrittenIs
    <2>5. new \in Seq(Line) /\ \E at : Picks(new, lines, stay, at)
      BY <1>3, <2>2, <2>3, PickIs
    <2>6. PICK at : Picks(new, lines, stay, at)
      BY <2>5
    <2>7. PICK to : to = [i \in stay |-> CHOOSE k \in DOMAIN new : at[k] = i]
      OBVIOUS
    <2>8. \A i \in stay : to[i] \in DOMAIN new /\ at[to[i]] = i
      BY <2>6, <2>7 DEF Picks
    <2>9. DOMAIN new \subseteq Nat /\ stay \subseteq Nat
      BY <1>3, <2>2, <2>5
    <2>10. \A i, j \in stay : i < j => to[i] < to[j]
      <3> SUFFICES ASSUME NEW i \in stay, NEW j \in stay, i < j PROVE to[i] < to[j]
        OBVIOUS
      <3>1. to[i] # to[j] /\ ~(to[j] < to[i])
        BY <2>6, <2>8, <2>9 DEF Picks
      <3>2. QED
        BY <2>8, <2>9, <3>1
    <2>11. \A k \in DOMAIN new : to[at[k]] = k
      <3> SUFFICES ASSUME NEW k \in DOMAIN new PROVE to[at[k]] = k
        OBVIOUS
      <3>1. at[k] \in stay
        BY <2>6 DEF Picks
      <3>2. PICK l \in DOMAIN new : l = to[at[k]] /\ at[l] = at[k]
        BY <2>8, <3>1
      <3>3. (l < k => at[l] < at[k]) /\ (k < l => at[k] < at[l]) /\ at[k] \in Nat
        BY <2>6, <2>9, <3>1 DEF Picks
      <3>4. l \in Nat /\ k \in Nat /\ ~(at[k] < at[k])
        BY <2>9, <3>3
      <3>5. l = k
        BY <3>2, <3>3, <3>4
      <3>6. QED
        BY <3>2, <3>5
    <2>12. \A i \in stay : new[to[i]] = lines[i]
      BY <2>6, <2>8 DEF Picks
    <2>13. \A k \in DOMAIN new : \E i \in stay : to[i] = k
      BY <2>6, <2>11 DEF Picks
    <2>14. to \in [stay -> DOMAIN new]
      BY <2>7, <2>8
    <2>15. Keeps(lines, new, places, places, Adds(n, op, rows), to)
      BY <2>2, <2>10, <2>12, <2>13, <2>14 DEF Keeps
    <2>16. Written(n, op, rows) \in Note /\ Written(n, op, rows).lines = new
      BY <2>4, <2>5 DEF Note
    <2>17. QED
      BY <1>1, <1>2, <1>6, <2>15, <2>16 DEF Gone
  <1>7. CASE op.name = "add"
    <2>1. op.new \in Texts
      BY <1>7 DEF Ops
    <2>2. PICK last : last = NewLine(op.new)
      OBVIOUS
    <2>3. last \in Line /\ last.id = nextId /\ Status(last) = "open"
      BY <2>1, <2>2, NewLineIs
    <2>4. PICK new : new = Append(lines, last)
      OBVIOUS
    <2>5. WritesLines(n, op, rows, new)
      BY <1>2, <1>7, <2>2, <2>4 DEF WritesLines
    <2>6. Written(n, op, rows) = [n EXCEPT !.lines = new]
      BY <2>5, WrittenIs
    <2>7. /\ new \in Seq(Line) /\ DOMAIN new = 1..(Len(lines) + 1) /\ DOMAIN lines = 1..Len(lines)
          /\ Len(lines) \in Nat /\ \A i \in 1..Len(lines) : new[i] = lines[i]
          /\ new[Len(lines) + 1] = last
      BY <1>3, <2>3, <2>4
    <2>8. PICK to : to = [i \in DOMAIN lines |-> i]
      OBVIOUS
    <2>9. \A k \in DOMAIN new : (\A i \in DOMAIN lines : to[i] # k) => k = Len(lines) + 1
      BY <2>7, <2>8
    <2>10. Keeps(lines, new, places, {}, Adds(n, op, rows), to)
      BY <1>7, <2>3, <2>7, <2>8, <2>9 DEF Keeps, Adds
    <2>11. Written(n, op, rows) \in Note /\ Written(n, op, rows).lines = new
      BY <2>6, <2>7 DEF Note
    <2>12. QED
      BY <1>1, <1>2, <1>7, <2>10, <2>11 DEF Gone
  <1>8. CASE op.name \in Rewrites /\ Recurs(n, op, rows)
    <2>1. PICK r \in rows : HasNext(lines[r.at])
      BY <1>2, <1>8 DEF Recurs, At
    <2>2. op.name = "toggle" /\ places = {r.at}
      BY <1>1, <1>8 DEF Recurs
    <2>3. PICK at : at = r.at
      OBVIOUS
    <2>4. /\ at \in 1..Len(lines) /\ Len(lines) \in Nat /\ DOMAIN lines = 1..Len(lines)
          /\ lines[at] \in Line /\ (CHOOSE i \in places : TRUE) = at
      BY <1>3, <2>2, <2>3
    <2>5. PICK next : next = NextOccurrence(lines[at], nextId)
      OBVIOUS
    <2>6. next \in Line /\ next.id = nextId /\ Status(next) = "open"
      BY <2>1, <2>3, <2>4, <2>5, NextOccurrenceLine DEF Status
    <2>7. PICK old : old = [lines EXCEPT ![at] = Rewritten(lines[at], op)]
      OBVIOUS
    <2>8. Rewritten(lines[at], op) \in Line /\ Rewritten(lines[at], op).id = lines[at].id
      BY <1>8, <2>4, RewrittenLine
    <2>9. /\ old \in Seq(Line) /\ Len(old) = Len(lines)
          /\ \A i \in 1..Len(lines) : old[i].id = lines[i].id /\ (i # at => old[i] = lines[i])
      BY <1>3, <2>4, <2>7, <2>8
    <2>10. PICK new : new = InsertAt(old, at, next)
      OBVIOUS
    <2>11. Recurred(n, op, at) = new
      BY <1>2, <2>5, <2>7, <2>10 DEF Recurred
    <2>12. Written(n, op, rows) = [n EXCEPT !.lines = new]
      <3>1. WritesLines(n, op, rows, new)
        BY <1>1, <1>8, <2>4, <2>11 DEF WritesLines
      <3>2. QED
        BY <3>1, WrittenIs
    <2>13. /\ new \in Seq(Line) /\ Len(new) = Len(lines) + 1 /\ new[at] = next
           /\ \A k \in 1..Len(lines) : new[IF k < at THEN k ELSE k + 1] = old[k]
      <3>1. at \in 1..Len(old)
        BY <2>4, <2>9
      <3>2. Inserted(new, Line, old, at, next)
        BY <2>6, <2>9, <2>10, <3>1, InsertAtIs
      <3>3. QED
        BY <2>9, <3>2 DEF Inserted
    <2>14. PICK to : to = [i \in 1..Len(lines) |-> IF i < at THEN i ELSE i + 1]
      OBVIOUS
    <2>15. /\ to \in [1..Len(lines) -> 1..Len(new)] /\ DOMAIN new = 1..Len(new)
           /\ \A i, j \in 1..Len(lines) : i < j => to[i] < to[j]
      BY <2>4, <2>13, <2>14
    <2>16. \A i \in 1..Len(lines) : new[to[i]].id = lines[i].id /\ (i \notin places => new[to[i]] = lines[i])
      BY <2>2, <2>3, <2>9, <2>13, <2>14
    <2>17. \A k \in 1..Len(new) : (\A i \in 1..Len(lines) : to[i] # k) => k = at
      <3> SUFFICES ASSUME NEW k \in 1..Len(new), k # at PROVE \E i \in 1..Len(lines) : to[i] = k
        OBVIOUS
      <3>1. CASE k < at
        <4>1. k \in 1..Len(lines) /\ to[k] = k
          BY <2>4, <2>14, <3>1
        <4>2. QED
          BY <4>1
      <3>2. CASE at < k
        <4>1. k - 1 \in 1..Len(lines) /\ to[k - 1] = k
          BY <2>4, <2>13, <2>14, <3>2
        <4>2. QED
          BY <4>1
      <3>3. QED
        BY <2>4, <2>13, <3>1, <3>2
    <2>18. Keeps(lines, new, places, {}, Adds(n, op, rows), to)
      BY <1>8, <2>4, <2>6, <2>13, <2>15, <2>16, <2>17 DEF Keeps, Adds
    <2>19. Written(n, op, rows) \in Note /\ Written(n, op, rows).lines = new
      BY <2>12, <2>13 DEF Note
    <2>20. QED
      BY <1>1, <1>2, <2>2, <2>18, <2>19 DEF Gone
  <1>9. CASE op.name \in Rewrites /\ ~Recurs(n, op, rows)
    <2>1. PICK new : new = [i \in DOMAIN lines |-> IF i \in places THEN Rewritten(lines[i], op) ELSE lines[i]]
      OBVIOUS
    <2>2. Written(n, op, rows) = [n EXCEPT !.lines = new]
      <3>1. op.name \notin {"hide", "purge", "add"}
        BY <1>9 DEF Rewrites
      <3>2. WritesLines(n, op, rows, new)
        BY <1>1, <1>2, <1>9, <2>1, <3>1 DEF WritesLines
      <3>3. QED
        BY <3>2, WrittenIs
    <2>3. \A i \in DOMAIN lines : new[i] \in Line /\ new[i].id = lines[i].id /\ (i \notin places => new[i] = lines[i])
      BY <1>3, <1>9, <2>1, RewrittenLine
    <2>4. new \in Seq(Line) /\ DOMAIN new = DOMAIN lines
      BY <1>3, <2>1, <2>3
    <2>5. Written(n, op, rows) \in Note /\ Written(n, op, rows).lines = new
      BY <2>2, <2>4 DEF Note
    <2>6. Gone(op, rows) = {}
      BY <1>9 DEF Gone, Rewrites
    <2>7. \A adds : \E to : Keeps(lines, new, places, {}, adds, to)
      BY <1>2, <2>3, <2>4, KeepsAll
    <2>8. QED
      BY <1>1, <1>2, <2>5, <2>6, <2>7
  <1>10. QED
    BY <1>4, <1>5, <1>6, <1>7, <1>8, <1>9

-----------------------------------------------------------------------------
(* The rows.                                                               *)

Statuses == {"open", "done", "cancelled", "other"}

ListedRows == [at : Nat, id : Nat, text : Texts \X BOOLEAN, status : Statuses, due : Int,
               rule : Rule \cup {Unread}, priority : Int, version : Note]

\* A row tells the text of its line in the version it carries.
Honest(r) == r.at \in DOMAIN r.version.lines /\ r.text = Text(r.version.lines[r.at])

Rows == {r \in ListedRows : Honest(r)}

LEMMA UnnumberedLine ==
  ASSUME NEW l \in Line
  PROVE  [l EXCEPT !.id = 0] \in Line /\ Text([l EXCEPT !.id = 0]) = Text(l)
  BY DEF Line, Text

LEMMA VersionIs ==
  ASSUME NEW n \in Note
  PROVE  /\ Version(n) \in Note
         /\ DOMAIN Version(n).lines = DOMAIN n.lines
         /\ \A i \in DOMAIN n.lines : Text(Version(n).lines[i]) = Text(n.lines[i])
  <1>1. PICK old : old = n.lines
    OBVIOUS
  <1>2. old \in Seq(Line) /\ n.hidden \in BOOLEAN
    BY <1>1 DEF Note
  <1>3. PICK lines : lines = [i \in DOMAIN old |-> [old[i] EXCEPT !.id = 0]]
    OBVIOUS
  <1>4. \A i \in DOMAIN old : lines[i] \in Line /\ Text(lines[i]) = Text(old[i])
    <2> SUFFICES ASSUME NEW i \in DOMAIN old PROVE lines[i] \in Line /\ Text(lines[i]) = Text(old[i])
      OBVIOUS
    <2>1. old[i] \in Line /\ lines[i] = [old[i] EXCEPT !.id = 0]
      BY <1>2, <1>3
    <2>2. QED
      BY <2>1, UnnumberedLine
  <1>5. DOMAIN lines = DOMAIN old
    BY <1>3
  <1>6. lines \in Seq(Line)
    BY <1>2, <1>3, <1>4
  <1>7. Version(n) = [hidden |-> n.hidden, lines |-> lines]
    BY <1>1, <1>3 DEF Version
  <1>8. QED
    BY <1>1, <1>2, <1>4, <1>5, <1>6, <1>7 DEF Note

LEMMA RowIs ==
  ASSUME NEW n \in Note, NEW i \in DOMAIN n.lines
  PROVE  Row(n, i) \in Rows /\ Row(n, i).at = i
  <1>1. n.lines \in Seq(Line) /\ i \in Nat /\ n.lines[i] \in Line
    BY DEF Note
  <1>2. PICK l : l = n.lines[i]
    OBVIOUS
  <1>3. l \in Line /\ l.id \in Nat
    BY <1>1, <1>2 DEF Line
  <1>4. Text(l) \in Texts \X BOOLEAN
    BY <1>3 DEF Text, Line
  <1>5. Status(l) \in Statuses
    BY DEF Status, Statuses
  <1>6. Due(l) \in Int /\ Priority(l) \in Int /\ Recurrence(l) \in Rule \cup {Unread}
    <2>1. Normal \in Int /\ "priority" \in Marks
      BY DEF Normal, Marks
    <2>2. QED
      BY <1>3, <2>1, DueType, RecurrenceType, ValueType DEF Priority
  <1>7. PICK v : v = Version(n)
    OBVIOUS
  <1>8. v \in Note /\ i \in DOMAIN v.lines /\ Text(l) = Text(v.lines[i])
    BY <1>2, <1>7, VersionIs
  <1>9. Row(n, i) = [at |-> i, id |-> l.id, text |-> Text(l), status |-> Status(l), due |-> Due(l),
                     rule |-> Recurrence(l), priority |-> Priority(l), version |-> v]
    BY <1>2, <1>7 DEF Row
  <1>10. Row(n, i) \in ListedRows
    BY <1>1, <1>3, <1>4, <1>5, <1>6, <1>8, <1>9 DEF ListedRows
  <1>11. Honest(Row(n, i)) /\ Row(n, i).at = i
    BY <1>8, <1>9 DEF Honest
  <1>12. QED
    BY <1>10, <1>11 DEF Rows

LEMMA ListingIs ==
  ASSUME NEW n \in Note
  PROVE  Listing(n) \in SUBSET Rows
  BY RowIs DEF Listing

\* What a success shows in place is still a row of that line.
LEMMA MarkedRow ==
  ASSUME NEW r \in Rows, NEW status \in Statuses
  PROVE  [r EXCEPT !.status = status] \in Rows
  BY DEF Rows, ListedRows, Honest

\* findTask finds one line.
LEMMA FoundIsOne ==
  ASSUME NEW rows \in SUBSET Rows, NEW text, NEW status
  PROVE  /\ Found(rows, text, status) \in SUBSET rows
         /\ \A r \in Found(rows, text, status) : r.text = text
         /\ \A r, q \in Found(rows, text, status) : r.at = q.at
  <1>1. ASSUME NEW r \in Found(rows, text, status), NEW q \in Found(rows, text, status)
        PROVE  r.at = q.at
    <2>1. r \in Rows /\ q \in Rows /\ Before(r, q) /\ Before(q, r)
      BY <1>1 DEF Found
    <2>2. /\ r.at \in Nat /\ q.at \in Nat /\ r.priority \in Int /\ q.priority \in Int
          /\ r.due \in Int /\ q.due \in Int
      BY <2>1 DEF Rows, ListedRows
    <2>3. QED
      BY <2>1, <2>2 DEF Before
  <1>2. QED
    BY <1>1 DEF Found

\* An accepted request names a line of the note by its text.
LEMMA AcceptedText ==
  ASSUME NEW n \in Note, NEW op \in Ops, op.name # "add", NEW r \in Rows, Accepts(n, op, r)
  PROVE  r.at \in DOMAIN n.lines /\ Text(n.lines[r.at]) = r.text
  <1>1. r.version = Version(n) => r.at \in DOMAIN n.lines /\ Text(n.lines[r.at]) = r.text
    BY VersionIs DEF Rows, Honest
  <1>2. op.name = "triage" => r.at \in DOMAIN n.lines /\ Text(n.lines[r.at]) = r.text
    BY DEF Accepts, AcceptsTriage, Exists, At
  <1>3. op.name \in {"toggle", "due", "recurrence", "priority", "cancel", "purge", "hide", "triage"}
    BY DEF Ops
  <1>4. op.name # "triage" => r.version = Version(n)
    BY <1>3 DEF Accepts, AcceptsToggle, AcceptsDue, AcceptsRecurrence, AcceptsPriority, AcceptsCancel,
                AcceptsPurge, AcceptsHide, Fresh
  <1>5. QED
    BY <1>1, <1>2, <1>4

-----------------------------------------------------------------------------
(* The clients.  A command fits the rows it was given for, and what a      *)
(* request is sent with is a line of one of their texts.                   *)

States == [phase : {"idle", "sent", "finding", "loading"}, rows : SUBSET Rows, asked : SUBSET Rows,
           row : SUBSET Rows, todo : Seq(Ops), again : BOOLEAN]

Fits(rows, op) ==
  /\ op.name = "toggle" => \A r, q \in rows : r = q
  /\ op.name = "purge" => \A r \in rows : r.status = "cancelled"
  /\ op.name = "add" => rows = {}

Orders(state) ==
  /\ \A r \in state.row : \E a \in state.asked : a.text = r.text
  /\ \A i \in DOMAIN state.todo :
        /\ Fits(state.asked, state.todo[i])
        /\ state.todo[i].name = "toggle" => \A r, q \in state.row : r.at = q.at

Proper(c, state) ==
  /\ state \in States
  /\ (state.todo # <<>>) <=> state.phase \in {"sent", "finding"}
  /\ state.again => c \in Terminals
  /\ Orders(state)

LEMMA ProperIdle ==
  ASSUME NEW c, NEW rows \in SUBSET Rows
  PROVE  Proper(c, Idle(rows)) /\ Proper(c, [Idle(rows) EXCEPT !.phase = "loading"])
  <1>1. <<>> \in Seq(Ops) /\ DOMAIN <<>> = {}
    OBVIOUS
  <1>2. QED
    BY <1>1 DEF Proper, Orders, States, Idle

LEMMA ProperHead ==
  ASSUME NEW c, NEW state, Proper(c, state), state.phase \in {"sent", "finding"}
  PROVE  /\ state.todo \in Seq(Ops) /\ 1 \in DOMAIN state.todo
         /\ Head(state.todo) = state.todo[1] /\ Head(state.todo) \in Ops
  <1>1. state.todo \in Seq(Ops) /\ state.todo # <<>>
    BY DEF Proper, States
  <1>2. QED
    BY <1>1

LEMMA ProperRefused ==
  ASSUME NEW c \in Clients, Proper(c, client[c]), client[c].phase = "sent"
  PROVE  Proper(c, Refused(c))
  <1>1. PICK state : state = client[c]
    OBVIOUS
  <1>2. CASE c \in Terminals /\ Head(state.todo).name \in Repeats /\ ~state.again
    <2>1. Refused(c) = [state EXCEPT !.phase = "finding", !.again = TRUE]
      BY <1>1, <1>2 DEF Refused
    <2>2. QED
      BY <1>1, <1>2, <2>1 DEF Proper, States, Orders
  <1>3. CASE ~(c \in Terminals /\ Head(state.todo).name \in Repeats /\ ~state.again)
    <2>1. Refused(c) = Idle(state.rows)
      BY <1>1, <1>3 DEF Refused
    <2>2. state.rows \in SUBSET Rows
      BY <1>1 DEF Proper, States
    <2>3. QED
      BY <2>1, <2>2, ProperIdle
  <1>4. QED
    BY <1>2, <1>3

LEMMA TailIs ==
  ASSUME NEW T, NEW s \in Seq(T), Len(s) > 1
  PROVE  /\ Tail(s) \in Seq(T) /\ Tail(s) # <<>>
         /\ \A i \in DOMAIN Tail(s) : i + 1 \in DOMAIN s /\ Tail(s)[i] = s[i + 1]
  OBVIOUS

LEMMA ProperAnswered ==
  ASSUME NEW c \in Clients, Proper(c, client[c]), client[c].phase = "sent", NEW recurred
  PROVE  Proper(c, Answered(c, recurred))
  <1>1. PICK state : state = client[c]
    OBVIOUS
  <1>2. state \in States /\ state.todo \in Seq(Ops) /\ Orders(state) /\ state.rows \in SUBSET Rows
    BY <1>1 DEF Proper, States
  <1>3. CASE Len(state.todo) > 1
    <2>1. PICK rest : rest = Tail(state.todo)
      OBVIOUS
    <2>2. /\ rest \in Seq(Ops) /\ rest # <<>>
          /\ \A i \in DOMAIN rest : i + 1 \in DOMAIN state.todo /\ rest[i] = state.todo[i + 1]
      BY <1>2, <1>3, <2>1, TailIs
    <2>3. PICK new : new = [state EXCEPT !.phase = "finding", !.todo = rest, !.again = FALSE]
      OBVIOUS
    <2>4. Answered(c, recurred) = new
      BY <1>1, <1>3, <2>1, <2>3 DEF Answered
    <2>5. /\ new \in States /\ new.todo = rest /\ new.row = state.row /\ new.asked = state.asked
          /\ new.phase = "finding" /\ new.again = FALSE
      BY <1>2, <2>2, <2>3 DEF States
    <2>6. Orders(new)
      BY <1>2, <2>2, <2>5 DEF Orders
    <2>7. QED
      BY <2>2, <2>4, <2>5, <2>6 DEF Proper
  <1>4. CASE ~(Len(state.todo) > 1)
    <2>1. PICK op : op = Head(state.todo)
      OBVIOUS
    <2>2. Answered(c, recurred) = Shown(c, op, recurred)
      BY <1>1, <1>4, <2>1 DEF Answered
    <2> DEFINE mark(status) ==
                 {IF \E a \in state.asked : a.text = r.text THEN [r EXCEPT !.status = status] ELSE r : r \in state.rows}
    <2>3. ASSUME NEW status \in Statuses PROVE mark(status) \in SUBSET Rows
      BY <1>2, MarkedRow
    <2>4. Shown(c, op, recurred) =
            CASE c \in Terminals /\ op.name = "toggle" /\ ~recurred -> Idle(mark(IF op.new THEN "done" ELSE "open"))
              [] c \in Terminals /\ op.name = "cancel" -> Idle(mark("cancelled"))
              [] OTHER -> [Idle(state.rows) EXCEPT !.phase = "loading"]
      BY <1>1, Zenon DEF Shown
    <2>5. PICK status : status = IF op.new THEN "done" ELSE "open"
      OBVIOUS
    <2>6. status \in Statuses /\ "cancelled" \in Statuses
      BY <2>5 DEF Statuses
    <2> HIDE DEF mark
    <2>7. Proper(c, Idle(mark(status))) /\ Proper(c, Idle(mark("cancelled")))
            /\ Proper(c, [Idle(state.rows) EXCEPT !.phase = "loading"])
      BY <1>2, <2>3, <2>6, ProperIdle
    <2>8. QED
      BY <2>2, <2>4, <2>5, <2>7
  <1>5. QED
    BY <1>3, <1>4

LEMMA ProperFound ==
  ASSUME NEW c, NEW state, Proper(c, state), state.phase = "finding", NEW hit \in SUBSET Rows,
         \A r \in hit : \E a \in state.asked : a.text = r.text,
         (\A a, b \in state.asked : a = b) => \A r, q \in hit : r.at = q.at
  PROVE  Proper(c, [state EXCEPT !.phase = "sent", !.row = hit])
  <1>1. state \in States /\ Orders(state)
    BY DEF Proper
  <1>2. PICK new : new = [state EXCEPT !.phase = "sent", !.row = hit]
    OBVIOUS
  <1>3. /\ new \in States /\ new.todo = state.todo /\ new.row = hit /\ new.asked = state.asked
        /\ new.phase = "sent" /\ new.again = state.again
    BY <1>1, <1>2 DEF States
  <1>4. Orders(new)
    BY <1>1, <1>3 DEF Orders, Fits
  <1>5. QED
    BY <1>2, <1>3, <1>4 DEF Proper

\* What a client asks fits the rows it asks it for.
Askable(rows, todo) == todo \in Seq(Ops) /\ todo # <<>> /\ \A i \in DOMAIN todo : Fits(rows, todo[i])

LEMMA ProperAsked ==
  ASSUME NEW c, NEW state, Proper(c, state), state.phase = "idle",
         NEW rows \in SUBSET state.rows, NEW todo, Askable(rows, todo)
  PROVE  Proper(c, [state EXCEPT !.phase = "sent", !.asked = rows, !.row = rows, !.todo = todo])
  <1>1. state \in States /\ rows \in SUBSET Rows /\ todo \in Seq(Ops)
    BY DEF Proper, States, Askable
  <1>2. PICK new : new = [state EXCEPT !.phase = "sent", !.asked = rows, !.row = rows, !.todo = todo]
    OBVIOUS
  <1>3. /\ new \in States /\ new.todo = todo /\ new.row = rows /\ new.asked = rows
        /\ new.phase = "sent" /\ new.again = state.again
    BY <1>1, <1>2 DEF States
  <1>4. Orders(new)
    BY <1>3 DEF Orders, Askable, Fits
  <1>5. QED
    BY <1>2, <1>3, <1>4 DEF Proper, Askable

LEMMA OneOp ==
  ASSUME NEW rows, NEW op \in Ops, Fits(rows, op)
  PROVE  Askable(rows, <<op>>)
  BY DEF Askable

LEMMA TerminalAsks ==
  ASSUME NEW r \in Rows, NEW todo \in TerminalCommands(r)
  PROVE  Askable({r}, todo)
  <1> DEFINE due == {Op("due", d) : d \in Dates \ {r.due}}
             rule == {Op("recurrence", u) : u \in (Rules \cup {NoRule}) \ {r.rule}}
             other == {Op("toggle", r.status # "done"), Op("hide", TRUE),
                       Op(IF r.status = "cancelled" THEN "purge" ELSE "cancel", TRUE)}
  <1>1. todo \in {<<op>> : op \in due \cup rule \cup other} \cup (due \X rule)
    BY DEF TerminalCommands
  <1>2. ASSUME NEW op \in due PROVE op \in Ops /\ Fits({r}, op)
    <2>1. ASSUME NEW d \in Dates PROVE Op("due", d) \in Ops /\ Fits({r}, Op("due", d))
      BY DEF Op, Ops, Fits
    <2>2. QED
      BY <2>1
  <1>3. ASSUME NEW op \in rule PROVE op \in Ops /\ Fits({r}, op)
    <2>1. ASSUME NEW u \in Rules \cup {NoRule}
          PROVE  Op("recurrence", u) \in Ops /\ Fits({r}, Op("recurrence", u))
      BY DEF Op, Ops, Fits
    <2>2. QED
      BY <2>1
  <1>4. ASSUME NEW op \in other PROVE op \in Ops /\ Fits({r}, op)
    <2>1. ASSUME NEW done \in BOOLEAN PROVE Op("toggle", done) \in Ops /\ Fits({r}, Op("toggle", done))
      BY DEF Op, Ops, Fits
    <2>2. Op("hide", TRUE) \in Ops /\ Fits({r}, Op("hide", TRUE))
      BY DEF Op, Ops, Fits
    <2>3. PICK name : name = IF r.status = "cancelled" THEN "purge" ELSE "cancel"
      OBVIOUS
    <2>4. Op(name, TRUE) \in Ops /\ Fits({r}, Op(name, TRUE))
      BY <2>3 DEF Op, Ops, Fits
    <2>5. (r.status # "done") \in BOOLEAN
      OBVIOUS
    <2>6. QED
      BY <2>1, <2>2, <2>3, <2>4, <2>5
  <1> HIDE DEF due, rule, other
  <1>5. CASE todo \in due \X rule
    <2>1. PICK a \in due, b \in rule : todo = <<a, b>>
      BY <1>5
    <2>2. a \in Ops /\ b \in Ops /\ Fits({r}, a) /\ Fits({r}, b)
      BY <1>2, <1>3
    <2>3. QED
      BY <2>1, <2>2 DEF Askable
  <1>6. CASE todo \in {<<op>> : op \in due \cup rule \cup other}
    <2>1. PICK op \in due \cup rule \cup other : todo = <<op>>
      BY <1>6
    <2>2. op \in Ops /\ Fits({r}, op)
      BY <1>2, <1>3, <1>4
    <2>3. QED
      BY <2>1, <2>2, OneOp
  <1>7. QED
    BY <1>1, <1>5, <1>6

LEMMA RowAsks ==
  ASSUME NEW r \in Rows, NEW todo \in RowCommands(r) \cup AgentCommands(r)
  PROVE  Askable({r}, todo)
  <1>1. ASSUME NEW d \in Dates PROVE Op("due", d) \in Ops /\ Fits({r}, Op("due", d))
    BY DEF Op, Ops, Fits
  <1>2. ASSUME NEW p \in Priorities PROVE Op("priority", p) \in Ops /\ Fits({r}, Op("priority", p))
    BY DEF Op, Ops, Fits
  <1>3. ASSUME NEW done \in BOOLEAN PROVE Op("toggle", done) \in Ops /\ Fits({r}, Op("toggle", done))
    BY DEF Op, Ops, Fits
  <1>4. (r.status # "done") \in BOOLEAN
    OBVIOUS
  <1>5. \/ todo = <<Op("toggle", r.status # "done")>>
        \/ \E d \in Dates : todo = <<Op("due", d)>>
        \/ \E p \in Priorities : todo = <<Op("priority", p)>>
        \/ \E done \in BOOLEAN : todo = <<Op("toggle", done)>>
    BY Zenon DEF RowCommands, AgentCommands
  <1>6. QED
    BY <1>1, <1>2, <1>3, <1>4, <1>5, OneOp

LEMMA BatchAsks ==
  ASSUME NEW rows \in SUBSET Rows, NEW todo \in BatchCommands(rows)
  PROVE  Askable(rows, todo)
  <1>1. Op("cancel", TRUE) \in Ops /\ Fits(rows, Op("cancel", TRUE))
    BY DEF Op, Ops, Fits
  <1>2. ASSUME \A r \in rows : r.status = "cancelled"
        PROVE  Op("purge", TRUE) \in Ops /\ Fits(rows, Op("purge", TRUE))
    BY <1>2 DEF Op, Ops, Fits
  <1>3. ASSUME NEW a \in Triages PROVE Op("triage", a) \in Ops /\ Fits(rows, Op("triage", a))
    BY DEF Op, Ops, Fits
  <1>4. \/ todo = <<Op("cancel", TRUE)>>
        \/ todo = <<Op("purge", TRUE)>> /\ \A r \in rows : r.status = "cancelled"
        \/ \E a \in Triages : todo = <<Op("triage", a)>>
    <2>1. PICK open, closed, dated : /\ open = (\A r \in rows : r.status = "open")
                                     /\ closed = (\A r \in rows : r.status = "cancelled")
                                     /\ dated = (\A r \in rows : r.status = "open" /\ r.due = NoDate)
      OBVIOUS
    <2>2. todo \in (IF open THEN {<<Op("cancel", TRUE)>>} ELSE {})
                     \cup (IF closed THEN {<<Op("purge", TRUE)>>} ELSE {})
                     \cup (IF dated THEN {<<Op("triage", a)>> : a \in Triages} ELSE {})
      BY <2>1, Zenon DEF BatchCommands
    <2>3. QED
      BY <2>1, <2>2
  <1>5. QED
    BY <1>1, <1>2, <1>3, <1>4, OneOp

LEMMA AddAsks ==
  ASSUME NEW text \in Texts
  PROVE  Askable({}, <<Op("add", text)>>)
  <1>1. Op("add", text) \in Ops /\ Fits({}, Op("add", text))
    BY DEF Op, Ops, Fits
  <1>2. QED
    BY <1>1, OneOp

-----------------------------------------------------------------------------
(* The invariant.                                                          *)

Notes ==
  /\ note \in Note /\ indexed \in Note /\ nextId \in Nat \ {0}
  /\ Numbered(note) /\ Numbered(indexed)

Commands == client \in [Clients -> States] /\ \A c \in Clients : Proper(c, client[c])

Bounds ==
  /\ session \in Sessions
  /\ asks \in 0..session.asks /\ edits \in 0..session.edits /\ faults \in 0..session.faults

\* The invariant: the numbers of the lines are apart, every command fits the rows
\* it was given for, and every row is honest about the version it carries.
Inv == Notes /\ Commands /\ Bounds

LEMMA CommandsStep ==
  ASSUME Commands, NEW c \in Clients, NEW state, Proper(c, state),
         client' = [client EXCEPT ![c] = state]
  PROVE  Commands'
  <1>1. state \in States
    BY DEF Proper
  <1>2. client' \in [Clients -> States]
    BY <1>1 DEF Commands
  <1>3. ASSUME NEW d \in Clients PROVE Proper(d, client'[d])
    <2>1. CASE d = c
      BY <2>1 DEF Commands
    <2>2. CASE d # c
      <3>1. client'[d] = client[d]
        BY <2>2 DEF Commands
      <3>2. QED
        BY <3>1 DEF Commands
    <2>3. QED
      BY <2>1, <2>2
  <1>4. QED
    BY <1>2, <1>3 DEF Commands

LEMMA BoundsKept ==
  ASSUME Bounds, session' = session,
         asks' \in 0..session.asks, edits' \in 0..session.edits, faults' \in 0..session.faults
  PROVE  Bounds'
  BY DEF Bounds

\* The lines of a note that a request leaves have numbers of their own.
LEMMA KeepsNumbers ==
  ASSUME NEW n \in Note, Numbered(n), nextId \in Nat \ {0}, NEW new \in Note, NEW places, NEW gone, NEW adds,
         NEW to, Keeps(n.lines, new.lines, places, gone, adds, to)
  PROVE  /\ \A i \in DOMAIN new.lines : new.lines[i].id \in 1..(IF adds THEN nextId ELSE nextId - 1)
         /\ \A i, j \in DOMAIN new.lines : new.lines[i].id = new.lines[j].id => i = j
  <1>1. PICK stay : stay = DOMAIN n.lines \ gone
    OBVIOUS
  <1>2. PICK old, lines : old = n.lines /\ lines = new.lines
    OBVIOUS
  <1> DEFINE Kept(k) == \E i \in stay : to[i] = k /\ lines[k].id = old[i].id
             New(k) == /\ adds /\ lines[k].id = nextId
                       /\ \A l \in DOMAIN lines : (\A i \in stay : to[i] # l) => k = l
  <1>3. \A k \in DOMAIN lines : Kept(k) \/ New(k)
    BY <1>1, <1>2 DEF Keeps
  <1>4. \A i \in stay : old[i].id \in 1..(nextId - 1)
    BY <1>1, <1>2 DEF Numbered
  <1>5. \A i, j \in stay : old[i].id = old[j].id => i = j
    BY <1>1, <1>2 DEF Numbered
  <1>6. \A k \in DOMAIN lines : lines[k].id \in 1..(IF adds THEN nextId ELSE nextId - 1)
    BY <1>3, <1>4
  <1>7. ASSUME NEW k \in DOMAIN lines, NEW l \in DOMAIN lines, lines[k].id = lines[l].id PROVE k = l
    <2>1. CASE Kept(k) /\ Kept(l)
      BY <1>5, <1>7, <2>1
    <2>2. CASE Kept(k) /\ ~Kept(l)
      <3>1. lines[l].id = nextId /\ lines[k].id \in 1..(nextId - 1)
        BY <1>3, <1>4, <2>2
      <3>2. QED
        BY <1>7, <3>1
    <2>3. CASE ~Kept(k) /\ Kept(l)
      <3>1. lines[k].id = nextId /\ lines[l].id \in 1..(nextId - 1)
        BY <1>3, <1>4, <2>3
      <3>2. QED
        BY <1>7, <3>1
    <2>4. CASE ~Kept(k) /\ ~Kept(l)
      <3>1. New(k) /\ New(l)
        BY <1>3, <2>4
      <3>2. (\A i \in stay : to[i] # l) \/ lines[l].id \in 1..(nextId - 1)
        <4> SUFFICES ASSUME NEW i \in stay, to[i] = l PROVE FALSE
          BY <3>1
        <4>1. lines[l].id = old[i].id
          BY <1>1, <1>2 DEF Keeps
        <4>2. QED
          BY <2>4, <4>1
      <3>3. QED
        BY <3>1, <3>2
    <2>5. QED
      BY <2>1, <2>2, <2>3, <2>4
  <1>8. QED
    BY <1>2, <1>6, <1>7

\* A request that is served.
LEMMA ServedIs ==
  ASSUME Inv, NEW c \in Clients, client[c].phase = "sent", NEW op, op = Head(client[c].todo),
         NEW rows, rows = client[c].row, NEW new \in Attempt(note, op, rows)
  PROVE  /\ op \in Ops /\ Fits(client[c].asked, op) /\ new \in Note
         /\ \E to : Keeps(note.lines, new.lines, {r.at : r \in rows}, Gone(op, rows), Adds(note, op, rows), to)
         /\ \A r \in rows : /\ r \in Rows /\ Accepts(note, op, r)
                            /\ r.at \in DOMAIN note.lines /\ Text(note.lines[r.at]) = r.text
                            /\ \E a \in client[c].asked : a.text = r.text
  <1>1. PICK state : state = client[c]
    OBVIOUS
  <1>2. Proper(c, state) /\ note \in Note /\ nextId \in Nat /\ Numbered(note)
    BY <1>1 DEF Inv, Notes, Commands
  <1>3. op \in Ops /\ 1 \in DOMAIN state.todo /\ op = state.todo[1]
    BY <1>1, <1>2, ProperHead
  <1>4. /\ Fits(state.asked, op) /\ (op.name = "toggle" => \A r, q \in rows : r.at = q.at)
        /\ \A r \in rows : r \in Rows /\ \E a \in state.asked : a.text = r.text
    BY <1>1, <1>2, <1>3 DEF Proper, Orders, States
  <1>5. op.name = "add" => rows = {}
    BY <1>4 DEF Fits
  <1>6. new = Written(note, op, rows) /\ \A r \in rows : Accepts(note, op, r)
    BY DEF Attempt
  <1>7. \A r \in rows : r.at \in DOMAIN note.lines /\ Text(note.lines[r.at]) = r.text
    BY <1>2, <1>3, <1>4, <1>5, <1>6, AcceptedText
  <1>8. /\ new \in Note
        /\ \E to : Keeps(note.lines, new.lines, {r.at : r \in rows}, Gone(op, rows), Adds(note, op, rows), to)
    BY <1>2, <1>3, <1>4, <1>6, <1>7, WrittenKeeps
  <1>9. QED
    BY <1>1, <1>3, <1>4, <1>6, <1>7, <1>8

LEMMA ServedNumbers ==
  ASSUME Inv, NEW c \in Clients, client[c].phase = "sent", NEW op, op = Head(client[c].todo),
         NEW rows, rows = client[c].row, note' \in Attempt(note, op, rows),
         nextId' \in {nextId, nextId + 1}, Adds(note, op, rows) => nextId' = nextId + 1,
         indexed' \in {indexed, note'}
  PROVE  Notes'
  <1>1. PICK new : new = note'
    OBVIOUS
  <1>2. nextId \in Nat \ {0} /\ note \in Note /\ Numbered(note) /\ indexed \in Note /\ Numbered(indexed)
    BY DEF Inv, Notes
  <1>3. PICK adds : adds = Adds(note, op, rows)
    OBVIOUS
  <1>4. /\ new \in Note
        /\ \E to : Keeps(note.lines, new.lines, {r.at : r \in rows}, Gone(op, rows), Adds(note, op, rows), to)
    BY <1>1, ServedIs
  <1>5. /\ \A i \in DOMAIN new.lines : new.lines[i].id \in 1..(IF Adds(note, op, rows) THEN nextId ELSE nextId - 1)
        /\ \A i, j \in DOMAIN new.lines : new.lines[i].id = new.lines[j].id => i = j
    BY <1>2, <1>4, KeepsNumbers
  <1>6. nextId' \in Nat \ {0}
    BY <1>2
  <1>7. \A i \in DOMAIN new.lines : new.lines[i].id \in 1..(nextId' - 1)
    BY <1>2, <1>3, <1>5
  <1>8. Numbered(note)'
    BY <1>1, <1>5, <1>7 DEF Numbered
  <1>9. indexed' = indexed => Numbered(indexed)'
    BY <1>2, <1>6 DEF Numbered
  <1>10. indexed' = note' => Numbered(indexed)'
    BY <1>8 DEF Numbered
  <1>11. QED
    BY <1>1, <1>2, <1>4, <1>6, <1>8, <1>9, <1>10 DEF Notes

-----------------------------------------------------------------------------
(* Every step keeps the invariant.                                         *)

LEMMA InvInit == Init => Inv
  <1> SUFFICES ASSUME Init PROVE Inv
    OBVIOUS
  <1>1. note \in Note /\ indexed = note /\ note.lines = FirstLines
    BY LinesAssumption DEF Init, Note
  <1>2. Len(FirstLines) \in Nat /\ DOMAIN FirstLines = 1..Len(FirstLines)
    BY LinesAssumption
  <1>3. nextId \in Nat \ {0} /\ Numbered(note)
    BY <1>1, <1>2, LinesAssumption DEF Init, Numbered
  <1>4. Notes
    BY <1>1, <1>3 DEF Notes
  <1>5. Listing(note) \in SUBSET Rows
    BY <1>1, ListingIs
  <1>6. PICK idle : idle = Idle(Listing(note))
    OBVIOUS
  <1>7. client = [c \in Clients |-> idle]
    BY <1>6 DEF Init
  <1>8. \A c : Proper(c, idle)
    BY <1>5, <1>6, ProperIdle
  <1>9. idle \in States
    BY <1>8 DEF Proper
  <1>10. Commands
    BY <1>7, <1>8, <1>9 DEF Commands
  <1>11. Bounds
    BY RequestsAssumption DEF Init, Bounds
  <1>12. QED
    BY <1>4, <1>10, <1>11 DEF Inv

LEMMA InvAsk ==
  ASSUME Inv, NEW c \in Clients, Ask(c)
  PROVE  Inv'
  <1>1. PICK state : state = client[c]
    OBVIOUS
  <1>2. Proper(c, state) /\ state.phase = "idle" /\ state.rows \in SUBSET Rows
    BY <1>1 DEF Ask, Inv, Commands, Proper, States
  <1>3. PICK rows, todo : Asking(c, rows, todo) /\ rows \in SUBSET state.rows /\ Askable(rows, todo)
    <2>1. CASE \E text \in Texts : Asking(c, {}, <<Op("add", text)>>)
      BY <2>1, AddAsks
    <2>2. CASE \E r \in client[c].rows : \E todo \in TerminalCommands(r) : Asking(c, {r}, todo)
      BY <1>1, <1>2, <2>2, TerminalAsks
    <2>3. CASE \E r \in client[c].rows : \E todo \in RowCommands(r) \cup AgentCommands(r) : Asking(c, {r}, todo)
      BY <1>1, <1>2, <2>3, RowAsks
    <2>4. CASE \E rows \in SUBSET client[c].rows : \E todo \in BatchCommands(rows) : Asking(c, rows, todo)
      BY <1>1, <1>2, <2>4, BatchAsks
    <2>5. QED
      BY <2>1, <2>2, <2>3, <2>4 DEF Ask
  <1>4. PICK new : new = [state EXCEPT !.phase = "sent", !.asked = rows, !.row = rows, !.todo = todo]
    OBVIOUS
  <1>5. Proper(c, new)
    BY <1>2, <1>3, <1>4, ProperAsked
  <1>6. client' = [client EXCEPT ![c] = new]
    BY <1>1, <1>3, <1>4 DEF Asking
  <1>7. Commands'
    BY <1>5, <1>6, CommandsStep DEF Inv
  <1>8. Notes'
    BY <1>3 DEF Asking, Inv, Notes, Numbered
  <1>9. asks \in Nat /\ session.asks \in Nat /\ asks < session.asks
    BY RequestsAssumption DEF Ask, Inv, Bounds
  <1>10. Bounds'
    BY <1>3, <1>9, BoundsKept DEF Asking, Inv, Bounds
  <1>11. QED
    BY <1>7, <1>8, <1>10 DEF Inv

\* A step of one client that leaves the note and the bounds alone.
LEMMA InvLooks ==
  ASSUME Inv, NEW c \in Clients, NEW state, Proper(c, state), client' = [client EXCEPT ![c] = state],
         UNCHANGED <<note, indexed, nextId, asks, edits, faults, session>>
  PROVE  Inv'
  <1>1. Commands'
    BY CommandsStep DEF Inv
  <1>2. Notes' /\ Bounds'
    BY DEF Inv, Notes, Numbered, Bounds
  <1>3. QED
    BY <1>1, <1>2 DEF Inv

LEMMA InvListed ==
  ASSUME Inv, NEW c \in Clients, Load(c) \/ Refresh(c)
  PROVE  Inv'
  <1>1. PICK state : state = Idle(Listing(indexed))
    OBVIOUS
  <1>2. Proper(c, state)
    BY <1>1, ListingIs, ProperIdle DEF Inv, Notes
  <1>3. /\ client' = [client EXCEPT ![c] = state]
        /\ UNCHANGED <<note, indexed, nextId, asks, edits, faults, session>>
    BY <1>1 DEF Load, Refresh
  <1>4. QED
    BY <1>2, <1>3, InvLooks

LEMMA InvFind ==
  ASSUME Inv, NEW c \in Clients, Find(c)
  PROVE  Inv'
  <1>1. PICK state : state = client[c]
    OBVIOUS
  <1>2. PICK listed : listed = Listing(indexed)
    OBVIOUS
  <1> DEFINE op == Head(state.todo)
             status(r) == IF op.name = "toggle" THEN IF op.new THEN "open" ELSE "done" ELSE r.status
             hit == UNION {Found(listed, r.text, status(r)) : r \in state.asked}
  <1>3. /\ state.phase = "finding"
        /\ client' = [client EXCEPT ![c] =
                        IF hit = {} THEN Idle(state.rows) ELSE [state EXCEPT !.phase = "sent", !.row = hit]]
        /\ UNCHANGED <<note, indexed, nextId, asks, edits, faults, session>>
    BY <1>1, <1>2, Zenon DEF Find
  <1>4. Proper(c, state) /\ listed \in SUBSET Rows /\ state.rows \in SUBSET Rows
    BY <1>1, <1>2, ListingIs DEF Inv, Notes, Commands, Proper, States
  <1> HIDE DEF op, status
  <1>5. ASSUME NEW r \in hit PROVE \E a \in state.asked : r \in Found(listed, a.text, status(a))
    OBVIOUS
  <1>6. PICK found : found = hit
    OBVIOUS
  <1> HIDE DEF hit
  <1>7. found \in SUBSET Rows /\ \A r \in found : \E a \in state.asked : a.text = r.text
    BY <1>4, <1>5, <1>6, FoundIsOne
  <1>8. ASSUME \A a, b \in state.asked : a = b, NEW r \in found, NEW q \in found
        PROVE  r.at = q.at
    <2>1. PICK a \in state.asked : r \in Found(listed, a.text, status(a))
      BY <1>5, <1>6
    <2>2. q \in Found(listed, a.text, status(a))
      BY <1>5, <1>6, <1>8
    <2>3. QED
      BY <1>4, <2>1, <2>2, FoundIsOne
  <1>9. Proper(c, [state EXCEPT !.phase = "sent", !.row = found])
    BY <1>3, <1>4, <1>7, <1>8, ProperFound
  <1>10. PICK new : new = IF found = {} THEN Idle(state.rows) ELSE [state EXCEPT !.phase = "sent", !.row = found]
    OBVIOUS
  <1>11. Proper(c, new) /\ client' = [client EXCEPT ![c] = new]
    BY <1>3, <1>4, <1>6, <1>9, <1>10, ProperIdle
  <1>12. QED
    BY <1>3, <1>11, InvLooks

LEMMA InvServe ==
  ASSUME Inv, NEW c \in Clients, Serve(c)
  PROVE  Inv'
  <1>1. PICK op, rows : op = Head(client[c].todo) /\ rows = client[c].row
    OBVIOUS
  <1>2. Proper(c, client[c]) /\ client[c].phase = "sent" /\ client[c].rows \in SUBSET Rows
    BY DEF Serve, Inv, Commands, Proper, States
  <1>3. PICK recurred : recurred = Recurs(note, op, rows)
    OBVIOUS
  <1>4. Proper(c, Refused(c)) /\ Proper(c, Answered(c, recurred)) /\ Proper(c, Idle(client[c].rows))
    BY <1>2, ProperRefused, ProperAnswered, ProperIdle
  <1>5. PICK state : Proper(c, state) /\ client' = [client EXCEPT ![c] = state]
    BY <1>1, <1>3, <1>4 DEF Serve
  <1>6. Commands'
    BY <1>5, CommandsStep DEF Inv
  <1>7. Bounds'
    <2>1. faults' \in 0..session.faults
      BY RequestsAssumption DEF Serve, Inv, Bounds
    <2>2. QED
      BY <2>1, BoundsKept DEF Serve, Inv, Bounds
  <1>8. Notes'
    <2>1. CASE UNCHANGED <<note, indexed, nextId>>
      BY <2>1 DEF Inv, Notes, Numbered
    <2>2. CASE ~UNCHANGED <<note, indexed, nextId>>
      <3>1. /\ note' \in Attempt(note, op, rows) /\ indexed' \in {indexed, note'}
            /\ nextId' = IF op.name = "add" \/ Recurs(note, op, rows) THEN nextId + 1 ELSE nextId
        BY <1>1, <2>2 DEF Serve
      <3>2. nextId' \in {nextId, nextId + 1} /\ (Adds(note, op, rows) => nextId' = nextId + 1)
        BY <3>1 DEF Adds
      <3>3. QED
        BY <1>1, <1>2, <3>1, <3>2, ServedNumbers
    <2>3. QED
      BY <2>1, <2>2
  <1>9. QED
    BY <1>6, <1>7, <1>8 DEF Inv

LEMMA InvLose ==
  ASSUME Inv, NEW c \in Clients, Lose(c)
  PROVE  Inv'
  <1>1. PICK op, rows : op = Head(client[c].todo) /\ rows = client[c].row
    OBVIOUS
  <1>2. client \in [Clients -> States] /\ client[c].phase = "sent" /\ client[c].rows \in SUBSET Rows
    BY DEF Lose, Inv, Commands, States
  <1>3. PICK state : state = Idle(client[c].rows)
    OBVIOUS
  <1>4. Proper(c, state) /\ client' = [client EXCEPT ![c] = state]
    BY <1>2, <1>3, ProperIdle DEF Lose
  <1>5. Commands'
    BY <1>4, CommandsStep DEF Inv
  <1>6. Bounds'
    <2>1. faults' \in 0..session.faults
      BY RequestsAssumption DEF Lose, Inv, Bounds
    <2>2. QED
      BY <2>1, BoundsKept DEF Lose, Inv, Bounds
  <1>7. note' \in Attempt(note, op, rows) /\ indexed' \in {indexed, note'} /\ nextId' = nextId + 1
    BY <1>1 DEF Lose
  <1>8. Notes'
    BY <1>1, <1>2, <1>7, ServedNumbers
  <1>9. QED
    BY <1>5, <1>6, <1>8 DEF Inv

LEMMA NoMeta == <<>> \in Seq(MarkSet)
  OBVIOUS

LEMMA EditedCases ==
  ASSUME NEW old, NEW lines \in Edited(old), nextId \in Nat
  PROVE  \/ \E l \in Line : l.id = nextId /\ lines = <<l>> \o old
         \/ old # <<>> /\ lines = Tail(old)
         \/ old # <<>> /\ lines = [old EXCEPT ![1] = Completed(old[1])]
  <1> DEFINE new == [id : {nextId}, box : {"plain", " "}, text : Texts, meta : {<<>>}]
             above == {<<l>> \o old : l \in new}
  <1>1. PICK checked : checked = [old EXCEPT ![1] = Completed(old[1])]
    OBVIOUS
  <1>2. lines \in above \cup (IF old = <<>> THEN {} ELSE {Tail(old)} \cup
                               (IF IsTask(old[1]) THEN {checked} ELSE {}))
    BY <1>1 DEF Edited
  <1>3. \A l \in new : l \in Line /\ l.id = nextId
    BY NoMeta DEF Line, Boxes
  <1> HIDE DEF new
  <1>4. lines \in above => \E l \in Line : l.id = nextId /\ lines = <<l>> \o old
    BY <1>3
  <1> HIDE DEF above
  <1>5. QED
    BY <1>1, <1>2, <1>4, Zenon

LEMMA InvEdit ==
  ASSUME Inv, Edit
  PROVE  Inv'
  <1>1. PICK old : old = note.lines
    OBVIOUS
  <1>2. PICK lines \in Edited(old) : note' = [note EXCEPT !.lines = lines]
    BY <1>1 DEF Edit
  <1>3. note \in Note /\ indexed \in Note /\ nextId \in Nat \ {0} /\ Numbered(note) /\ Numbered(indexed) /\ old \in Seq(Line)
    BY <1>1 DEF Inv, Notes, Note
  <1>4. /\ lines \in Seq(Line)
        /\ \A i \in DOMAIN lines : lines[i].id \in 1..nextId
        /\ \A i, j \in DOMAIN lines : lines[i].id = lines[j].id => i = j
    <2>1. CASE \E l \in Line : l.id = nextId /\ lines = <<l>> \o old
      <3>1. PICK l \in Line : l.id = nextId /\ lines = <<l>> \o old
        BY <2>1
      <3>2. /\ lines \in Seq(Line) /\ Len(lines) = Len(old) + 1 /\ DOMAIN lines = 1..Len(lines)
            /\ Len(old) \in Nat /\ DOMAIN old = 1..Len(old)
            /\ lines[1] = l /\ \A i \in 2..Len(lines) : lines[i] = old[i - 1]
        BY <1>3, <3>1
      <3>3. \A i \in 1..Len(old) : old[i].id \in 1..(nextId - 1)
        BY <1>1, <1>3, <3>2 DEF Numbered
      <3>4. \A i, j \in 1..Len(old) : old[i].id = old[j].id => i = j
        BY <1>1, <1>3, <3>2 DEF Numbered
      <3>5. \A i \in 2..Len(lines) : i - 1 \in 1..Len(old) /\ lines[i].id \in 1..(nextId - 1)
        BY <3>2, <3>3
      <3>6. \A i \in 1..Len(lines) : i = 1 \/ i \in 2..Len(lines)
        OBVIOUS
      <3>7. \A i \in DOMAIN lines : lines[i].id \in 1..nextId
        BY <1>3, <3>1, <3>2, <3>5, <3>6
      <3>8. \A i, j \in DOMAIN lines : lines[i].id = lines[j].id => i = j
        BY <1>3, <3>1, <3>2, <3>4, <3>5, <3>6
      <3>9. QED
        BY <3>2, <3>7, <3>8
    <2>2. CASE old # <<>> /\ lines = Tail(old)
      <3>1. /\ lines \in Seq(Line) /\ \A i \in DOMAIN lines : i + 1 \in DOMAIN old /\ lines[i] = old[i + 1]
            /\ DOMAIN lines \subseteq Nat
        BY <1>3, <2>2
      <3>2. \A i \in DOMAIN old : old[i].id \in 1..(nextId - 1)
        BY <1>1, <1>3 DEF Numbered
      <3>3. \A i, j \in DOMAIN old : old[i].id = old[j].id => i = j
        BY <1>1, <1>3 DEF Numbered
      <3>4. \A i \in DOMAIN lines : lines[i].id \in 1..nextId
        BY <1>3, <3>1, <3>2
      <3>5. \A i, j \in DOMAIN lines : lines[i].id = lines[j].id => i = j
        <4> SUFFICES ASSUME NEW i \in DOMAIN lines, NEW j \in DOMAIN lines, lines[i].id = lines[j].id PROVE i = j
          OBVIOUS
        <4>1. i + 1 = j + 1
          BY <3>1, <3>3
        <4>2. QED
          BY <3>1, <4>1
      <3>6. QED
        BY <3>1, <3>4, <3>5
    <2>3. CASE old # <<>> /\ lines = [old EXCEPT ![1] = Completed(old[1])]
      <3>1. 1 \in DOMAIN old /\ old[1] \in Line
        BY <1>3, <2>3
      <3>2. Completed(old[1]) \in Line /\ Completed(old[1]).id = old[1].id
        BY <3>1, CompletedLine
      <3>3. lines \in Seq(Line) /\ DOMAIN lines = DOMAIN old
        BY <1>3, <2>3, <3>2
      <3>4. \A i \in DOMAIN old : lines[i].id = old[i].id
        BY <2>3, <3>1, <3>2
      <3>5. \A i \in DOMAIN old : old[i].id \in 1..(nextId - 1)
        BY <1>1, <1>3 DEF Numbered
      <3>6. \A i, j \in DOMAIN old : old[i].id = old[j].id => i = j
        BY <1>1, <1>3 DEF Numbered
      <3>7. \A i \in DOMAIN lines : lines[i].id \in 1..nextId
        BY <1>3, <3>3, <3>4, <3>5
      <3>8. QED
        BY <3>3, <3>4, <3>6, <3>7
    <2>4. QED
      BY <1>2, <1>3, <2>1, <2>2, <2>3, EditedCases
  <1>5. note' \in Note /\ note'.lines = lines
    BY <1>2, <1>3, <1>4 DEF Note
  <1>6. nextId' = nextId + 1 /\ indexed' = indexed
    BY DEF Edit
  <1>7. Numbered(note)' /\ Numbered(indexed)'
    BY <1>3, <1>4, <1>5, <1>6 DEF Numbered
  <1>8. Notes'
    BY <1>3, <1>5, <1>6, <1>7 DEF Notes
  <1>9. Commands'
    BY DEF Edit, Inv, Commands
  <1>10. edits' \in 0..session.edits
    BY RequestsAssumption DEF Edit, Inv, Bounds
  <1>11. Bounds'
    BY <1>10, BoundsKept DEF Edit, Inv, Bounds
  <1>12. QED
    BY <1>8, <1>9, <1>11 DEF Inv

LEMMA InvRescan ==
  ASSUME Inv, Rescan
  PROVE  Inv'
  BY DEF Rescan, Inv, Notes, Numbered, Commands, Bounds

LEMMA InvNext == Inv /\ [Next]_vars => Inv'
  <1> SUFFICES ASSUME Inv, [Next]_vars PROVE Inv'
    OBVIOUS
  <1>1. CASE UNCHANGED vars
    BY <1>1 DEF vars, Inv, Notes, Numbered, Commands, Bounds
  <1>2. CASE Next
    BY <1>2, InvAsk, InvListed, InvServe, InvLose, InvFind, InvEdit, InvRescan DEF Next
  <1>3. QED
    BY <1>1, <1>2

\* Whatever clients, the editor, the rescans and the failures do, the invariant holds.
THEOREM TaskInvariant == Spec => []Inv
  BY InvInit, InvNext, PTL DEF Spec

-----------------------------------------------------------------------------
(* The properties.                                                         *)

\* The lines of the note keep their numbers apart, and a client that waits has a
\* request to wait for.
THEOREM TaskTypes == Spec => []TypeOK
  <1>1. Inv => TypeOK
    <2> SUFFICES ASSUME Inv PROVE TypeOK
      OBVIOUS
    <2>1. ASSUME NEW n \in {note, indexed}
          PROVE  /\ n \in Note /\ \A i \in DOMAIN n.lines : n.lines[i].id \in 1..(nextId - 1)
                 /\ \A i, j \in DOMAIN n.lines : n.lines[i].id = n.lines[j].id => i = j
      BY DEF Inv, Notes, Numbered
    <2>2. ASSUME NEW c \in Clients
          PROVE  /\ client[c].phase \in {"idle", "sent", "finding", "loading"}
                 /\ (client[c].todo # <<>>) <=> client[c].phase \in {"sent", "finding"}
                 /\ client[c].again => c \in Terminals
      <3>1. Proper(c, client[c])
        BY DEF Inv, Commands
      <3>2. QED
        BY <3>1 DEF Proper, States
    <2>3. QED
      BY <2>1, <2>2 DEF TypeOK, Inv, Bounds
  <1>2. QED
    BY <1>1, TaskInvariant, PTL

\* A step that a client's request is served in.
LEMMA ServedBy ==
  ASSUME Inv, [Next]_vars, NEW c \in Clients, ServedTo(c)
  PROVE  /\ client[c].phase = "sent"
         /\ note' = note \/ note' \in Attempt(note, Head(client[c].todo), client[c].row)
  <1>1. client[c].phase = "sent" /\ client'[c] # client[c] /\ client \in [Clients -> States]
    BY DEF ServedTo, Inv, Commands
  <1>2. ~UNCHANGED vars /\ ~Edit /\ ~Rescan
    BY <1>1 DEF vars, Edit, Rescan
  <1>3. PICK d \in Clients : Ask(d) \/ Refresh(d) \/ Load(d) \/ Serve(d) \/ Lose(d) \/ Find(d)
    BY <1>2 DEF Next
  <1>4. \E state : client' = [client EXCEPT ![d] = state]
    BY <1>3 DEF Ask, Asking, Refresh, Load, Serve, Lose, Find
  <1>5. d = c
    BY <1>1, <1>4
  <1>6. Serve(c) \/ Lose(c)
    BY <1>1, <1>3, <1>5 DEF Ask, Refresh, Load, Find
  <1>7. QED
    BY <1>1, <1>6 DEF Serve, Lose

\* What the properties need of it: where the lines that stay are in the new note.
LEMMA ServedKeeps ==
  ASSUME Inv, [Next]_vars, NEW c \in Clients, ServedTo(c), NEW op, op = Head(client[c].todo)
  PROVE  \E places, gone, to :
            /\ Keeps(note.lines, note'.lines, places, gone, TRUE, to) /\ gone \subseteq places
            /\ \A i \in places : /\ i \in DOMAIN note.lines
                                 /\ \E a \in client[c].asked : a.text = Text(note.lines[i])
            /\ \A i \in gone : /\ Status(note.lines[i]) = "cancelled"
                               /\ \E a \in client[c].asked : a.status = "cancelled" /\ a.text = Text(note.lines[i])
  <1>1. CASE note' = note
    <2>1. PICK none, to : none = {} /\ to = [i \in DOMAIN note.lines |-> i]
      OBVIOUS
    <2>2. Keeps(note.lines, note'.lines, none, none, TRUE, to)
      BY <1>1, <2>1 DEF Keeps
    <2>3. none \subseteq none /\ ~(\E i : i \in none)
      BY <2>1
    <2>4. QED
      BY <2>2, <2>3
  <1>2. CASE note' \in Attempt(note, op, client[c].row)
    <2>1. PICK rows, new : rows = client[c].row /\ new = note'
      OBVIOUS
    <2>2. /\ op \in Ops /\ Fits(client[c].asked, op)
          /\ \E to : Keeps(note.lines, new.lines, {r.at : r \in rows}, Gone(op, rows), Adds(note, op, rows), to)
          /\ \A r \in rows : /\ r \in Rows /\ Accepts(note, op, r)
                             /\ r.at \in DOMAIN note.lines /\ Text(note.lines[r.at]) = r.text
                             /\ \E a \in client[c].asked : a.text = r.text
      <3>1. client[c].phase = "sent" /\ new \in Attempt(note, op, rows)
        BY <1>2, <2>1, ServedBy
      <3>2. op \in Ops /\ Fits(client[c].asked, op)
        BY <2>1, <3>1, ServedIs
      <3>3. \E to : Keeps(note.lines, new.lines, {r.at : r \in rows}, Gone(op, rows), Adds(note, op, rows), to)
        BY <2>1, <3>1, ServedIs
      <3>4. \A r \in rows : /\ r \in Rows /\ Accepts(note, op, r)
                             /\ r.at \in DOMAIN note.lines /\ Text(note.lines[r.at]) = r.text
                             /\ \E a \in client[c].asked : a.text = r.text
        BY <2>1, <3>1, ServedIs
      <3>5. QED
        BY <3>2, <3>3, <3>4
    <2>3. PICK places, gone : places = {r.at : r \in rows} /\ gone = Gone(op, rows)
      OBVIOUS
    <2>4. PICK to : Keeps(note.lines, new.lines, places, gone, Adds(note, op, rows), to)
      BY <2>2, <2>3
    <2>5. Keeps(note.lines, new.lines, places, gone, TRUE, to)
      BY <2>4 DEF Keeps
    <2>6. gone \subseteq places
      BY <2>3 DEF Gone
    <2>7. \A i \in places : /\ i \in DOMAIN note.lines
                            /\ \E a \in client[c].asked : a.text = Text(note.lines[i])
      BY <2>2, <2>3
    <2>8. ASSUME NEW i \in gone
          PROVE  /\ Status(note.lines[i]) = "cancelled"
                 /\ \E a \in client[c].asked : a.status = "cancelled" /\ a.text = Text(note.lines[i])
      <3>1. op.name = "purge"
        BY <2>3 DEF Gone
      <3>2. PICK r \in rows : i = r.at
        BY <2>3, <2>6
      <3>3. Status(note.lines[i]) = "cancelled"
        BY <2>2, <3>1, <3>2 DEF Accepts, AcceptsPurge, At
      <3>4. QED
        BY <2>2, <3>1, <3>2, <3>3 DEF Fits
    <2>9. QED
      BY <2>1, <2>5, <2>6, <2>7, <2>8
  <1>3. QED
    BY <1>1, <1>2, ServedBy

\* A text is a task's identity (findTask): whatever happens between the listing and
\* the write, a request changes and removes only tasks of a text it was given for,
\* adds at most one open line, and leaves every other line as it was, in its place.
THEOREM TaskOnlyAskedTextChanges == Spec => OnlyAskedTextChanges
  <1>1. ASSUME Inv, [Next]_vars, NEW c \in Clients, ServedTo(c) PROVE ChangesOnlyAsked(c)
    <2>1. PICK old, new : old = note.lines /\ new = note'.lines
      OBVIOUS
    <2>2. PICK places, gone, to :
            /\ Keeps(old, new, places, gone, TRUE, to) /\ gone \subseteq places
            /\ \A i \in places : /\ i \in DOMAIN old
                                 /\ \E a \in client[c].asked : a.text = Text(old[i])
      BY <1>1, <2>1, ServedKeeps
    <2>3. PICK stay : stay = DOMAIN old \ gone
      OBVIOUS
    <2>4. /\ \A i \in DOMAIN old : old[i].id \in 1..(nextId - 1)
          /\ \A i, j \in DOMAIN old : old[i].id = old[j].id => i = j
          /\ nextId \in Nat
      BY <1>1, <2>1 DEF Inv, Notes, Numbered
    <2>5. /\ \A i, j \in stay : i < j => to[i] < to[j]
          /\ \A i \in stay : to[i] \in DOMAIN new /\ new[to[i]].id = old[i].id /\ (i \notin places => new[to[i]] = old[i])
          /\ \A k \in DOMAIN new : (\E i \in stay : to[i] = k) \/ (new[k].id = nextId /\ Status(new[k]) = "open")
      BY <2>2, <2>3 DEF Keeps
    <2>6. ASSUME NEW l \in Lines(old) \ Lines(new) PROVE \E a \in client[c].asked : a.text = Text(l)
      <3>1. PICK i \in DOMAIN old : l = old[i]
        BY DEF Lines
      <3>2. i \in stay => i \in places
        BY <2>5, <3>1 DEF Lines
      <3>3. i \in places
        BY <2>2, <2>3, <3>2
      <3>4. QED
        BY <2>2, <3>1, <3>3
    <2>7. ASSUME NEW k \in DOMAIN new, NEW i \in DOMAIN old, new[k].id = old[i].id
          PROVE  i \in stay /\ to[i] = k
      <3>1. new[k].id # nextId
        BY <2>4, <2>7
      <3>2. PICK j \in stay : to[j] = k
        BY <2>5, <3>1
      <3>3. QED
        BY <2>3, <2>4, <2>5, <2>7, <3>2
    <2>8. ASSUME NEW l \in Lines(new), NEW m \in Lines(new), NEW i \in DOMAIN old, NEW j \in DOMAIN old,
                 i < j, old[i] = l, old[j] = m
          PROVE  \E p, q \in DOMAIN new : p < q /\ new[p] = l /\ new[q] = m
      <3>1. PICK p \in DOMAIN new, q \in DOMAIN new : new[p] = l /\ new[q] = m
        BY DEF Lines
      <3>2. to[i] = p /\ to[j] = q /\ i \in stay /\ j \in stay
        BY <2>7, <2>8, <3>1
      <3>3. p < q
        BY <2>5, <2>8, <3>2
      <3>4. QED
        BY <3>1, <3>3
    <2>9. ASSUME NEW l \in Lines(new), l.id >= nextId PROVE l.id = nextId /\ Status(l) = "open"
      <3>1. PICK k \in DOMAIN new : l = new[k]
        BY DEF Lines
      <3>2. ASSUME NEW i \in stay, to[i] = k PROVE FALSE
        <4>1. new[k].id \in 1..(nextId - 1)
          BY <2>3, <2>4, <2>5, <3>2
        <4>2. QED
          BY <2>4, <2>9, <3>1, <4>1
      <3>3. QED
        BY <2>5, <3>1, <3>2
    <2>10. QED
      BY <2>1, <2>6, <2>8, <2>9 DEF ChangesOnlyAsked, Precedes
  <1>2. Inv /\ [Next]_vars => [\A c \in Clients : ServedTo(c) => ChangesOnlyAsked(c)]_vars
    BY <1>1
  <1>3. QED
    BY <1>2, TaskInvariant, PTL DEF Spec, OnlyAskedTextChanges

\* Deletion takes two steps (purge.go): a line leaves the note only by a request of a
\* client that was shown it cancelled, and it is cancelled then.
THEOREM TaskOnlyShownCancelledGoes == Spec => OnlyShownCancelledGoes
  <1>1. ASSUME Inv, [Next]_vars, NEW c \in Clients, ServedTo(c) PROVE RemovesOnlyShown(c)
    <2>1. PICK old, new : old = note.lines /\ new = note'.lines
      OBVIOUS
    <2>2. PICK places, gone, to :
            /\ Keeps(old, new, places, gone, TRUE, to)
            /\ \A i \in gone : /\ Status(old[i]) = "cancelled"
                               /\ \E a \in client[c].asked : a.status = "cancelled" /\ a.text = Text(old[i])
      BY <1>1, <2>1, ServedKeeps
    <2>3. ASSUME NEW l \in Lines(old), \A m \in Lines(new) : m.id # l.id
          PROVE  /\ Status(l) = "cancelled"
                 /\ \E r \in client[c].asked : r.status = "cancelled" /\ r.text = Text(l)
      <3>1. PICK i \in DOMAIN old : l = old[i]
        BY DEF Lines
      <3>2. i \notin gone => to[i] \in DOMAIN new /\ new[to[i]].id = l.id
        BY <2>2, <3>1 DEF Keeps
      <3>3. i \in gone
        BY <2>3, <3>2 DEF Lines
      <3>4. QED
        BY <2>2, <3>1, <3>3
    <2>4. QED
      BY <2>1, <2>3 DEF RemovesOnlyShown
  <1>2. Inv /\ [Next]_vars => [\A c \in Clients : ServedTo(c) => RemovesOnlyShown(c)]_vars
    BY <1>1
  <1>3. QED
    BY <1>2, TaskInvariant, PTL DEF Spec, OnlyShownCancelledGoes

LEMMA AppendDiffers ==
  ASSUME NEW T, NEW s \in Seq(T), NEW e
  PROVE  Append(s, e) # s
  <1>1. Len(Append(s, e)) = Len(s) + 1 /\ Len(s) \in Nat
    OBVIOUS
  <1>2. QED
    BY <1>1

\* A rewritten line is another line, but for a task that is in the backlog already.
LEMMA RewrittenDiffers ==
  ASSUME NEW op \in Ops, op.name \in {"cancel", "triage"}, NEW l \in Line, Status(l) = "open",
         Rewritten(l, op) = l
  PROVE  op.name = "triage" /\ op.new.name = "backlog" /\ Places(l, "tag") # {}
  <1>1. l.box = " " /\ l.meta \in Seq(MarkSet)
    BY DEF Status, Line
  <1>2. Cancelled(l) # l
    BY <1>1, CancelledLine
  <1>3. CASE op.name = "cancel"
    BY <1>2, <1>3 DEF Rewritten
  <1>4. CASE op.name = "triage"
    <2>1. Triaged(l, op.new) = l /\ op.new.name \in {"backlog", "reference", "cancel", "due"}
      <3>1. op.new \in Triages
        BY <1>4 DEF Ops
      <3>2. Triaged(l, op.new) = l
        BY <1>4 DEF Rewritten
      <3>3. QED
        BY <3>1, <3>2 DEF Triages
    <2>2. op.new.name # "cancel"
      BY <1>2, <2>1 DEF Triaged
    <2>3. op.new.name # "reference"
      BY <1>1, <2>1 DEF Triaged, Line
    <2>4. op.new.name # "due"
      BY <1>1, <2>1, AppendDiffers DEF Triaged, Line
    <2>5. op.new.name = "backlog" => Places(l, "tag") # {}
      BY <1>1, <2>1, AppendDiffers DEF Triaged, Line
    <2>6. QED
      BY <1>4, <2>1, <2>2, <2>3, <2>4, <2>5
  <1>5. QED
    BY <1>3, <1>4

\* A batch is applied whole or not at all (cancel.go, triage.go): every task the
\* request names is rewritten, or none.
THEOREM TaskBatchIsWhole == Spec => BatchIsWhole
  <1>1. ASSUME Inv, [Next]_vars, NEW c \in Clients, ServedTo(c) PROVE RewritesAll(c)
    <2>1. PICK op, rows, new : op = Head(client[c].todo) /\ rows = client[c].row /\ new = note'
      OBVIOUS
    <2> SUFFICES ASSUME new.lines # note.lines, op.name \in {"cancel", "purge", "triage"}, NEW r \in rows
                 PROVE  /\ r.at \in DOMAIN note.lines
                        /\ At(note, r) \in Lines(new.lines) =>
                             op.name = "triage" /\ op.new.name = "backlog" /\ Places(At(note, r), "tag") # {}
      BY <2>1 DEF RewritesAll
    <2>2. client[c].phase = "sent" /\ new \in Attempt(note, op, rows)
      BY <1>1, <2>1, ServedBy
    <2>3. /\ op \in Ops /\ Accepts(note, op, r) /\ r.at \in DOMAIN note.lines
          /\ \E to : Keeps(note.lines, new.lines, {q.at : q \in rows}, Gone(op, rows), Adds(note, op, rows), to)
      BY <1>1, <2>1, <2>2, ServedIs
    <2>4. PICK old, lines, i : old = note.lines /\ lines = new.lines /\ i = r.at
      OBVIOUS
    <2>5. /\ i \in DOMAIN old /\ old \in Seq(Line) /\ At(note, r) = old[i] /\ nextId \in Nat /\ note \in Note
          /\ \A k \in DOMAIN old : old[k].id \in 1..(nextId - 1)
          /\ \A k, j \in DOMAIN old : old[k].id = old[j].id => k = j
      BY <1>1, <2>3, <2>4 DEF At, Inv, Notes, Numbered, Note
    <2>6. SUFFICES ASSUME NEW k \in DOMAIN lines, lines[k] = old[i]
                   PROVE  op.name = "triage" /\ op.new.name = "backlog" /\ Places(old[i], "tag") # {}
      BY <2>3, <2>4, <2>5 DEF Lines
    <2>7. CASE op.name = "purge"
      <3>1. PICK places, gone : places = {q.at : q \in rows} /\ gone = Gone(op, rows)
        OBVIOUS
      <3>2. PICK to : Keeps(old, lines, places, gone, Adds(note, op, rows), to)
        BY <2>3, <2>4, <3>1
      <3>3. i \in gone
        BY <2>4, <2>7, <3>1 DEF Gone
      <3>4. lines[k].id # nextId
        BY <2>5, <2>6
      <3>5. PICK j \in DOMAIN old \ gone : to[j] = k /\ lines[k].id = old[j].id
        BY <3>2, <3>4 DEF Keeps
      <3>6. QED
        BY <2>5, <2>6, <3>3, <3>5
    <2>8. CASE op.name \in {"cancel", "triage"}
      <3>1. PICK places : places = {q.at : q \in rows}
        OBVIOUS
      <3>2. PICK plain : plain = [j \in DOMAIN old |-> IF j \in places THEN Rewritten(old[j], op) ELSE old[j]]
        OBVIOUS
      <3>3. WritesLines(note, op, rows, plain)
        BY <2>4, <2>8, <3>1, <3>2 DEF WritesLines, Recurs
      <3>4. new = [note EXCEPT !.lines = plain]
        BY <2>2, <3>3, WrittenIs DEF Attempt
      <3>5. lines = plain
        BY <2>4, <2>5, <3>4 DEF Note
      <3>6. k \in DOMAIN old /\ lines[k].id = old[k].id
        BY <2>3, <2>5, <2>8, <3>2, <3>5, RewrittenLine DEF Rewrites
      <3>7. k = i
        BY <2>5, <2>6, <3>6
      <3>8. Rewritten(old[i], op) = old[i]
        BY <2>4, <2>6, <3>1, <3>2, <3>5, <3>6, <3>7
      <3>9. Status(old[i]) = "open"
        BY <2>3, <2>5, <2>8 DEF Accepts, AcceptsCancel, AcceptsTriage
      <3>10. QED
        BY <2>3, <2>5, <2>8, <3>8, <3>9, RewrittenDiffers
    <2>9. QED
      BY <2>7, <2>8
  <1>2. Inv /\ [Next]_vars => [\A c \in Clients : ServedTo(c) => RewritesAll(c)]_vars
    BY <1>1
  <1>3. QED
    BY <1>2, TaskInvariant, PTL DEF Spec, BatchIsWhole

=============================================================================
