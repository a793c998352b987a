------------------------------ MODULE FormProofs ------------------------------
(***************************************************************************)
(* Proofs about FormRecords, for every set of requests, fields, files and  *)
(* patches: the types, and what is promised of the records.                *)
(*                                                                         *)
(* A request keeps what it has read; unless another one about the same     *)
(* thing overlapped, which raced then has (PairsRaced), the tables say so  *)
(* still when it writes.  Each promise has an invariant of its own of what *)
(* the requests in flight have read.                                       *)
(***************************************************************************)
EXTENDS FormRecords, FiniteSetTheorems, SequenceTheorems, WellFoundedInduction, TLAPS

-----------------------------------------------------------------------------
(* Numbers and sequences.                                                  *)

LEMMA NatWellFounded == \E R : IsWellFoundedOn(R, Nat) /\ \A m, n \in Nat : m < n => <<m, n>> \in R
<1> DEFINE R == OpToRel(<, Nat)
<1>1. IsWellFoundedOn(R, Nat)
  BY NatLessThanWellFounded
<1>2. \A m, n \in Nat : m < n => <<m, n>> \in R
  BY DEF OpToRel
<1> HIDE DEF R
<1>3. QED
  BY <1>1, <1>2

\* Induction up to a number, over a set.
LEMMA UpToLength ==
  ASSUME NEW L \in Nat, NEW S, 0 \in S, \A i \in 0..(L - 1) : i \in S => i + 1 \in S
  PROVE  0..L \subseteq S
<1> DEFINE T == (0..L) \ S
<1>1. T \subseteq Nat
  OBVIOUS
<1>2. \A n \in T : n - 1 \in T /\ n - 1 < n
  <2>1. SUFFICES ASSUME NEW n \in T PROVE n - 1 \in T /\ n - 1 < n
    OBVIOUS
  <2>2. n \in Nat /\ n <= L /\ n # 0 /\ n \notin S
    OBVIOUS
  <2>3. n - 1 \in 0..(L - 1) /\ n - 1 \in 0..L /\ (n - 1) + 1 = n /\ n - 1 < n
    BY <2>2
  <2>4. n - 1 \notin S
    BY <2>2, <2>3
  <2>5. QED
    BY <2>3, <2>4
<1>3. 0..L \ S = T
  OBVIOUS
<1> HIDE DEF T
<1>4. SUFFICES ASSUME T # {} PROVE FALSE
  BY <1>3
<1>5. PICK R : IsWellFoundedOn(R, Nat) /\ \A m, n \in Nat : m < n => <<m, n>> \in R
  BY NatWellFounded
<1>6. PICK n \in T : \A m \in T : ~ (<<m, n>> \in R)
  <2>1. IsWellFoundedOn(R, Nat)
    BY <1>5
  <2>2. QED
    BY <1>1, <1>4, <2>1, WFMin
<1>7. n - 1 \in T /\ n - 1 < n
  BY <1>2, <1>6
<1>8. n \in Nat /\ n - 1 \in Nat
  BY <1>1, <1>6, <1>7
<1>9. <<n - 1, n>> \in R
  BY <1>5, <1>7, <1>8
<1>10. QED
  BY <1>6, <1>7, <1>9

IsSeq(s) == Len(s) \in Nat /\ s = [i \in 1..Len(s) |-> s[i]]

LEMMA SeqOfIts ==
  ASSUME NEW s, IsSeq(s), NEW E, \A i \in 1..Len(s) : s[i] \in E
  PROVE  s \in Seq(E)
<1>1. s \in [1..Len(s) -> E]
  BY DEF IsSeq
<1>2. QED
  BY <1>1 DEF IsSeq

LEMMA SeqIs ==
  ASSUME NEW E, NEW s \in Seq(E)
  PROVE  IsSeq(s) /\ DOMAIN s = 1..Len(s)
BY DEF IsSeq

LEMMA FunctionIsSeq ==
  ASSUME NEW n \in Nat, NEW s, DOMAIN s = 1..n, s = [i \in 1..n |-> s[i]]
  PROVE  IsSeq(s) /\ Len(s) = n
<1> DEFINE E == {s[i] : i \in 1..n}
<1>1. s \in [1..n -> E]
  OBVIOUS
<1> HIDE DEF E
<1>2. s \in Seq(E) /\ Len(s) = n
  BY <1>1
<1>3. QED
  BY <1>2 DEF IsSeq

LEMMA SeqDomain == ASSUME NEW s, IsSeq(s) PROVE DOMAIN s = 1..Len(s)
BY DEF IsSeq

LEMMA AppendIs ==
  ASSUME NEW s, IsSeq(s), NEW x
  PROVE  /\ IsSeq(Append(s, x)) /\ Len(Append(s, x)) = Len(s) + 1
         /\ DOMAIN Append(s, x) = 1..(Len(s) + 1)
         /\ \A i \in 1..Len(s) : Append(s, x)[i] = s[i]
         /\ Append(s, x)[Len(s) + 1] = x
<1> DEFINE E == {s[i] : i \in 1..Len(s)} \union {x}
<1>1. \A i \in 1..Len(s) : s[i] \in E
  OBVIOUS
<1>2. x \in E
  OBVIOUS
<1> HIDE DEF E
<1>3. s \in Seq(E)
  BY <1>1, SeqOfIts
<1>4. Len(s) \in Nat
  BY <1>3
<1>5. Append(s, x) \in Seq(E) /\ Len(Append(s, x)) = Len(s) + 1
  BY <1>2, <1>3
<1>6. \A i \in 1..Len(s) : Append(s, x)[i] = s[i]
  BY <1>3
<1>7. Append(s, x)[Len(s) + 1] = x
  BY <1>3
<1>8. IsSeq(Append(s, x)) /\ DOMAIN Append(s, x) = 1..(Len(s) + 1)
  BY <1>5, SeqIs
<1>9. QED
  BY <1>5, <1>6, <1>7, <1>8

LEMMA ConcatIs ==
  ASSUME NEW s, IsSeq(s), NEW t, IsSeq(t)
  PROVE  /\ IsSeq(s \o t) /\ Len(s \o t) = Len(s) + Len(t)
         /\ DOMAIN (s \o t) = 1..(Len(s) + Len(t))
         /\ \A i \in 1..Len(s) : (s \o t)[i] = s[i]
         /\ \A i \in 1..Len(t) : (s \o t)[Len(s) + i] = t[i]
<1> DEFINE E == {s[i] : i \in 1..Len(s)} \union {t[i] : i \in 1..Len(t)}
<1>1. (\A i \in 1..Len(s) : s[i] \in E) /\ \A i \in 1..Len(t) : t[i] \in E
  OBVIOUS
<1> HIDE DEF E
<1>2. s \in Seq(E) /\ t \in Seq(E)
  BY <1>1, SeqOfIts
<1>3. s \o t \in Seq(E) /\ Len(s \o t) = Len(s) + Len(t)
  BY <1>2
<1>4. Len(s) \in Nat /\ Len(t) \in Nat
  BY DEF IsSeq
<1>5. \A i \in 1..Len(s) : (s \o t)[i] = s[i]
  BY <1>2
<1>6. \A i \in 1..Len(t) : (s \o t)[Len(s) + i] = t[i]
  <2>1. SUFFICES ASSUME NEW i \in 1..Len(t) PROVE (s \o t)[Len(s) + i] = t[i]
    OBVIOUS
  <2>2. Len(s) + i \in 1..(Len(s) + Len(t)) /\ ~(Len(s) + i <= Len(s)) /\ (Len(s) + i) - Len(s) = i
    BY <1>4
  <2>3. QED
    BY <1>2, <1>4, <2>2
<1>7. QED
  BY <1>3, <1>5, <1>6, SeqIs

LEMMA LongerIs ==
  ASSUME NEW s, IsSeq(s), NEW t, IsSeq(t), NEW u, u = s \o t
  PROVE  /\ IsSeq(u) /\ Len(u) = Len(s) + Len(t) /\ DOMAIN u = 1..(Len(s) + Len(t))
         /\ \A i \in 1..Len(s) : u[i] = s[i]
         /\ \A i \in 1..Len(t) : u[Len(s) + i] = t[i]
BY ConcatIs

LEMMA MappedIs ==
  ASSUME NEW s, IsSeq(s), NEW t, t = [i \in DOMAIN s |-> t[i]]
  PROVE  IsSeq(t) /\ Len(t) = Len(s) /\ DOMAIN t = DOMAIN s
<1>1. DOMAIN s = 1..Len(s) /\ Len(s) \in Nat
  BY DEF IsSeq
<1>2. QED
  BY <1>1, FunctionIsSeq

LEMMA ExceptIs ==
  ASSUME NEW s, IsSeq(s), NEW i, NEW x
  PROVE  LET t == [s EXCEPT ![i] = x] IN IsSeq(t) /\ Len(t) = Len(s) /\ DOMAIN t = DOMAIN s
<1> DEFINE t == [s EXCEPT ![i] = x]
<1>1. t = [j \in DOMAIN s |-> t[j]]
  OBVIOUS
<1> HIDE DEF t
<1>2. IsSeq(t) /\ Len(t) = Len(s) /\ DOMAIN t = DOMAIN s
  BY <1>1, MappedIs
<1>3. QED
  BY <1>2 DEF t

LEMMA PartIs ==
  ASSUME NEW s, IsSeq(s), NEW m \in Nat, NEW n \in Nat, m >= 1, m <= n + 1, n <= Len(s)
  PROVE  /\ IsSeq(SubSeq(s, m, n)) /\ Len(SubSeq(s, m, n)) = n - m + 1
         /\ \A i \in 1..(n - m + 1) : SubSeq(s, m, n)[i] = s[m + i - 1]
<1> DEFINE E == {s[i] : i \in 1..Len(s)}
<1>1. \A i \in 1..Len(s) : s[i] \in E
  OBVIOUS
<1> HIDE DEF E
<1>2. s \in Seq(E) /\ Len(s) \in Nat
  BY <1>1, SeqOfIts DEF IsSeq
<1>3. SubSeq(s, m, n) \in Seq(E) /\ Len(SubSeq(s, m, n)) = n - m + 1
      /\ \A i \in 1..(n - m + 1) : SubSeq(s, m, n)[i] = s[m + i - 1]
  BY <1>2
<1>4. QED
  BY <1>3, SeqIs

-----------------------------------------------------------------------------
(* The rows that an import takes from its file.                            *)

KeyOfRow(row) == KeyOf(row.values, row.at)
MadeOf(row, cells) ==
  /\ row.at = cells.at
  /\ \A k \in DOMAIN row.values :
       /\ k \in DOMAIN cells.values /\ ~Blank(cells.values[k])
       /\ \E field : row.values[k] = Prepared(field, cells.values[k])
Fresh(f, file, acc) ==
  /\ IsSeq(acc.rows)
  /\ Keys(f) \subseteq acc.seen
  /\ \A i \in 1..Len(acc.rows) :
       /\ KeyOfRow(acc.rows[i]) \in acc.seen \ Keys(f)
       /\ \E j \in 1..Len(file) : MadeOf(acc.rows[i], file[j])
  /\ \A i, j \in 1..Len(acc.rows) :
       i # j => KeyOfRow(acc.rows[i]) # KeyOfRow(acc.rows[j])

LEMMA TakeRowKeeps ==
  ASSUME NEW f, NEW file, NEW acc, Fresh(f, file, acc), NEW m \in 1..Len(file)
  PROVE  Fresh(f, file, TakeRow(f, acc, file[m]))
<1> DEFINE row == file[m]
           filled == {k \in DOMAIN row.values \intersect DOMAIN FieldsOf(f) : ~Blank(row.values[k])}
           values == [k \in filled |-> Prepared(FieldsOf(f)[k], row.values[k])]
           key == KeyOf(values, row.at)
           new == [values |-> values, at |-> row.at]
           next == [seen |-> Remember(acc.seen, key), rows |-> Append(acc.rows, new)]
<1>1. TakeRow(f, acc, row) = IF filled = {} \/ key \in acc.seen THEN acc ELSE next
  BY DEF TakeRow
<1>2. KeyOfRow(new) = key /\ MadeOf(new, row)
  BY DEF KeyOfRow, MadeOf
<1>3. next.seen = acc.seen \union {key} /\ next.rows = Append(acc.rows, new)
  BY DEF Remember
<1> HIDE DEF filled, values, key, new, next
<1>4. CASE ~(filled = {} \/ key \in acc.seen)
  <2>1. /\ IsSeq(next.rows) /\ Len(next.rows) = Len(acc.rows) + 1
        /\ \A i \in 1..Len(acc.rows) : next.rows[i] = acc.rows[i]
        /\ next.rows[Len(acc.rows) + 1] = new
    BY <1>3, AppendIs DEF Fresh
  <2>2. Len(acc.rows) \in Nat
    BY DEF Fresh, IsSeq
  <2>3. \A i \in 1..Len(next.rows) : i \in 1..Len(acc.rows) \/ i = Len(acc.rows) + 1
    BY <2>1, <2>2
  <2>4. key \notin Keys(f)
    BY <1>4 DEF Fresh
  <2>5. ASSUME NEW i \in 1..Len(next.rows)
        PROVE  /\ KeyOfRow(next.rows[i]) \in next.seen \ Keys(f)
               /\ \E j \in 1..Len(file) : MadeOf(next.rows[i], file[j])
    <3>1. CASE i \in 1..Len(acc.rows)
      BY <1>3, <2>1, <3>1 DEF Fresh
    <3>2. CASE i = Len(acc.rows) + 1
      BY <1>2, <1>3, <2>1, <2>4, <3>2
    <3>3. QED
      BY <2>3, <3>1, <3>2
  <2>6. ASSUME NEW i \in 1..Len(next.rows), NEW j \in 1..Len(next.rows), i # j
        PROVE  KeyOfRow(next.rows[i]) # KeyOfRow(next.rows[j])
    <3>1. CASE i \in 1..Len(acc.rows) /\ j \in 1..Len(acc.rows)
      BY <2>1, <2>6, <3>1 DEF Fresh
    <3>2. CASE i \in 1..Len(acc.rows) /\ j = Len(acc.rows) + 1
      BY <1>2, <1>4, <2>1, <3>2 DEF Fresh
    <3>3. CASE j \in 1..Len(acc.rows) /\ i = Len(acc.rows) + 1
      BY <1>2, <1>4, <2>1, <3>3 DEF Fresh
    <3>4. QED
      BY <2>3, <2>6, <3>1, <3>2, <3>3
  <2>7. Fresh(f, file, next)
    BY <1>3, <2>1, <2>5, <2>6 DEF Fresh
  <2>8. QED
    BY <1>1, <1>4, <2>7 DEF row
<1>5. CASE filled = {} \/ key \in acc.seen
  BY <1>1, <1>5 DEF row
<1>6. QED
  BY <1>4, <1>5

First(f) == [seen |-> Keys(f), rows |-> <<>>]
Taken(f, file, m, t) ==
  t = [i \in 0..m |-> IF i = 0 THEN First(f) ELSE TakeRow(f, t[i - 1], file[i])]

LEMMA TakenExists ==
  ASSUME NEW f, NEW file, Len(file) \in Nat
  PROVE  \E t : Taken(f, file, Len(file), t)
<1> DEFINE S == {m \in 0..Len(file) : \E t : Taken(f, file, m, t)}
<1>1. 0 \in S
  <2> DEFINE t == [i \in 0..0 |-> First(f)]
  <2>1. t = [i \in 0..0 |-> IF i = 0 THEN First(f) ELSE TakeRow(f, t[i - 1], file[i])]
    OBVIOUS
  <2>2. Taken(f, file, 0, t)
    BY <2>1 DEF Taken
  <2>3. QED
    BY <2>2
<1>2. ASSUME NEW m \in 0..(Len(file) - 1), m \in S
      PROVE  m + 1 \in S
  <2>1. PICK t : Taken(f, file, m, t)
    BY <1>2
  <2> DEFINE n == m + 1
             u == [i \in 0..n |-> IF i = n THEN TakeRow(f, t[m], file[n]) ELSE t[i]]
             v == [i \in 0..n |-> IF i = 0 THEN First(f) ELSE TakeRow(f, u[i - 1], file[i])]
  <2>2. m \in Nat /\ n \in Nat /\ n - 1 = m /\ n # 0 /\ m \in 0..n /\ n \in 0..n /\ n \in 0..Len(file)
    OBVIOUS
  <2>3. \A i \in 0..n : i = n \/ (i \in 0..m /\ i # n)
    BY <2>2
  <2>4. ASSUME NEW i \in 0..n
        PROVE  u[i] = v[i]
    <3>1. CASE i = n
      <4>1. u[n] = TakeRow(f, t[m], file[n])
        BY <2>2
      <4>2. u[m] = t[m]
        BY <2>2
      <4>3. v[n] = TakeRow(f, u[m], file[n])
        BY <2>2
      <4>4. QED
        BY <3>1, <4>1, <4>2, <4>3
    <3>2. CASE i \in 0..m /\ i # n
      <4>1. u[i] = t[i]
        BY <3>2
      <4>2. t[i] = IF i = 0 THEN First(f) ELSE TakeRow(f, t[i - 1], file[i])
        BY <2>1, <3>2 DEF Taken
      <4>3. i # 0 => i - 1 \in 0..n /\ i - 1 # n
        BY <2>2, <3>2
      <4>4. i # 0 => u[i - 1] = t[i - 1]
        BY <4>3
      <4>5. v[i] = IF i = 0 THEN First(f) ELSE TakeRow(f, u[i - 1], file[i])
        OBVIOUS
      <4> HIDE DEF u, v
      <4>6. QED
        BY <4>1, <4>2, <4>4, <4>5
    <3>3. QED
      BY <2>3, <3>1, <3>2
  <2>5. u = v
    <3>1. u = [i \in 0..n |-> u[i]] /\ v = [i \in 0..n |-> v[i]]
      OBVIOUS
    <3> HIDE DEF u, v
    <3>2. QED
      BY <2>4, <3>1
  <2>6. Taken(f, file, n, u)
    BY <2>5 DEF Taken
  <2> HIDE DEF u
  <2>7. QED
    BY <2>2, <2>6
<1> HIDE DEF S
<1>3. 0..Len(file) \subseteq S
  BY <1>1, <1>2, UpToLength
<1>4. Len(file) \in 0..Len(file)
  OBVIOUS
<1>5. QED
  BY <1>3, <1>4 DEF S

LEMMA QueueFacts ==
  ASSUME NEW f, NEW file, Len(file) \in Nat
  PROVE  LET queue == Queue(f, file) IN
           /\ IsSeq(queue)
           /\ \A i \in 1..Len(queue) :
                /\ KeyOfRow(queue[i]) \notin Keys(f)
                /\ \E j \in 1..Len(file) : MadeOf(queue[i], file[j])
           /\ \A i, j \in 1..Len(queue) : i # j => KeyOfRow(queue[i]) # KeyOfRow(queue[j])
<1> DEFINE t == CHOOSE t : Taken(f, file, Len(file), t)
<1>1. Taken(f, file, Len(file), t)
  BY TakenExists
<1>2. Queue(f, file) = t[Len(file)].rows
  BY DEF Queue, Taken, First
<1> HIDE DEF t
<1> DEFINE S == {m \in 0..Len(file) : Fresh(f, file, t[m])}
<1>3. 0 \in S
  <2>1. t[0] = First(f)
    BY <1>1 DEF Taken
  <2>2. First(f).seen = Keys(f) /\ First(f).rows = <<>>
    BY DEF First
  <2>3. IsSeq(<<>>) /\ Len(<<>>) = 0
    BY DEF IsSeq
  <2>4. Fresh(f, file, First(f))
    BY <2>2, <2>3 DEF Fresh
  <2>5. QED
    BY <2>1, <2>4
<1>4. ASSUME NEW m \in 0..(Len(file) - 1), m \in S
      PROVE  m + 1 \in S
  <2>1. m + 1 \in 0..Len(file) /\ m + 1 \in 1..Len(file) /\ m + 1 # 0 /\ (m + 1) - 1 = m
    OBVIOUS
  <2>2. t[m + 1] = TakeRow(f, t[m], file[m + 1])
    BY <1>1, <2>1 DEF Taken
  <2>3. Fresh(f, file, t[m + 1])
    BY <1>4, <2>1, <2>2, TakeRowKeeps
  <2>4. QED
    BY <2>1, <2>3
<1> HIDE DEF S
<1>5. 0..Len(file) \subseteq S
  BY <1>3, <1>4, UpToLength
<1>6. Len(file) \in 0..Len(file)
  OBVIOUS
<1>7. Fresh(f, file, t[Len(file)])
  BY <1>5, <1>6 DEF S
<1>8. QED
  BY <1>2, <1>7 DEF Fresh

-----------------------------------------------------------------------------
(* What holds of the tables and of the requests in flight.                 *)

Statuses == {"submitted", "generated", "imported"} \union {dto.status : dto \in Patches}

AddForm == <<"add", "form">>
DropForm == <<"drop", "form">>
EditOf(n) == <<"edit", n>>
PrintOf(n) == <<"print", n>>
ImportOf(f) == <<"import", f>>

Fields == {"op", "at", "topic", "id", "data"}
RequestOK(q, rows) ==
  /\ DOMAIN q = Fields
  /\ q.op = "deleteForm" => q.topic = {DropForm}
  /\ q.op = "submit" => q.topic = {AddForm}
  /\ q.op = "import" => q.topic = {AddForm, ImportOf(q.id)} /\ IsSeq(q.data)
  /\ q.op = "update" => q.topic = {EditOf(q.id)} /\ q.id \in rows /\ q.data.status \subseteq Statuses
  /\ q.op = "print" => q.topic = {PrintOf(q.id)} /\ q.id \in rows
  /\ q.op = "seed" => q.data \subseteq DOMAIN SeedFields
RequestsOK == DOMAIN req = Requests /\ \A r \in Requests : RequestOK(req[r], DOMAIN records)

Clash(p, q) == {p[1], q[1]} \in Clashes /\ p[2] = q[2]
PairsRaced ==
  \A r, s \in Requests : r # s =>
    \A p \in req[r].topic, q \in req[s].topic : Clash(p, q) => {p, q} \in raced

FormOK(form) ==
  DOMAIN form = {"live", "active", "fields"} /\ form.live \in BOOLEAN /\ form.active \in BOOLEAN
RecordOK(record) ==
  /\ DOMAIN record = {"live", "form", "values", "ref", "status", "at"}
  /\ record.form \in DOMAIN forms
  /\ record.live => record.form \in CurrentForm
  /\ record.status \in Statuses
StoryOK(told) == DOMAIN told = {"said", "printed", "under", "renamed", "byHand", "removed"}
TablesOK ==
  /\ IsSeq(forms) /\ IsSeq(records) /\ IsSeq(story) /\ Len(story) = Len(records)
  /\ \A f \in DOMAIN forms : FormOK(forms[f])
  /\ \A f, g \in CurrentForm : f = g
  /\ \A n \in DOMAIN records : RecordOK(records[n])
  /\ \A n \in DOMAIN story : StoryOK(story[n])

Base == RequestsOK /\ PairsRaced /\ TablesOK

-----------------------------------------------------------------------------
(* The requests.                                                           *)

LEMMA IdleIs ==
  Idle.op = "none" /\ Idle.topic = {} /\ Idle.data = None /\ Idle.id = None /\ DOMAIN Idle = Fields
BY DEF Idle, Fields

LEMMA Clashing ==
  ASSUME NEW n
  PROVE  /\ Clash(AddForm, DropForm) /\ Clash(EditOf(n), EditOf(n))
         /\ Clash(EditOf(n), PrintOf(n)) /\ Clash(ImportOf(n), ImportOf(n))
<1>1. {"add", "drop"} \in Clashes /\ {"edit", "edit"} \in Clashes
      /\ {"edit", "print"} \in Clashes /\ {"import", "import"} \in Clashes
  BY DEF Clashes
<1>2. QED
  BY <1>1 DEF Clash, AddForm, DropForm, EditOf, PrintOf, ImportOf

LEMMA ClashBoth == ASSUME NEW p, NEW q, Clash(p, q) PROVE Clash(q, p) /\ {p, q} = {q, p}
<1>1. {p[1], q[1]} = {q[1], p[1]}
  OBVIOUS
<1>2. QED
  BY <1>1 DEF Clash

LEMMA OverlapIs ==
  ASSUME NEW topic, NEW p \in topic, NEW s \in Requests, NEW q \in req[s].topic, Clash(p, q)
  PROVE  {p, q} \in Overlaps(topic)
<1> DEFINE all == UNION {req[r].topic : r \in Requests}
<1>1. q \in all
  OBVIOUS
<1> HIDE DEF all
<1> DEFINE pair == <<p, q>>
<1>2. pair \in topic \X all /\ pair[1] = p /\ pair[2] = q
  BY <1>1
<1> HIDE DEF pair
<1>3. {pair[1][1], pair[2][1]} \in Clashes /\ pair[1][2] = pair[2][2]
  BY <1>2 DEF Clash
<1>4. pair \in {x \in topic \X all : {x[1][1], x[2][1]} \in Clashes /\ x[1][2] = x[2][2]}
  BY <1>2, <1>3
<1>5. {pair[1], pair[2]} \in Overlaps(topic)
  BY <1>4 DEF Overlaps, all
<1>6. QED
  BY <1>2, <1>5

\* A request starts.
LEMMA StartsOK ==
  ASSUME RequestsOK, PairsRaced, NEW r \in Requests, NEW q, Start(r, q),
         RequestOK(q, DOMAIN records), UNCHANGED records
  PROVE  (RequestsOK /\ PairsRaced)' /\ req' = [req EXCEPT ![r] = q] /\ raced \subseteq raced'
<1>1. req' = [req EXCEPT ![r] = q] /\ raced' = raced \union Overlaps(q.topic)
  BY DEF Start
<1>2. DOMAIN req' = Requests /\ req'[r] = q /\ \A s \in Requests \ {r} : req'[s] = req[s]
  BY <1>1 DEF RequestsOK
<1>3. RequestsOK'
  BY <1>2 DEF RequestsOK
<1>4. ASSUME NEW s \in Requests \ {r}, NEW x \in q.topic, NEW y \in req[s].topic, Clash(x, y)
      PROVE  {x, y} \in raced'
  BY <1>1, <1>4, OverlapIs
<1>5. ASSUME NEW t \in Requests, NEW s \in Requests, t # s,
             NEW x \in req'[t].topic, NEW y \in req'[s].topic, Clash(x, y)
      PROVE  {x, y} \in raced'
  <2>1. CASE t = r
    BY <1>2, <1>4, <1>5, <2>1
  <2>2. CASE s = r
    <3>1. x \in req[t].topic /\ y \in q.topic /\ t \in Requests \ {r}
      BY <1>2, <1>5, <2>2
    <3>2. {y, x} \in raced'
      BY <1>4, <1>5, <3>1, ClashBoth
    <3>3. QED
      BY <1>5, <3>2, ClashBoth
  <2>3. CASE t # r /\ s # r
    <3>1. {x, y} \in raced
      BY <1>2, <1>5, <2>3 DEF PairsRaced
    <3>2. QED
      BY <1>1, <3>1
  <2>4. QED
    BY <2>1, <2>2, <2>3
<1>6. QED
  BY <1>1, <1>3, <1>5 DEF PairsRaced

\* A request goes on, or leaves; or the tables grow.
LEMMA RequestGoesOn ==
  ASSUME RequestsOK, PairsRaced, NEW r \in Requests, NEW q, req' = [req EXCEPT ![r] = q],
         q.topic \subseteq req[r].topic, RequestOK(q, DOMAIN records'), raced' = raced,
         DOMAIN records \subseteq DOMAIN records'
  PROVE  (RequestsOK /\ PairsRaced)'
<1>1. DOMAIN req' = Requests /\ req'[r] = q /\ \A s \in Requests \ {r} : req'[s] = req[s]
  BY DEF RequestsOK
<1>2. RequestsOK'
  BY <1>1 DEF RequestsOK, RequestOK
<1>3. \A s \in Requests : req'[s].topic \subseteq req[s].topic
  BY <1>1
<1>4. PairsRaced'
  BY <1>3 DEF PairsRaced
<1>5. QED
  BY <1>2, <1>4

LEMMA LeavesOK ==
  ASSUME RequestsOK, PairsRaced, NEW r \in Requests, Leave(r), DOMAIN records \subseteq DOMAIN records'
  PROVE  (RequestsOK /\ PairsRaced)' /\ req' = [req EXCEPT ![r] = Idle] /\ raced' = raced
<1>1. req' = [req EXCEPT ![r] = Idle] /\ raced' = raced
  BY DEF Leave
<1>2. Idle.topic \subseteq req[r].topic /\ RequestOK(Idle, DOMAIN records')
  BY IdleIs DEF RequestOK
<1>3. QED
  BY <1>1, <1>2, RequestGoesOn

LEMMA GoesOnOK ==
  ASSUME RequestsOK, PairsRaced, NEW r \in Requests, NEW place, NEW data, Goto(r, place, data),
         req[r].op # "update", req[r].op = "import" => IsSeq(data),
         req[r].op = "seed" => data \subseteq DOMAIN SeedFields, DOMAIN records \subseteq DOMAIN records'
  PROVE  /\ (RequestsOK /\ PairsRaced)' /\ raced' = raced
         /\ \A s \in Requests \ {r} : req'[s] = req[s]
         /\ req'[r].op = req[r].op /\ req'[r].id = req[r].id /\ req'[r].topic = req[r].topic
         /\ req'[r].at = place /\ req'[r].data = data
<1> DEFINE q == [req[r] EXCEPT !.at = place, !.data = data]
<1>1. req' = [req EXCEPT ![r] = q] /\ raced' = raced
  BY DEF Goto, RequestsOK
<1>2. DOMAIN q = Fields /\ q.op = req[r].op /\ q.topic = req[r].topic /\ q.id = req[r].id
      /\ q.at = place /\ q.data = data
  BY DEF RequestsOK, RequestOK, Fields
<1>3. RequestOK(req[r], DOMAIN records)
  BY DEF RequestsOK
<1> HIDE DEF q
<1>4. RequestOK(q, DOMAIN records')
  BY <1>2, <1>3 DEF RequestOK
<1>5. (RequestsOK /\ PairsRaced)'
  BY <1>1, <1>2, <1>4, RequestGoesOn
<1>6. req'[r] = q /\ \A s \in Requests \ {r} : req'[s] = req[s]
  BY <1>1 DEF RequestsOK
<1>7. QED
  BY <1>1, <1>2, <1>5, <1>6

LEMMA StandsStill ==
  ASSUME RequestsOK, PairsRaced, UNCHANGED <<req, raced>>, DOMAIN records \subseteq DOMAIN records'
  PROVE  (RequestsOK /\ PairsRaced)'
<1>1. RequestsOK'
  BY DEF RequestsOK, RequestOK
<1>2. PairsRaced'
  BY DEF PairsRaced
<1>3. QED
  BY <1>1, <1>2

-----------------------------------------------------------------------------
(* The steps that change the forms only.                                   *)

LEMMA CurrentIs == ASSUME NEW f PROVE f \in CurrentForm <=> f \in DOMAIN forms /\ forms[f].live
BY DEF CurrentForm

LEMMA FormsMove ==
  ASSUME TablesOK, UNCHANGED <<records, story>>, IsSeq(forms'), DOMAIN forms \subseteq DOMAIN forms',
         \A f \in DOMAIN forms' : FormOK(forms'[f]), CurrentForm \subseteq CurrentForm',
         \A f, g \in CurrentForm' : f = g
  PROVE  TablesOK'
<1>1. \A n \in DOMAIN records : RecordOK(records[n])'
  BY DEF TablesOK, RecordOK
<1>2. QED
  BY <1>1 DEF TablesOK

\* The forms keep their live.
LEMMA FieldsMove ==
  ASSUME TablesOK, UNCHANGED <<records, story>>, IsSeq(forms'), DOMAIN forms' = DOMAIN forms,
         \A f \in DOMAIN forms : FormOK(forms'[f]) /\ forms'[f].live = forms[f].live
  PROVE  TablesOK'
<1>1. CurrentForm' = CurrentForm
  BY DEF CurrentForm
<1>2. QED
  BY <1>1, FormsMove DEF TablesOK

LEMMA FieldsSetOK ==
  ASSUME TablesOK, UNCHANGED <<records, story>>, NEW f \in DOMAIN forms, NEW fields,
         forms' = [forms EXCEPT ![f].fields = fields]
  PROVE  TablesOK'
<1>1. IsSeq(forms') /\ DOMAIN forms' = DOMAIN forms
  BY ExceptIs DEF TablesOK
<1>2. ASSUME NEW g \in DOMAIN forms
      PROVE  FormOK(forms'[g]) /\ forms'[g].live = forms[g].live
  BY DEF TablesOK, FormOK
<1>3. QED
  BY <1>1, <1>2, FieldsMove

LEMMA NewFormOK ==
  ASSUME TablesOK, UNCHANGED <<records, story>>, CurrentForm = {}, forms' = Append(forms, NewForm(<<>>))
  PROVE  TablesOK'
<1>1. /\ IsSeq(forms') /\ DOMAIN forms' = 1..(Len(forms) + 1)
      /\ \A i \in 1..Len(forms) : forms'[i] = forms[i]
      /\ forms'[Len(forms) + 1] = NewForm(<<>>)
  BY AppendIs DEF TablesOK
<1>2. DOMAIN forms = 1..Len(forms) /\ Len(forms) \in Nat
  BY SeqDomain DEF TablesOK, IsSeq
<1>3. \A f \in DOMAIN forms' : f \in DOMAIN forms \/ f = Len(forms) + 1
  BY <1>1, <1>2
<1>4. FormOK(NewForm(<<>>))
  BY DEF NewForm, FormOK
<1>5. \A f \in DOMAIN forms' : FormOK(forms'[f])
  BY <1>1, <1>2, <1>3, <1>4 DEF TablesOK
<1>6. \A f \in CurrentForm' : f = Len(forms) + 1
  BY <1>1, <1>2, <1>3 DEF CurrentForm
<1>7. DOMAIN forms \subseteq DOMAIN forms'
  BY <1>1, <1>2
<1>8. QED
  BY <1>1, <1>5, <1>6, <1>7, FormsMove

LEMMA DefinitionStepsBase ==
  ASSUME Base, DefinitionSteps
  PROVE  Base' /\ UNCHANGED <<records, story, req>> /\ raced \subseteq raced'
<1>1. UNCHANGED <<records, story, req, raced>>
  BY DEF DefinitionSteps, CreateForm, CreateField, UpdateField, DeleteField, SetFields, Once
<1>2. (RequestsOK /\ PairsRaced)'
  BY <1>1, StandsStill DEF Base
<1>3. ASSUME NEW f, NEW fields, SetFields(f, fields)
      PROVE  TablesOK'
  BY <1>1, <1>3, FieldsSetOK DEF Base, SetFields, CurrentForm
<1>4. ASSUME CreateForm
      PROVE  TablesOK'
  BY <1>1, <1>4, NewFormOK DEF Base, CreateForm
<1>5. ASSUME NEW f, NEW k, NEW d, CreateField(f, k, d) \/ UpdateField(f, k, d)
      PROVE  TablesOK'
  BY <1>3, <1>5 DEF CreateField, UpdateField
<1>6. ASSUME NEW f, NEW k, NEW permanent, DeleteField(f, k, permanent)
      PROVE  TablesOK'
  BY <1>3, <1>6 DEF DeleteField
<1>7. TablesOK'
  BY <1>4, <1>5, <1>6 DEF DefinitionSteps
<1>8. QED
  BY <1>1, <1>2, <1>7 DEF Base

LEMMA DeactivateBase ==
  ASSUME Base, NEW r \in Requests, Deactivate(r)
  PROVE  Base' /\ req' = [req EXCEPT ![r] = Idle] /\ UNCHANGED <<records, story, raced>>
<1>1. UNCHANGED <<records, story>> /\ Leave(r)
  BY DEF Deactivate
<1>2. (RequestsOK /\ PairsRaced)' /\ req' = [req EXCEPT ![r] = Idle] /\ raced' = raced
  BY <1>1, LeavesOK DEF Base
<1>3. forms' = [f \in DOMAIN forms |-> IF f \in CurrentForm THEN [forms[f] EXCEPT !.active = FALSE]
                                       ELSE forms[f]]
  BY DEF Deactivate
<1>4. DOMAIN forms' = DOMAIN forms /\ forms' = [f \in DOMAIN forms |-> forms'[f]]
  BY <1>3
<1>5. IsSeq(forms')
  BY <1>4, MappedIs DEF Base, TablesOK
<1>6. \A f \in DOMAIN forms : FormOK(forms'[f]) /\ forms'[f].live = forms[f].live
  BY <1>3 DEF Base, TablesOK, FormOK
<1>7. TablesOK'
  BY <1>1, <1>4, <1>5, <1>6, FieldsMove DEF Base
<1>8. QED
  BY <1>1, <1>2, <1>7 DEF Base

LEMMA SeedDefaultsBase ==
  ASSUME Base, NEW r \in Requests, SeedDefaults(r)
  PROVE  /\ Base' /\ UNCHANGED <<records, story>> /\ raced \subseteq raced'
         /\ \A s \in Requests \ {r} : req'[s] = req[s]
         /\ req'[r].op = "seed"
<1>1. UNCHANGED <<records, story>>
  BY DEF SeedDefaults
<1>2. PICK id : Start(r, [Idle EXCEPT !.op = "seed", !.at = "field", !.data = DOMAIN SeedFields,
                                      !.id = id])
  BY DEF SeedDefaults
<1> DEFINE q == [Idle EXCEPT !.op = "seed", !.at = "field", !.data = DOMAIN SeedFields, !.id = id]
<1>3. q.op = "seed" /\ DOMAIN q = Fields /\ q.data = DOMAIN SeedFields
  BY DEF Idle, Fields
<1>4. Start(r, q)
  BY <1>2
<1> HIDE DEF q
<1>5. RequestOK(q, DOMAIN records)
  BY <1>3 DEF RequestOK
<1>6. (RequestsOK /\ PairsRaced)' /\ req' = [req EXCEPT ![r] = q] /\ raced \subseteq raced'
  BY <1>1, <1>4, <1>5, StartsOK DEF Base
<1>7. TablesOK'
  <2>1. CASE CurrentForm = {}
    BY <1>1, <2>1, NewFormOK DEF Base, SeedDefaults
  <2>2. CASE CurrentForm # {}
    <3>1. UNCHANGED <<forms, records, story>>
      BY <1>1, <2>2 DEF SeedDefaults
    <3>2. CurrentForm' = CurrentForm
      BY <3>1 DEF CurrentForm
    <3>3. QED
      BY <3>1, <3>2 DEF Base, TablesOK, RecordOK
  <2>3. QED
    BY <2>1, <2>2
<1>8. QED
  BY <1>1, <1>3, <1>6, <1>7 DEF Base, RequestsOK

LEMMA SameTablesOK ==
  ASSUME TablesOK, UNCHANGED formVars
  PROVE  TablesOK'
<1>1. UNCHANGED <<forms, records, story>>
  BY DEF formVars
<1>2. CurrentForm' = CurrentForm
  BY <1>1 DEF CurrentForm
<1>3. QED
  BY <1>1, <1>2 DEF TablesOK, RecordOK

LEMMA SeedFieldBase ==
  ASSUME Base, NEW r \in Requests, SeedField(r)
  PROVE  /\ Base' /\ UNCHANGED <<records, story>> /\ raced \subseteq raced'
         /\ \A s \in Requests \ {r} : req'[s] = req[s]
         /\ req'[r].op \in {"none", "seed"}
<1>1. UNCHANGED <<records, story>> /\ req[r].op = "seed"
  BY DEF SeedField, Is
<1>2. CASE Leave(r) /\ UNCHANGED forms
  <2>1. (RequestsOK /\ PairsRaced)' /\ req' = [req EXCEPT ![r] = Idle] /\ raced' = raced
    BY <1>1, <1>2, LeavesOK DEF Base
  <2>2. UNCHANGED formVars
    BY <1>1, <1>2 DEF formVars
  <2>3. TablesOK'
    BY <2>2, SameTablesOK DEF Base
  <2>4. QED
    BY <1>1, <2>1, <2>3, IdleIs DEF Base, RequestsOK
<1>3. CASE ~(Leave(r) /\ UNCHANGED forms)
  <2>1. PICK fields, data : /\ forms' = [forms EXCEPT ![req[r].id].fields = fields]
                            /\ req[r].id \in CurrentForm
                            /\ Goto(r, "field", data) /\ data \subseteq req[r].data
    <3>1. PICK f : f = req[r].id
      OBVIOUS
    <3>2. PICK k \in req[r].data :
            /\ forms' = [forms EXCEPT ![f].fields =
                                     Over(FieldsOf(f), [x \in {k} |-> SeedFields[k]])]
            /\ f \in CurrentForm /\ Goto(r, "field", req[r].data \ {k})
      BY <1>3, <3>1 DEF SeedField
    <3>3. PICK fields : fields = Over(FieldsOf(f), [x \in {k} |-> SeedFields[k]])
      OBVIOUS
    <3>4. req[r].data \ {k} \subseteq req[r].data
      OBVIOUS
    <3>5. QED
      BY <3>1, <3>2, <3>3, <3>4
  <2>2. /\ req[r].op # "update" /\ req[r].op # "import" /\ DOMAIN records \subseteq DOMAIN records'
        /\ data \subseteq DOMAIN SeedFields
    BY <1>1, <2>1 DEF Base, RequestsOK, RequestOK
  <2>3. TablesOK'
    BY <1>1, <2>1, FieldsSetOK DEF Base, CurrentForm
  <2>4. /\ (RequestsOK /\ PairsRaced)' /\ raced' = raced
        /\ \A s \in Requests \ {r} : req'[s] = req[s]
        /\ req'[r].op = req[r].op
    BY <2>1, <2>2, GoesOnOK DEF Base
  <2>5. QED
    BY <1>1, <2>3, <2>4 DEF Base
<1>4. QED
  BY <1>2, <1>3

-----------------------------------------------------------------------------
(* The steps with which requests start that read the tables.               *)

Others(r) == \A s \in Requests \ {r} : req'[s] = req[s]

LEMMA BeginsBase ==
  ASSUME Base, NEW r \in Requests, NEW q, Start(r, q), RequestOK(q, DOMAIN records),
         UNCHANGED formVars
  PROVE  Base' /\ Others(r) /\ req'[r] = q /\ raced \subseteq raced' /\ UNCHANGED formVars
<1>1. (RequestsOK /\ PairsRaced)' /\ req' = [req EXCEPT ![r] = q] /\ raced \subseteq raced'
  BY StartsOK DEF Base, formVars
<1>2. TablesOK'
  BY SameTablesOK DEF Base
<1>3. QED
  BY <1>1, <1>2 DEF Base, RequestsOK, Others

ReadOnly(r) == Base' /\ Others(r) /\ raced \subseteq raced' /\ UNCHANGED formVars

LEMMA DeleteFormBase ==
  ASSUME Base, NEW r \in Requests, NEW f \in DOMAIN forms, DeleteForm(r, f)
  PROVE  /\ ReadOnly(r)
         /\ req'[r].op = "deleteForm"
         /\ req'[r].at = "delete" => RecordsOf(f) = {}
         /\ f \in CurrentForm
<1> DEFINE q == [Idle EXCEPT !.op = "deleteForm",
                             !.at = IF RecordsOf(f) # {} THEN "deactivate" ELSE "delete",
                             !.topic = {<<"drop", "form">>}]
<1>1. Start(r, q) /\ UNCHANGED formVars /\ f \in CurrentForm
  BY DEF DeleteForm
<1>2. DOMAIN q = Fields /\ q.op = "deleteForm" /\ q.topic = {DropForm}
      /\ (q.at = "delete" => RecordsOf(f) = {})
  BY DEF Idle, Fields, DropForm
<1> HIDE DEF q
<1>3. RequestOK(q, DOMAIN records)
  BY <1>2 DEF RequestOK
<1>4. QED
  BY <1>1, <1>2, <1>3, BeginsBase DEF ReadOnly

LEMMA SubmitBase ==
  ASSUME Base, NEW r \in Requests, NEW f \in DOMAIN forms, NEW dto \in Submissions, Submit(r, f, dto)
  PROVE  /\ ReadOnly(r)
         /\ req'[r].op = "submit"
         /\ Accepts(FieldsOf(f), dto.values, FALSE)
         /\ req'[r].data.values = Validated(FieldsOf(f), dto.values, FALSE)
         /\ req'[r].data.under = FieldsOf(f)
<1> DEFINE values == Validated(FieldsOf(f), dto.values, FALSE)
           data == [values |-> values, under |-> FieldsOf(f),
                    ref |-> IF dto.ref = None THEN GuessRefNumber(values) ELSE dto.ref]
           q == [Idle EXCEPT !.op = "submit", !.at = "create", !.id = f,
                             !.topic = {<<"add", "form">>}, !.data = data]
<1>1. Start(r, q) /\ UNCHANGED formVars /\ Accepts(FieldsOf(f), dto.values, FALSE)
  BY DEF Submit
<1>2. data.values = values /\ data.under = FieldsOf(f)
  OBVIOUS
<1> HIDE DEF data, values
<1>3. DOMAIN q = Fields /\ q.op = "submit" /\ q.topic = {AddForm} /\ q.data = data
  BY DEF Idle, Fields, AddForm
<1> HIDE DEF q
<1>4. RequestOK(q, DOMAIN records)
  BY <1>3 DEF RequestOK
<1>5. Base' /\ Others(r) /\ req'[r] = q /\ raced \subseteq raced' /\ UNCHANGED formVars
  BY <1>1, <1>4, BeginsBase
<1>6. QED
  BY <1>1, <1>2, <1>3, <1>5 DEF ReadOnly, values

Merged(n, dto) == IF dto.values = None THEN records[n].values ELSE Over(dto.values, records[n].values)

LEMMA UpdateBase ==
  ASSUME Base, NEW r \in Requests, NEW n \in DOMAIN records, NEW dto \in Patches, Update(r, n, dto)
  PROVE  LET fields == FieldsOf(records[n].form)
             data == req'[r].data
         IN  /\ ReadOnly(r)
             /\ req'[r].op = "update" /\ req'[r].id = n
             /\ dto.values # None => Accepts(fields, Merged(n, dto), TRUE)
             /\ data.values = IF dto.values = None THEN {} ELSE {Validated(fields, Merged(n, dto), TRUE)}
             /\ data.ref = RefWritten(Merged(n, dto), dto)
             /\ data.status = StatusWritten(records[n], dto)
             /\ data.given = IF dto.values = None THEN {} ELSE DOMAIN dto.values
             /\ data.under = fields
<1> DEFINE fields == FieldsOf(records[n].form)
           merged == IF dto.values = None THEN records[n].values
                     ELSE Over(dto.values, records[n].values)
           data == [values |-> IF dto.values = None THEN {} ELSE {Validated(fields, merged, TRUE)},
                    ref |-> RefWritten(merged, dto),
                    status |-> StatusWritten(records[n], dto),
                    given |-> IF dto.values = None THEN {} ELSE DOMAIN dto.values,
                    under |-> fields]
           q == [Idle EXCEPT !.op = "update", !.at = "write", !.id = n,
                             !.topic = {<<"edit", n>>}, !.data = data]
<1>1. Start(r, q) /\ UNCHANGED formVars /\ (dto.values # None => Accepts(fields, merged, TRUE))
  BY DEF Update
<1>2. merged = Merged(n, dto)
  BY DEF Merged
<1>3. /\ data.values = IF dto.values = None THEN {} ELSE {Validated(fields, merged, TRUE)}
      /\ data.ref = RefWritten(merged, dto)
      /\ data.status = StatusWritten(records[n], dto)
      /\ data.given = IF dto.values = None THEN {} ELSE DOMAIN dto.values
      /\ data.under = fields
  OBVIOUS
<1> HIDE DEF data, merged, fields
<1>4. DOMAIN q = Fields /\ q.op = "update" /\ q.topic = {EditOf(n)} /\ q.data = data /\ q.id = n
  BY DEF Idle, Fields, EditOf
<1> HIDE DEF q
<1>5. StatusWritten(records[n], dto) \subseteq Statuses
  BY DEF StatusWritten, Statuses
<1>6. RequestOK(q, DOMAIN records)
  BY <1>3, <1>4, <1>5 DEF RequestOK
<1>7. Base' /\ Others(r) /\ req'[r] = q /\ raced \subseteq raced' /\ UNCHANGED formVars
  BY <1>1, <1>6, BeginsBase
<1>8. QED
  BY <1>1, <1>2, <1>3, <1>4, <1>7 DEF ReadOnly, fields

LEMMA GenerateBase ==
  ASSUME Base, NEW r \in Requests, NEW n \in DOMAIN records, Generate(r, n)
  PROVE  /\ ReadOnly(r)
         /\ req'[r].op = "print" /\ req'[r].id = n /\ req'[r].data = records[n].values
<1> DEFINE q == [Idle EXCEPT !.op = "print", !.at = "mark", !.id = n, !.topic = {<<"print", n>>},
                             !.data = records[n].values]
<1>1. Start(r, q) /\ UNCHANGED formVars
  BY DEF Generate
<1>2. DOMAIN q = Fields /\ q.op = "print" /\ q.topic = {PrintOf(n)} /\ q.id = n
      /\ q.data = records[n].values
  BY DEF Idle, Fields, PrintOf
<1> HIDE DEF q
<1>3. RequestOK(q, DOMAIN records)
  BY <1>2 DEF RequestOK
<1>4. QED
  BY <1>1, <1>2, <1>3, BeginsBase DEF ReadOnly

LEMMA FileIs ==
  ASSUME TablesOK, NEW f, NEW file \in Rekaps \union {Rekap(f)}
  PROVE  /\ Len(file) \in Nat
         /\ \A j \in 1..Len(file) : \/ file[j].at = None \/ file[j].at[1] = "given"
                                    \/ \E n \in DOMAIN records : file[j].at = records[n].at
<1>1. CASE file \in Rekaps
  BY <1>1, FormRecordsAssumption DEF FormRecordsAssumption
<1>2. CASE file = Rekap(f)
  <2>1. file = [n \in DOMAIN records |-> file[n]] /\ \A n \in DOMAIN records : file[n].at = records[n].at
    BY <1>2 DEF Rekap
  <2>2. Len(file) = Len(records) /\ Len(records) \in Nat /\ DOMAIN records = 1..Len(records)
    <3>1. IsSeq(records)
      BY DEF TablesOK
    <3>2. QED
      BY <2>1, <3>1, MappedIs DEF IsSeq
  <2>3. QED
    BY <2>1, <2>2
<1>3. QED
  BY <1>1, <1>2

LEMMA ImportBase ==
  ASSUME Base, NEW r \in Requests, NEW f \in DOMAIN forms, NEW file \in Rekaps \union {Rekap(f)},
         Import(r, f, file)
  PROVE  /\ ReadOnly(r)
         /\ req'[r].op = "import" /\ req'[r].id = f /\ req'[r].data = Queue(f, file)
<1> DEFINE q == [Idle EXCEPT !.op = "import", !.at = "chunk", !.id = f,
                             !.topic = {<<"add", "form">>, <<"import", f>>},
                             !.data = Queue(f, file)]
<1>1. Start(r, q) /\ UNCHANGED formVars
  BY DEF Import
<1>2. DOMAIN q = Fields /\ q.op = "import" /\ q.topic = {AddForm, ImportOf(f)} /\ q.id = f
      /\ q.data = Queue(f, file)
  BY DEF Idle, Fields, AddForm, ImportOf
<1> HIDE DEF q
<1>3. IsSeq(q.data)
  BY <1>2, FileIs, QueueFacts DEF Base
<1>4. RequestOK(q, DOMAIN records)
  BY <1>2, <1>3 DEF RequestOK
<1>5. QED
  BY <1>1, <1>2, <1>4, BeginsBase DEF ReadOnly

-----------------------------------------------------------------------------
(* The steps that write the records.                                       *)

LEMMA RowsMove ==
  ASSUME TablesOK, UNCHANGED forms, IsSeq(records'), IsSeq(story'), Len(story') = Len(records'),
         \A n \in DOMAIN records' : RecordOK(records'[n]) /\ StoryOK(story'[n])
  PROVE  TablesOK'
<1>1. CurrentForm' = CurrentForm
  BY DEF CurrentForm
<1>2. DOMAIN story' = DOMAIN records'
  BY SeqDomain
<1>3. QED
  BY <1>1, <1>2 DEF TablesOK, RecordOK

LEMMA Tables ==
  ASSUME TablesOK
  PROVE  /\ DOMAIN records = 1..Len(records) /\ Len(records) \in Nat
         /\ DOMAIN story = 1..Len(records) /\ DOMAIN forms = 1..Len(forms)
BY SeqDomain DEF TablesOK, IsSeq

Elsewhere(n) ==
  /\ DOMAIN records' = DOMAIN records /\ DOMAIN story' = DOMAIN records
  /\ \A m \in DOMAIN records \ {n} : records'[m] = records[m] /\ story'[m] = story[m]

LEMMA RowChanges ==
  ASSUME TablesOK, UNCHANGED forms, NEW n \in DOMAIN records, Elsewhere(n),
         IsSeq(records'), IsSeq(story'), RecordOK(records'[n]), StoryOK(story'[n])
  PROVE  TablesOK'
<1>1. \A m \in DOMAIN records' : RecordOK(records'[m]) /\ StoryOK(story'[m])
  BY Tables DEF Elsewhere, TablesOK
<1>2. Len(records') = Len(records) /\ Len(story') = Len(records)
  <2>1. Len(records') \in Nat /\ Len(story') \in Nat /\ Len(records) \in Nat
    BY DEF IsSeq, TablesOK
  <2>2. 1..Len(records') = 1..Len(records) /\ 1..Len(story') = 1..Len(records)
    BY SeqDomain DEF Elsewhere, TablesOK
  <2>3. \A a, b \in Nat : 1..a = 1..b => a = b
    <3>1. SUFFICES ASSUME NEW a \in Nat, NEW b \in Nat, 1..a = 1..b PROVE a <= b
      OBVIOUS
    <3>2. CASE a = 0
      BY <3>2
    <3>3. CASE a # 0
      <4>1. a \in 1..a
        BY <3>3
      <4>2. QED
        BY <3>1, <4>1
    <3>4. QED
      BY <3>2, <3>3
  <2>4. QED
    BY <2>1, <2>2, <2>3
<1>3. QED
  BY <1>1, <1>2, RowsMove

\* A row that is written keeps its form, and does not come to life.
Leaves(r) == Others(r) /\ req'[r] = Idle /\ UNCHANGED raced

LEMMA DeleteBase ==
  ASSUME Base, NEW r \in Requests, Delete(r)
  PROVE  /\ Base' /\ Leaves(r) /\ UNCHANGED story
         /\ req[r].op = "deleteForm" /\ req[r].at = "delete" /\ req[r].topic = {DropForm}
         /\ DOMAIN records' = DOMAIN records
         /\ \A n \in DOMAIN records :
              /\ ~records'[n].live /\ records'[n].at = records[n].at
              /\ records'[n].values = records[n].values /\ records'[n].status = records[n].status
<1>1. /\ req[r].op = "deleteForm" /\ req[r].at = "delete"
      /\ forms' = [f \in DOMAIN forms |-> [forms[f] EXCEPT !.live = FALSE]]
      /\ records' = [n \in DOMAIN records |-> [records[n] EXCEPT !.live = FALSE]]
      /\ Leave(r) /\ UNCHANGED story
  BY DEF Delete, Is
<1>2. DOMAIN records' = DOMAIN records
  BY <1>1
<1>3. (RequestsOK /\ PairsRaced)' /\ req' = [req EXCEPT ![r] = Idle] /\ raced' = raced
  BY <1>1, <1>2, LeavesOK DEF Base
<1>4. \A n \in DOMAIN records :
        /\ records'[n].live = FALSE /\ records'[n].at = records[n].at
        /\ records'[n].values = records[n].values /\ records'[n].status = records[n].status
        /\ records'[n].form = records[n].form
        /\ DOMAIN records'[n] = DOMAIN records[n]
  BY <1>1 DEF Base, TablesOK, RecordOK
<1>5. IsSeq(records') /\ Len(records') = Len(records)
  <2>1. records' = [n \in DOMAIN records |-> records'[n]]
    BY <1>1
  <2>2. QED
    BY <2>1, MappedIs DEF Base, TablesOK
<1>6. IsSeq(forms') /\ DOMAIN forms' = DOMAIN forms
  <2>1. forms' = [f \in DOMAIN forms |-> forms'[f]]
    BY <1>1
  <2>2. QED
    BY <2>1, MappedIs DEF Base, TablesOK
<1>7. \A f \in DOMAIN forms' : FormOK(forms'[f]) /\ forms'[f].live = FALSE
  BY <1>1 DEF Base, TablesOK, FormOK
<1>8. CurrentForm' = {}
  BY <1>7 DEF CurrentForm
<1>9. \A n \in DOMAIN records' : RecordOK(records[n])
  BY <1>2 DEF Base, TablesOK
<1>10. ASSUME NEW n \in DOMAIN records'
       PROVE  RecordOK(records[n])'
  <2>1. /\ DOMAIN records'[n] = {"live", "form", "values", "ref", "status", "at"}
        /\ records'[n].form \in DOMAIN forms' /\ records'[n].live = FALSE
        /\ records'[n].status \in Statuses
    BY <1>2, <1>4, <1>6, <1>9 DEF RecordOK
  <2>2. QED
    BY <2>1 DEF RecordOK
<1>11. TablesOK'
  <2>1. \A f, g \in CurrentForm' : f = g
    BY <1>8
  <2>2. IsSeq(story') /\ Len(story') = Len(records') /\ \A n \in DOMAIN story' : StoryOK(story'[n])
    BY <1>1, <1>5 DEF Base, TablesOK
  <2>3. QED
    BY <1>5, <1>6, <1>7, <1>10, <2>1, <2>2 DEF TablesOK
<1>12. req[r].topic = {DropForm}
  BY <1>1 DEF Base, RequestsOK, RequestOK
<1>13. QED
  BY <1>1, <1>2, <1>3, <1>4, <1>11, <1>12 DEF Base, RequestsOK, Leaves, Others

LEMMA RemoveRecordBase ==
  ASSUME Base, NEW n \in DOMAIN records, RemoveRecord(n)
  PROVE  /\ Base' /\ UNCHANGED <<req, raced>> /\ Elsewhere(n)
         /\ ~records'[n].live /\ story'[n].removed /\ records'[n].at = records[n].at
         /\ records'[n].values = records[n].values /\ records'[n].status = records[n].status
         /\ story'[n].said = story[n].said /\ story'[n].printed = story[n].printed
         /\ story'[n].under = story[n].under /\ story'[n].byHand = story[n].byHand
<1>1. /\ UNCHANGED <<req, raced, forms>>
      /\ records' = [records EXCEPT ![n].live = FALSE]
      /\ story' = [story EXCEPT ![n].removed = TRUE]
  BY DEF RemoveRecord, Once
<1>2. IsSeq(records') /\ IsSeq(story') /\ DOMAIN records' = DOMAIN records /\ DOMAIN story' = DOMAIN story
  BY <1>1, ExceptIs DEF Base, TablesOK
<1>3. Elsewhere(n)
  BY <1>1, <1>2, Tables DEF Elsewhere, Base
<1>4. n \in DOMAIN story /\ RecordOK(records[n]) /\ StoryOK(story[n])
  BY Tables DEF Base, TablesOK
<1>5. /\ ~records'[n].live /\ records'[n].values = records[n].values
      /\ records'[n].status = records[n].status /\ records'[n].form = records[n].form
      /\ DOMAIN records'[n] = DOMAIN records[n] /\ records'[n].live = FALSE
      /\ records'[n].at = records[n].at
  BY <1>1, <1>4 DEF RecordOK
<1>6. /\ story'[n].removed = TRUE /\ DOMAIN story'[n] = DOMAIN story[n]
      /\ story'[n].said = story[n].said /\ story'[n].printed = story[n].printed
      /\ story'[n].under = story[n].under /\ story'[n].byHand = story[n].byHand
  BY <1>1, <1>4 DEF StoryOK
<1>7. RecordOK(records'[n]) /\ StoryOK(story'[n])
  BY <1>4, <1>5, <1>6 DEF RecordOK, StoryOK
<1>8. TablesOK'
  BY <1>1, <1>2, <1>3, <1>7, RowChanges DEF Base
<1>9. (RequestsOK /\ PairsRaced)'
  BY <1>1, <1>2, StandsStill DEF Base
<1>10. QED
  BY <1>1, <1>3, <1>5, <1>6, <1>8, <1>9 DEF Base

LEMMA CreateBase ==
  ASSUME Base, NEW r \in Requests, Create(r)
  PROVE  LET n == Len(records) + 1
             q == req[r]
         IN  /\ Base' /\ Leaves(r) /\ UNCHANGED forms
             /\ q.op = "submit" /\ q.topic = {AddForm}
             /\ \/ UNCHANGED <<records, story>>
                \/ /\ q.id \in CurrentForm
                   /\ DOMAIN records' = DOMAIN records \union {n} /\ n \notin DOMAIN records
                   /\ \A m \in DOMAIN records : records'[m] = records[m] /\ story'[m] = story[m]
                   /\ records'[n] = Row(q.id, q.data.values, q.data.ref, "submitted", Now)
                   /\ story'[n] = Born(q.data.under)
<1> DEFINE n == Len(records) + 1
           q == req[r]
<1>1. q.op = "submit" /\ Leave(r) /\ UNCHANGED forms
  BY DEF Create, Is
<1>2. q.topic = {AddForm}
  BY <1>1 DEF Base, RequestsOK, RequestOK
<1>3. CASE UNCHANGED <<records, story>>
  <2>1. (RequestsOK /\ PairsRaced)' /\ req' = [req EXCEPT ![r] = Idle] /\ raced' = raced
    BY <1>1, <1>3, LeavesOK DEF Base
  <2>2. TablesOK'
    BY <1>1, <1>3, SameTablesOK DEF Base, formVars
  <2>3. QED
    BY <1>1, <1>2, <1>3, <2>1, <2>2 DEF Base, RequestsOK, Leaves, Others
<1>4. CASE ~UNCHANGED <<records, story>>
  <2> DEFINE row == Row(q.id, q.data.values, q.data.ref, "submitted", Now)
             born == Born(q.data.under)
  <2>1. /\ q.id \in CurrentForm
        /\ records' = Append(records, row) /\ story' = Append(story, born)
    BY <1>4 DEF Create
  <2>2. RecordOK(row) /\ StoryOK(born)
    BY <2>1 DEF RecordOK, Row, StoryOK, Born, CurrentForm, Statuses
  <2> HIDE DEF row, born
  <2>3. /\ IsSeq(records') /\ Len(records') = n /\ DOMAIN records' = 1..n
        /\ (\A i \in 1..Len(records) : records'[i] = records[i])
        /\ records'[n] = row
    BY <2>1, AppendIs DEF Base, TablesOK
  <2>4. /\ IsSeq(story') /\ Len(story') = n
        /\ (\A i \in 1..Len(records) : story'[i] = story[i])
        /\ story'[n] = born
    BY <2>1, AppendIs DEF Base, TablesOK
  <2>5. Len(records) \in Nat /\ DOMAIN records = 1..Len(records)
    BY Tables DEF Base
  <2>6. DOMAIN records' = DOMAIN records \union {n} /\ n \notin DOMAIN records
    BY <2>3, <2>5
  <2>7. DOMAIN story = DOMAIN records
    BY Tables DEF Base
  <2>8. \A m \in DOMAIN records' : RecordOK(records'[m]) /\ StoryOK(story'[m])
    BY <2>2, <2>3, <2>4, <2>5, <2>6, <2>7 DEF Base, TablesOK
  <2>9. TablesOK'
    BY <1>1, <2>3, <2>4, <2>8, RowsMove DEF Base
  <2>10. (RequestsOK /\ PairsRaced)' /\ req' = [req EXCEPT ![r] = Idle] /\ raced' = raced
    BY <1>1, <2>6, LeavesOK DEF Base
  <2>11. \A m \in DOMAIN records : records'[m] = records[m] /\ story'[m] = story[m]
    BY <2>3, <2>4, <2>5
  <2>12. records'[n] = row /\ story'[n] = born
    BY <2>3, <2>4
  <2>13. Base' /\ Leaves(r)
    BY <2>9, <2>10 DEF Base, RequestsOK, Leaves, Others
  <2>14. QED
    BY <1>1, <1>2, <2>1, <2>6, <2>11, <2>12, <2>13 DEF row, born
<1>5. QED
  BY <1>3, <1>4

LEMMA WriteBase ==
  ASSUME Base, NEW r \in Requests, Write(r)
  PROVE  LET n == req[r].id
             w == req[r].data
         IN  /\ Base' /\ Leaves(r) /\ UNCHANGED forms
             /\ req[r].op = "update" /\ req[r].topic = {EditOf(n)} /\ n \in DOMAIN records
             /\ \/ UNCHANGED <<records, story>>
                \/ /\ Elsewhere(n) /\ records[n].live
                   /\ records'[n].live = records[n].live /\ records'[n].form = records[n].form
                   /\ records'[n].at = records[n].at
                   /\ records'[n].values = Written(records[n].values, w.values)
                   /\ records'[n].ref = Written(records[n].ref, w.ref)
                   /\ records'[n].status = Written(records[n].status, w.status)
                   /\ story'[n].printed = story[n].printed /\ story'[n].removed = story[n].removed
                   /\ story'[n].said = Over([k \in w.given |-> ValueOf(records'[n].values, k)],
                                            story[n].said)
                   /\ story'[n].under = IF w.values = {} THEN story[n].under ELSE w.under
                   /\ story'[n].renamed = (story[n].renamed \/ records'[n].ref # records[n].ref)
                   /\ story'[n].byHand = IF w.status = {} THEN story[n].byHand
                                         ELSE records'[n].status = "generated"
<1> DEFINE n == req[r].id
           w == req[r].data
<1>1. req[r].op = "update" /\ Leave(r) /\ UNCHANGED forms
  BY DEF Write, Is
<1>2. req[r].topic = {EditOf(n)} /\ n \in DOMAIN records /\ w.status \subseteq Statuses
  BY <1>1 DEF Base, RequestsOK, RequestOK
<1>3. CASE UNCHANGED <<records, story>>
  <2>1. (RequestsOK /\ PairsRaced)' /\ req' = [req EXCEPT ![r] = Idle] /\ raced' = raced
    BY <1>1, <1>3, LeavesOK DEF Base
  <2>2. TablesOK'
    BY <1>1, <1>3, SameTablesOK DEF Base, formVars
  <2>3. QED
    BY <1>1, <1>2, <1>3, <2>1, <2>2 DEF Base, RequestsOK, Leaves, Others
<1>4. CASE ~UNCHANGED <<records, story>>
  <2> DEFINE values == Written(records[n].values, w.values)
             ref == Written(records[n].ref, w.ref)
             status == Written(records[n].status, w.status)
             said == Over([k \in w.given |-> ValueOf(values, k)], story[n].said)
             under == IF w.values = {} THEN story[n].under ELSE w.under
             renamed == story[n].renamed \/ ref # records[n].ref
             byHand == IF w.status = {} THEN story[n].byHand ELSE status = "generated"
             row == [records[n] EXCEPT !.values = values, !.ref = ref, !.status = status]
             told == [story[n] EXCEPT !.said = said, !.under = under, !.byHand = byHand,
                                      !.renamed = renamed]
  <2>1. RecordOK(records[n]) /\ StoryOK(story[n]) /\ n \in DOMAIN story
    BY <1>2, Tables DEF Base, TablesOK
  <2>2. /\ records[n].live
        /\ records' = [records EXCEPT ![n] = row] /\ story' = [story EXCEPT ![n] = told]
    BY <1>2, <1>4, <2>1 DEF Write, RecordOK, StoryOK
  <2>3. status \in Statuses
    BY <1>2, <2>1 DEF Written, RecordOK
  <2> HIDE DEF values, ref, status, said, under, renamed, byHand
  <2>4. /\ row.live = records[n].live /\ row.form = records[n].form /\ row.at = records[n].at
        /\ row.values = values /\ row.ref = ref /\ row.status = status
        /\ DOMAIN row = DOMAIN records[n]
    BY <2>1 DEF RecordOK
  <2>5. /\ told.said = said /\ told.under = under /\ told.renamed = renamed
        /\ told.printed = story[n].printed /\ told.removed = story[n].removed
        /\ told.byHand = byHand
        /\ DOMAIN told = DOMAIN story[n]
    BY <2>1 DEF StoryOK
  <2> HIDE DEF row, told
  <2>6. RecordOK(row) /\ StoryOK(told)
    BY <2>1, <2>3, <2>4, <2>5 DEF RecordOK, StoryOK
  <2>7. IsSeq(records') /\ IsSeq(story') /\ DOMAIN records' = DOMAIN records /\ DOMAIN story' = DOMAIN story
    BY <2>2, ExceptIs DEF Base, TablesOK
  <2>8. records'[n] = row /\ story'[n] = told
    BY <1>2, <2>1, <2>2
  <2>9. Elsewhere(n)
    BY <2>2, <2>7, Tables DEF Elsewhere, Base
  <2>10. TablesOK'
    BY <1>1, <1>2, <2>6, <2>7, <2>8, <2>9, RowChanges DEF Base
  <2>11. (RequestsOK /\ PairsRaced)' /\ req' = [req EXCEPT ![r] = Idle] /\ raced' = raced
    BY <1>1, <2>7, LeavesOK DEF Base
  <2>12. Base' /\ Leaves(r)
    BY <2>10, <2>11 DEF Base, RequestsOK, Leaves, Others
  <2>13. QED
    BY <1>1, <1>2, <2>2, <2>4, <2>5, <2>8, <2>9, <2>12
       DEF values, ref, status, said, under, renamed, byHand
<1>5. QED
  BY <1>3, <1>4

LEMMA MarkGeneratedBase ==
  ASSUME Base, NEW r \in Requests, MarkGenerated(r)
  PROVE  LET n == req[r].id IN
           /\ Base' /\ Leaves(r) /\ UNCHANGED forms
           /\ req[r].op = "print" /\ req[r].topic = {PrintOf(n)} /\ n \in DOMAIN records
           /\ Elsewhere(n)
           /\ \/ records'[n] = records[n] 
              \/ records'[n] = [records[n] EXCEPT !.status = "generated"]
           /\ story'[n] = [story[n] EXCEPT !.printed = req[r].data, !.byHand = FALSE]
           /\ RecordOK(records[n]) /\ StoryOK(story[n])
<1> DEFINE n == req[r].id
           told == [story[n] EXCEPT !.printed = req[r].data, !.byHand = FALSE]
           row == [records[n] EXCEPT !.status = "generated"]
<1>1. /\ req[r].op = "print" /\ Leave(r) /\ UNCHANGED forms
      /\ records' = records \/ records' = [records EXCEPT ![n] = row]
      /\ story' = [story EXCEPT ![n] = told]
  BY DEF MarkGenerated, Is
<1>2. req[r].topic = {PrintOf(n)} /\ n \in DOMAIN records
  BY <1>1 DEF Base, RequestsOK, RequestOK
<1>3. RecordOK(records[n]) /\ StoryOK(story[n]) /\ n \in DOMAIN story
  BY <1>2, Tables DEF Base, TablesOK
<1>4. RecordOK(row) /\ StoryOK(told)
  BY <1>3 DEF RecordOK, StoryOK, Statuses
<1> HIDE DEF row, told
<1>5. IsSeq(records') /\ IsSeq(story') /\ DOMAIN records' = DOMAIN records /\ DOMAIN story' = DOMAIN story
  <2>1. IsSeq(records) /\ IsSeq(story)
    BY DEF Base, TablesOK
  <2>2. IsSeq(story') /\ DOMAIN story' = DOMAIN story
    BY <1>1, <2>1, ExceptIs
  <2>3. CASE records' = records
    BY <2>1, <2>2, <2>3
  <2>4. CASE records' = [records EXCEPT ![n] = row]
    BY <2>1, <2>2, <2>4, ExceptIs
  <2>5. QED
    BY <1>1, <2>3, <2>4
<1>6. (records'[n] = records[n] \/ records'[n] = row) /\ story'[n] = told
  BY <1>1, <1>2, <1>3
<1>7. Elsewhere(n)
  BY <1>1, <1>5, Tables DEF Elsewhere, Base
<1>8. TablesOK'
  BY <1>1, <1>2, <1>3, <1>4, <1>5, <1>6, <1>7, RowChanges DEF Base
<1>9. (RequestsOK /\ PairsRaced)' /\ req' = [req EXCEPT ![r] = Idle] /\ raced' = raced
  BY <1>1, <1>5, LeavesOK DEF Base
<1>10. Base' /\ Leaves(r)
  BY <1>8, <1>9 DEF Base, RequestsOK, Leaves, Others
<1>11. QED
  BY <1>1, <1>2, <1>3, <1>6, <1>7, <1>10 DEF row, told

Chunk(rows) == SubSeq(rows, 1, IF Len(rows) < ChunkSize THEN Len(rows) ELSE ChunkSize)
ImportedAt(row) == IF row.at = None THEN Now ELSE row.at
Imported(f, row) ==
  Row(f, row.values, KeyOf(row.values, None)[1], "imported", ImportedAt(row))

LEMMA ChunkIs ==
  ASSUME NEW rows, IsSeq(rows), rows # <<>>
  PROVE  LET chunk == Chunk(rows)
             rest == SubSeq(rows, Len(chunk) + 1, Len(rows))
         IN  /\ IsSeq(chunk) /\ IsSeq(rest)
             /\ Len(rest) = Len(rows) - Len(chunk)
             /\ Len(chunk) \in 1..Len(rows)
             /\ \A i \in 1..Len(chunk) : chunk[i] = rows[i]
             /\ \A i \in 1..Len(rest) : rest[i] = rows[Len(chunk) + i]
<1> DEFINE size == IF Len(rows) < ChunkSize THEN Len(rows) ELSE ChunkSize
           chunk == SubSeq(rows, 1, size)
           rest == SubSeq(rows, Len(chunk) + 1, Len(rows))
<1>0. chunk = Chunk(rows)
  BY DEF Chunk
<1>1. Len(rows) \in Nat /\ ChunkSize \in Nat \ {0}
  BY FormRecordsAssumption DEF IsSeq, FormRecordsAssumption
<1>2. Len(rows) # 0
  <2>1. SUFFICES ASSUME Len(rows) = 0 PROVE FALSE
    OBVIOUS
  <2>2. rows = [i \in 1..0 |-> rows[i]]
    BY <2>1 DEF IsSeq
  <2>3. rows \in Seq({})
    BY <2>1, SeqOfIts
  <2>4. QED
    BY <2>1, <2>3
<1>3. size \in Nat /\ 1 <= size /\ size <= Len(rows)
  BY <1>1, <1>2
<1>4. IsSeq(chunk) /\ Len(chunk) = size - 1 + 1
      /\ \A i \in 1..(size - 1 + 1) : chunk[i] = rows[1 + i - 1]
  <2> HIDE DEF size
  <2>1. QED
    BY <1>1, <1>3, PartIs
<1> HIDE DEF size, chunk
<1>5. Len(chunk) = size /\ \A i \in 1..Len(chunk) : chunk[i] = rows[i]
  BY <1>3, <1>4
<1> DEFINE m == Len(chunk) + 1
<1>6. m \in Nat /\ m >= 1 /\ m <= Len(rows) + 1
  BY <1>3, <1>5
<1>7. IsSeq(SubSeq(rows, m, Len(rows))) /\ Len(SubSeq(rows, m, Len(rows))) = Len(rows) - m + 1
      /\ \A i \in 1..(Len(rows) - m + 1) : SubSeq(rows, m, Len(rows))[i] = rows[m + i - 1]
  <2> HIDE DEF m
  <2>1. QED
    BY <1>1, <1>6, PartIs
<1>8. IsSeq(rest) /\ Len(rest) = Len(rows) - Len(chunk)
  BY <1>1, <1>3, <1>5, <1>7
<1>9. \A i \in 1..Len(rest) : rest[i] = rows[Len(chunk) + i]
  <2>1. SUFFICES ASSUME NEW i \in 1..Len(rest) PROVE rest[i] = rows[Len(chunk) + i]
    OBVIOUS
  <2>2. i \in Nat /\ i \in 1..(Len(rows) - m + 1) /\ m + i - 1 = Len(chunk) + i
    BY <1>1, <1>3, <1>5, <1>8
  <2>3. QED
    BY <1>7, <2>2
<1>10. QED
  BY <1>0, <1>3, <1>4, <1>5, <1>8, <1>9

LEMMA ImportChunkBase ==
  ASSUME Base, NEW r \in Requests, ImportChunk(r)
  PROVE  LET f == req[r].id
             rows == req[r].data
             chunk == Chunk(rows)
             old == Len(records)
         IN  /\ Base' /\ Others(r) /\ UNCHANGED <<forms, raced>>
             /\ req[r].op = "import" /\ req[r].topic = {AddForm, ImportOf(f)} /\ IsSeq(rows)
             /\ \/ UNCHANGED <<records, story>> /\ req'[r] = Idle
                \/ /\ f \in CurrentForm /\ rows # <<>>
                   /\ req'[r].op = "import" /\ req'[r].id = f
                   /\ req'[r].data = SubSeq(rows, Len(chunk) + 1, Len(rows))
                   /\ DOMAIN records' = 1..(old + Len(chunk))
                   /\ \A m \in DOMAIN records : records'[m] = records[m] /\ story'[m] = story[m]
                   /\ \A i \in 1..Len(chunk) : /\ records'[old + i] = Imported(f, chunk[i])
                                               /\ story'[old + i] = Born(None)
<1> DEFINE f == req[r].id
           rows == req[r].data
           size == IF Len(rows) < ChunkSize THEN Len(rows) ELSE ChunkSize
           chunk == SubSeq(rows, 1, size)
           old == Len(records)
<1>1. req[r].op = "import" /\ UNCHANGED forms
  BY DEF ImportChunk, Is
<1>2. req[r].topic = {AddForm, ImportOf(f)} /\ IsSeq(rows)
  BY <1>1 DEF Base, RequestsOK, RequestOK
<1>3. UNCHANGED <<started, raced>>
  BY DEF ImportChunk, Leave, Goto
<1>4. CASE Leave(r) /\ UNCHANGED <<records, story>>
  <2>1. (RequestsOK /\ PairsRaced)' /\ req' = [req EXCEPT ![r] = Idle] /\ raced' = raced
    BY <1>4, LeavesOK DEF Base
  <2>2. TablesOK'
    BY <1>1, <1>4, SameTablesOK DEF Base, formVars
  <2>3. Base' /\ Others(r) /\ req'[r] = Idle
    BY <2>1, <2>2 DEF Base, RequestsOK, Others
  <2>4. QED
    BY <1>1, <1>2, <1>3, <1>4, <2>3
<1>5. CASE ~(Leave(r) /\ UNCHANGED <<records, story>>)
  <2> DEFINE more == [i \in DOMAIN chunk |->
                        Row(req[r].id, chunk[i].values, KeyOf(chunk[i].values, None)[1], "imported",
                            IF chunk[i].at = None THEN Now ELSE chunk[i].at)]
             born == [i \in DOMAIN chunk |-> Born(None)]
             rest == SubSeq(rows, Len(chunk) + 1, Len(rows))
  <2>1. /\ f \in CurrentForm /\ rows # <<>>
        /\ records' = records \o more /\ story' = story \o born
        /\ Goto(r, "chunk", rest)
    BY <1>5 DEF ImportChunk
  <2>2. chunk = Chunk(rows)
    BY DEF Chunk
  <2> HIDE DEF rows, size, chunk
  <2>3. IsSeq(chunk) /\ IsSeq(rest)
    BY <1>2, <2>1, <2>2, ChunkIs
  <2>4. DOMAIN chunk = 1..Len(chunk) /\ Len(chunk) \in Nat
    BY <2>3 DEF IsSeq
  <2>5. \A i \in 1..Len(chunk) : more[i] = Imported(f, chunk[i]) /\ born[i] = Born(None)
    BY <2>4 DEF Imported, ImportedAt
  <2>6. IsSeq(more) /\ Len(more) = Len(chunk)
    <3>1. more = [i \in DOMAIN chunk |-> more[i]]
      OBVIOUS
    <3> HIDE DEF more
    <3>2. QED
      BY <2>3, <3>1, MappedIs
  <2>7. IsSeq(born) /\ Len(born) = Len(chunk)
    <3>1. born = [i \in DOMAIN chunk |-> born[i]]
      OBVIOUS
    <3> HIDE DEF born
    <3>2. QED
      BY <2>3, <3>1, MappedIs
  <2> HIDE DEF more, born, rest
  <2>8. IsSeq(records) /\ IsSeq(story) /\ Len(story) = old /\ old \in Nat
    BY DEF Base, TablesOK, IsSeq
  <2>9. /\ IsSeq(records') /\ Len(records') = old + Len(chunk)
        /\ DOMAIN records' = 1..(old + Len(chunk))
        /\ \A i \in 1..old : records'[i] = records[i]
        /\ \A i \in 1..Len(chunk) : records'[old + i] = more[i]
    <3>1. records' = records \o more /\ Len(more) = Len(chunk) /\ Len(records) = old /\ IsSeq(more)
      BY <2>1, <2>6
    <3> HIDE DEF old, f
    <3>2. IsSeq(records') /\ Len(records') = Len(records) + Len(more)
      BY <2>8, <3>1, LongerIs
    <3>3. DOMAIN records' = 1..(Len(records) + Len(more))
      BY <2>8, <3>1, LongerIs
    <3>4. \A i \in 1..Len(records) : records'[i] = records[i]
      BY <2>8, <3>1, LongerIs
    <3>5. \A i \in 1..Len(more) : records'[Len(records) + i] = more[i]
      BY <2>8, <3>1, LongerIs
    <3>6. QED
      BY <3>1, <3>2, <3>3, <3>4, <3>5
  <2>10. /\ IsSeq(story') /\ Len(story') = old + Len(chunk)
         /\ \A i \in 1..old : story'[i] = story[i]
         /\ \A i \in 1..Len(chunk) : story'[old + i] = born[i]
    <3>1. story' = story \o born /\ Len(born) = Len(chunk) /\ Len(story) = old /\ IsSeq(born)
      BY <2>1, <2>7, <2>8
    <3> HIDE DEF old, f
    <3>2. IsSeq(story') /\ Len(story') = Len(story) + Len(born)
      BY <2>8, <3>1, LongerIs
    <3>3. \A i \in 1..Len(story) : story'[i] = story[i]
      BY <2>8, <3>1, LongerIs
    <3>4. \A i \in 1..Len(born) : story'[Len(story) + i] = born[i]
      BY <2>8, <3>1, LongerIs
    <3>5. QED
      BY <3>1, <3>2, <3>3, <3>4
  <2>11. \A i \in 1..Len(chunk) : RecordOK(Imported(f, chunk[i])) /\ StoryOK(Born(None))
    BY <2>1 DEF RecordOK, Imported, Row, StoryOK, Born, CurrentForm, Statuses
  <2>12. ASSUME NEW m \in DOMAIN records'
         PROVE  RecordOK(records'[m]) /\ StoryOK(story'[m])
    <3>1. CASE m \in 1..old
      BY <2>9, <2>10, <3>1, Tables DEF Base, TablesOK
    <3>2. CASE m \notin 1..old
      <4>1. m - old \in 1..Len(chunk) /\ m = old + (m - old)
        BY <2>4, <2>8, <2>9, <3>2
      <4> DEFINE i == m - old
      <4> HIDE DEF i
      <4>2. i \in 1..Len(chunk) /\ m = old + i
        BY <4>1 DEF i
      <4>3. QED
        BY <2>5, <2>9, <2>10, <2>11, <4>2
    <3>3. QED
      BY <3>1, <3>2
  <2>13. TablesOK'
    BY <1>1, <2>9, <2>10, <2>12, RowsMove DEF Base
  <2>14. DOMAIN records = 1..old /\ DOMAIN records \subseteq DOMAIN records'
    BY <2>4, <2>8, <2>9, Tables DEF Base
  <2>15. /\ (RequestsOK /\ PairsRaced)' /\ raced' = raced /\ Others(r)
         /\ req'[r].op = req[r].op /\ req'[r].id = req[r].id /\ req'[r].data = rest
    BY <1>1, <2>1, <2>3, <2>14, GoesOnOK DEF Base, Others
  <2>16. Base'
    BY <2>13, <2>15 DEF Base
  <2>17. \A m \in DOMAIN records : records'[m] = records[m] /\ story'[m] = story[m]
    BY <2>9, <2>10, <2>14
  <2>18. \A i \in 1..Len(chunk) : /\ records'[old + i] = Imported(f, chunk[i])
                                  /\ story'[old + i] = Born(None)
    BY <2>5, <2>9, <2>10
  <2>19. QED
    BY <1>1, <1>2, <1>3, <2>1, <2>2, <2>9, <2>15, <2>16, <2>17, <2>18 DEF rest, rows
<1>6. QED
  BY <1>4, <1>5

\* The records that come.
Grown(r) ==
  /\ DOMAIN records \subseteq DOMAIN records' /\ DOMAIN story' = DOMAIN records'
  /\ \A m \in DOMAIN records : records'[m] = records[m] /\ story'[m] = story[m]
  /\ \A m \in DOMAIN records' \ DOMAIN records :
       /\ records'[m].live /\ records'[m].form = req[r].id
       /\ records'[m].status \in {"submitted", "imported"}
       /\ story'[m].said = <<>> /\ story'[m].printed = None
       /\ story'[m].removed = FALSE /\ story'[m].renamed = FALSE

LEMMA BornIs ==
  ASSUME NEW under, NEW told, told = Born(under)
  PROVE  /\ told.said = <<>> /\ told.printed = None /\ told.under = under
         /\ told.renamed = FALSE /\ told.removed = FALSE
BY DEF Born

LEMMA CreateGrows ==
  ASSUME Base, NEW r \in Requests, Create(r)
  PROVE  Grown(r)
<1>1. CASE UNCHANGED <<records, story>>
  BY <1>1, Tables DEF Base, Grown
<1>2. CASE ~UNCHANGED <<records, story>>
  <2> DEFINE n == Len(records) + 1
             data == req[r].data
  <2>1. /\ DOMAIN records' = DOMAIN records \union {n} /\ n \notin DOMAIN records
        /\ \A m \in DOMAIN records : records'[m] = records[m] /\ story'[m] = story[m]
        /\ records'[n] = Row(req[r].id, data.values, data.ref, "submitted", Now)
        /\ story'[n] = Born(data.under)
        /\ Base'
    BY <1>2, CreateBase
  <2>2. DOMAIN story' = DOMAIN records'
    BY <2>1, SeqDomain DEF Base, TablesOK
  <2> HIDE DEF n
  <2>3. /\ records'[n].live /\ records'[n].form = req[r].id /\ records'[n].status = "submitted"
        /\ story'[n].said = <<>> /\ story'[n].printed = None
        /\ story'[n].removed = FALSE /\ story'[n].renamed = FALSE
    <3>1. /\ records'[n] = Row(req[r].id, data.values, data.ref, "submitted", Now)
          /\ story'[n] = Born(data.under)
      BY <2>1
    <3> HIDE DEF data
    <3>2. records'[n].live = TRUE /\ records'[n].form = req[r].id /\ records'[n].status = "submitted"
      BY <3>1 DEF Row
    <3>3. /\ story'[n].said = <<>> /\ story'[n].printed = None
          /\ story'[n].removed = FALSE /\ story'[n].renamed = FALSE
      BY <3>1, BornIs
    <3>4. QED
      BY <3>2, <3>3
  <2>4. QED
    BY <2>1, <2>2, <2>3 DEF Grown
<1>3. QED
  BY <1>1, <1>2

\* Each is made of a row of the chunk.
LEMMA ImportGrows ==
  ASSUME Base, NEW r \in Requests, ImportChunk(r)
  PROVE  LET chunk == Chunk(req[r].data) IN
           /\ Grown(r)
           /\ \A m \in DOMAIN records' \ DOMAIN records :
                \E i \in 1..Len(chunk) : /\ m = Len(records) + i /\ req[r].data # <<>>
                                         /\ records'[m] = Imported(req[r].id, chunk[i])
                                         /\ story'[m] = Born(None)
<1> DEFINE chunk == Chunk(req[r].data)
           old == Len(records)
<1>1. CASE UNCHANGED <<records, story>>
  BY <1>1, Tables DEF Base, Grown
<1>2. CASE ~UNCHANGED <<records, story>>
  <2>1. /\ DOMAIN records' = 1..(old + Len(chunk)) /\ req[r].data # <<>>
        /\ \A m \in DOMAIN records : records'[m] = records[m] /\ story'[m] = story[m]
        /\ \A i \in 1..Len(chunk) : /\ records'[old + i] = Imported(req[r].id, chunk[i])
                                    /\ story'[old + i] = Born(None)
        /\ Base' /\ IsSeq(req[r].data)
    BY <1>2, ImportChunkBase
  <2>2. Len(chunk) \in Nat /\ old \in Nat /\ DOMAIN records = 1..old
    BY <2>1, ChunkIs, Tables DEF Base, IsSeq
  <2>3. DOMAIN story' = DOMAIN records'
    BY <2>1, SeqDomain DEF Base, TablesOK
  <2>4. ASSUME NEW m \in DOMAIN records' \ DOMAIN records
        PROVE  \E i \in 1..Len(chunk) : m = old + i
    <3>1. m - old \in 1..Len(chunk) /\ m = old + (m - old)
      BY <2>1, <2>2
    <3>2. QED
      BY <3>1
  <2>5. DOMAIN records \subseteq DOMAIN records'
    BY <2>1, <2>2
  <2> HIDE DEF chunk, old
  <2>6. ASSUME NEW m \in DOMAIN records' \ DOMAIN records
        PROVE  \E i \in 1..Len(chunk) : /\ m = old + i
                                        /\ records'[m] = Imported(req[r].id, chunk[i])
                                        /\ story'[m] = Born(None)
    BY <2>1, <2>4
  <2>7. ASSUME NEW m \in DOMAIN records' \ DOMAIN records
        PROVE  /\ records'[m].live /\ records'[m].form = req[r].id
               /\ records'[m].status = "imported"
               /\ story'[m].said = <<>> /\ story'[m].printed = None
               /\ story'[m].removed = FALSE /\ story'[m].renamed = FALSE
    <3>1. PICK i \in 1..Len(chunk) : /\ records'[m] = Imported(req[r].id, chunk[i])
                                     /\ story'[m] = Born(None)
      BY <2>6
    <3>2. records'[m].live = TRUE /\ records'[m].form = req[r].id /\ records'[m].status = "imported"
      BY <3>1 DEF Imported, Row
    <3>3. /\ story'[m].said = <<>> /\ story'[m].printed = None
          /\ story'[m].removed = FALSE /\ story'[m].renamed = FALSE
      BY <3>1, BornIs
    <3>4. QED
      BY <3>2, <3>3
  <2>8. Grown(r)
    BY <2>1, <2>3, <2>5, <2>7 DEF Grown
  <2>9. QED
    BY <2>1, <2>6, <2>8 DEF chunk, old
<1>3. QED
  BY <1>1, <1>2

LEMMA Comes ==
  ASSUME Base, NEW r \in Requests, Create(r) \/ ImportChunk(r)
  PROVE  /\ Grown(r) /\ Others(r) /\ UNCHANGED raced /\ AddForm \in req[r].topic
         /\ req[r].op \in {"submit", "import"} /\ req'[r].op \in {"none", "import"}
<1>1. CASE Create(r)
  BY <1>1, CreateGrows, CreateBase, IdleIs DEF Leaves
<1>2. CASE ImportChunk(r)
  BY <1>2, ImportGrows, ImportChunkBase, IdleIs
<1>3. QED
  BY <1>1, <1>2

-----------------------------------------------------------------------------
(* Every step.                                                             *)

\* The records stay as they are, and no request starts that is one of these.
Aside(ops) ==
  /\ UNCHANGED <<records, story>> /\ raced \subseteq raced'
  /\ \A s \in Requests : req'[s] = req[s] \/ req'[s].op \notin ops
OnlyReads(ops) ==
  \E r \in Requests :
    \/ "deleteForm" \in ops /\ \E f \in DOMAIN forms : DeleteForm(r, f)
    \/ "submit" \in ops /\ \E f \in DOMAIN forms, dto \in Submissions : Submit(r, f, dto)
    \/ "import" \in ops /\ \E f \in DOMAIN forms : \E file \in Rekaps \union {Rekap(f)} : Import(r, f, file)
    \/ "update" \in ops /\ \E n \in DOMAIN records, dto \in Patches : Update(r, n, dto)
    \/ "print" \in ops /\ \E n \in DOMAIN records : Generate(r, n)
Writing ==
  \/ \E n \in DOMAIN records : RemoveRecord(n)
  \/ \E r \in Requests : Delete(r) \/ Create(r) \/ Write(r) \/ MarkGenerated(r) \/ ImportChunk(r)

LEMMA FailBase ==
  ASSUME Base, NEW r \in Requests, Leave(r), UNCHANGED formVars
  PROVE  Base' /\ Leaves(r) /\ UNCHANGED <<records, story>>
<1>1. UNCHANGED <<records, story>>
  BY DEF formVars
<1>2. (RequestsOK /\ PairsRaced)' /\ req' = [req EXCEPT ![r] = Idle] /\ raced' = raced
  BY <1>1, LeavesOK DEF Base
<1>3. TablesOK'
  BY SameTablesOK DEF Base
<1>4. QED
  BY <1>1, <1>2, <1>3 DEF Base, RequestsOK, Leaves, Others

LEMMA ReadAside ==
  ASSUME NEW r \in Requests, ReadOnly(r), NEW ops, req'[r].op \notin ops
  PROVE  Aside(ops)
BY DEF ReadOnly, Aside, Others, formVars

LEMMA EveryStep ==
  ASSUME Base, [FormsNext]_FormsFlight, NEW ops,
         ops \subseteq {"deleteForm", "submit", "update", "print", "import"}
  PROVE  Base' /\ (Aside(ops) \/ OnlyReads(ops) \/ Writing)
<1>1. CASE UNCHANGED FormsFlight
  <2>1. UNCHANGED <<req, raced, records, story>> /\ UNCHANGED formVars
    BY <1>1 DEF FormsFlight, flight, formVars
  <2>2. (RequestsOK /\ PairsRaced)' /\ TablesOK'
    BY <2>1, StandsStill, SameTablesOK DEF Base
  <2>3. QED
    BY <2>1, <2>2 DEF Base, Aside
<1>2. CASE DefinitionSteps
  BY <1>2, DefinitionStepsBase DEF Aside
<1>3. CASE \E n \in DOMAIN records : RemoveRecord(n)
  BY <1>3, RemoveRecordBase DEF Writing
<1>4. ASSUME NEW r \in Requests, RecordSteps(r)
      PROVE  Base' /\ (Aside(ops) \/ OnlyReads(ops) \/ Writing)
  <2>1. CASE \E f \in DOMAIN forms : DeleteForm(r, f)
    BY <2>1, DeleteFormBase, ReadAside DEF OnlyReads, ReadOnly
  <2>2. CASE \E f \in DOMAIN forms, dto \in Submissions : Submit(r, f, dto)
    BY <2>2, SubmitBase, ReadAside DEF OnlyReads, ReadOnly
  <2>3. CASE \E f \in DOMAIN forms : \E file \in Rekaps \union {Rekap(f)} : Import(r, f, file)
    BY <2>3, ImportBase, ReadAside DEF OnlyReads, ReadOnly
  <2>4. CASE \E n \in DOMAIN records, dto \in Patches : Update(r, n, dto)
    BY <2>4, UpdateBase, ReadAside DEF OnlyReads, ReadOnly
  <2>5. CASE \E n \in DOMAIN records : Generate(r, n)
    BY <2>5, GenerateBase, ReadAside DEF OnlyReads, ReadOnly
  <2>6. CASE Deactivate(r)
    <3>1. Base' /\ req' = [req EXCEPT ![r] = Idle] /\ UNCHANGED <<records, story, raced>>
      BY <2>6, DeactivateBase
    <3>2. \A s \in Requests : req'[s] = req[s] \/ req'[s] = Idle
      BY <3>1 DEF Base, RequestsOK
    <3>3. Aside(ops)
      BY <3>1, <3>2, IdleIs DEF Aside
    <3>4. QED
      BY <3>1, <3>3
  <2>7. CASE SeedDefaults(r)
    BY <2>7, SeedDefaultsBase DEF Aside
  <2>8. CASE SeedField(r)
    BY <2>8, SeedFieldBase DEF Aside
  <2>9. CASE Delete(r) \/ Create(r) \/ Write(r) \/ MarkGenerated(r) \/ ImportChunk(r)
    <3>1. Base'
      BY <2>9, DeleteBase, CreateBase, WriteBase, MarkGeneratedBase, ImportChunkBase
    <3>2. QED
      BY <2>9, <3>1 DEF Writing
  <2>10. CASE Fail(r) /\ UNCHANGED formVars
    <3>1. Base' /\ Leaves(r) /\ UNCHANGED <<records, story>>
      BY <2>10, FailBase DEF Fail
    <3>2. Aside(ops)
      BY <3>1, IdleIs DEF Aside, Leaves, Others
    <3>3. QED
      BY <3>1, <3>2
  <2>11. QED
    BY <1>4, <2>1, <2>2, <2>3, <2>4, <2>5, <2>6, <2>7, <2>8, <2>9, <2>10 DEF RecordSteps
<1>5. QED
  BY <1>1, <1>2, <1>3, <1>4 DEF FormsNext

LEMMA BaseAtFirst == FlightInit /\ FormsInit => Base
<1> SUFFICES ASSUME FlightInit, FormsInit PROVE Base
  OBVIOUS
<1>1. req = [r \in Requests |-> Idle] /\ forms = <<NewForm(SeedFields)>> /\ records = <<>> /\ story = <<>>
  BY DEF FlightInit, FormsInit
<1>2. RequestsOK /\ PairsRaced
  BY <1>1, IdleIs DEF RequestsOK, RequestOK, PairsRaced
<1>3. IsSeq(records) /\ IsSeq(story) /\ Len(records) = 0 /\ Len(story) = 0 /\ DOMAIN records = {} /\ DOMAIN story = {}
  BY <1>1 DEF IsSeq
<1>4. IsSeq(forms) /\ DOMAIN forms = {1} /\ forms[1] = NewForm(SeedFields)
  <2> DEFINE one == NewForm(SeedFields)
  <2> HIDE DEF one
  <2>1. <<one>> \in Seq({one})
    OBVIOUS
  <2>2. IsSeq(<<one>>)
    BY <2>1, SeqIs
  <2>3. QED
    BY <1>1, <2>2 DEF one
<1>5. FormOK(NewForm(SeedFields))
  BY DEF NewForm, FormOK
<1>6. TablesOK
  BY <1>3, <1>4, <1>5 DEF TablesOK, CurrentForm
<1>7. QED
  BY <1>2, <1>6 DEF Base

LEMMA BaseKept == Base /\ [FormsNext]_FormsFlight => Base'
BY EveryStep

LEMMA BaseHolds == FormsSpec => []Base
BY BaseAtFirst, BaseKept, PTL DEF FormsSpec

LEMMA BaseTyped == Base => FormsTypeOK
<1> SUFFICES ASSUME Base PROVE FormsTypeOK
  OBVIOUS
<1>1. Cardinality(CurrentForm) <= 1
  <2>1. CASE CurrentForm = {}
    BY <2>1, FS_EmptySet
  <2>2. CASE CurrentForm # {}
    <3>1. PICK f : f \in CurrentForm
      BY <2>2
    <3>2. CurrentForm = {f}
      BY <3>1 DEF Base, TablesOK
    <3>3. QED
      BY <3>2, FS_Singleton
  <2>3. QED
    BY <2>1, <2>2
<1>2. DOMAIN story = DOMAIN records
  BY Tables DEF Base
<1>3. QED
  BY <1>1, <1>2 DEF FormsTypeOK, Base, TablesOK, FormOK, RecordOK, Statuses

\* Every column has its type, a record belongs to a form that was, and at most one form
\* has the key: at every point of every request of FormsService, FormRecordsService and
\* EboRekapService.
THEOREM FormsTypeCorrect == FormsSpec => []FormsTypeOK
BY BaseHolds, BaseTyped, PTL

-----------------------------------------------------------------------------
(* A form is deleted only when no record is lost.                          *)

\* Who has counted no record is right, or a record came meanwhile.
CountsOK ==
  \A r \in Requests : Is(r, "deleteForm", "delete") =>
    \A n \in DOMAIN records : records[n].live => {AddForm, DropForm} \in raced
LossInv == CountsOK /\ NoRecordLost

LEMMA AddDropRaced ==
  ASSUME Base, NEW r \in Requests, NEW s \in Requests, req[r].topic = {DropForm},
         AddForm \in req[s].topic
  PROVE  {AddForm, DropForm} \in raced
<1>1. r # s
  <2>1. AddForm # DropForm
    BY DEF AddForm, DropForm
  <2>2. QED
    BY <2>1
<1>2. QED
  BY <1>1, Clashing DEF Base, PairsRaced

LEMMA LossKept == Base /\ LossInv /\ [FormsNext]_FormsFlight => LossInv'
<1> SUFFICES ASSUME Base, LossInv, [FormsNext]_FormsFlight PROVE LossInv'
  OBVIOUS
<1>1. Base' /\ (Aside({"deleteForm"}) \/ OnlyReads({"deleteForm"}) \/ Writing)
  BY EveryStep
<1>2. CASE Aside({"deleteForm"})
  BY <1>2 DEF Aside, LossInv, CountsOK, NoRecordLost, Is
<1>3. CASE OnlyReads({"deleteForm"})
  <2>1. PICK r \in Requests, f \in DOMAIN forms : DeleteForm(r, f)
    BY <1>3 DEF OnlyReads
  <2>2. /\ Others(r) /\ raced \subseteq raced' /\ UNCHANGED <<records, story, forms>>
        /\ req'[r].at = "delete" => RecordsOf(f) = {}
        /\ f \in CurrentForm
    BY <2>1, DeleteFormBase DEF ReadOnly, formVars
  <2>3. req'[r].at = "delete" => \A n \in DOMAIN records : ~records[n].live
    BY <2>2 DEF RecordsOf, Base, TablesOK, RecordOK
  <2>4. QED
    BY <2>2, <2>3 DEF Others, LossInv, CountsOK, NoRecordLost, Is
<1>4. CASE \E n \in DOMAIN records : RemoveRecord(n)
  <2>1. PICK n \in DOMAIN records : RemoveRecord(n)
    BY <1>4
  <2>2. UNCHANGED <<req, raced>> /\ Elsewhere(n) /\ ~records'[n].live /\ story'[n].removed
    BY <2>1, RemoveRecordBase
  <2>3. QED
    BY <2>2 DEF Elsewhere, LossInv, CountsOK, NoRecordLost, Is, AddForm, DropForm
<1>5. ASSUME NEW r \in Requests, Leaves(r), NEW n \in DOMAIN records, Elsewhere(n),
             records'[n].live = records[n].live, story'[n].removed = story[n].removed
      PROVE  LossInv'
  <2>1. \A s \in Requests : Is(s, "deleteForm", "delete")' => Is(s, "deleteForm", "delete")
    BY <1>5, IdleIs DEF Leaves, Others, Is
  <2>2. DOMAIN records' = DOMAIN records /\ raced' = raced
        /\ \A m \in DOMAIN records :
             records'[m].live = records[m].live /\ story'[m].removed = story[m].removed
    BY <1>5 DEF Leaves, Elsewhere
  <2>3. QED
    BY <2>1, <2>2 DEF LossInv, CountsOK, NoRecordLost
<1>6. ASSUME NEW r \in Requests, Leaves(r), UNCHANGED <<records, story>>
      PROVE  LossInv'
  <2>1. \A s \in Requests : Is(s, "deleteForm", "delete")' => Is(s, "deleteForm", "delete")
    BY <1>6, IdleIs DEF Leaves, Others, Is
  <2>2. QED
    BY <1>6, <2>1 DEF Leaves, LossInv, CountsOK, NoRecordLost
<1>7. ASSUME NEW r \in Requests, Delete(r)
      PROVE  LossInv'
  <2>1. /\ Leaves(r) /\ UNCHANGED story /\ Is(r, "deleteForm", "delete")
        /\ DOMAIN records' = DOMAIN records /\ \A n \in DOMAIN records : ~records'[n].live
    BY <1>7, DeleteBase DEF Is
  <2>2. CountsOK'
    BY <2>1 DEF CountsOK
  <2>3. NoRecordLost'
    BY <2>1 DEF Leaves, LossInv, CountsOK, NoRecordLost, AddForm, DropForm
  <2>4. QED
    BY <2>2, <2>3 DEF LossInv
\* Records come.
<1>8. ASSUME NEW r \in Requests, Create(r) \/ ImportChunk(r)
      PROVE  LossInv'
  <2>1. /\ Grown(r) /\ Others(r) /\ UNCHANGED raced /\ AddForm \in req[r].topic
        /\ req'[r].op \in {"none", "import"}
    BY <1>8, Comes
  <2>2. ASSUME NEW s \in Requests, Is(s, "deleteForm", "delete")'
        PROVE  {AddForm, DropForm} \in raced
    <3>1. s # r /\ req'[s] = req[s] /\ req[s].op = "deleteForm"
      BY <2>1, <2>2 DEF Others, Is
    <3>2. req[s].topic = {DropForm}
      BY <3>1 DEF Base, RequestsOK, RequestOK
    <3>3. QED
      BY <2>1, <3>2, AddDropRaced
  <2>3. CountsOK'
    BY <2>1, <2>2 DEF CountsOK
  <2>4. NoRecordLost'
    BY <2>1 DEF Grown, LossInv, NoRecordLost
  <2>5. QED
    BY <2>3, <2>4 DEF LossInv
<1>9. ASSUME NEW r \in Requests, Write(r)
       PROVE  LossInv'
  BY <1>5, <1>6, <1>9, WriteBase
<1>10. ASSUME NEW r \in Requests, MarkGenerated(r)
       PROVE  LossInv'
  <2>1. /\ Leaves(r) /\ req[r].id \in DOMAIN records /\ Elsewhere(req[r].id)
        /\ records'[req[r].id].live = records[req[r].id].live
        /\ story'[req[r].id].removed = story[req[r].id].removed
    BY <1>10, MarkGeneratedBase DEF RecordOK, StoryOK
  <2>2. QED
    BY <1>5, <2>1
<1>11. QED
  BY <1>1, <1>2, <1>3, <1>4, <1>7, <1>8, <1>9, <1>10 DEF Writing

\* "Form dihapus permanen hanya bila belum punya record": a record is gone only because
\* it was removed, unless deleteForm had counted before the record came.
THEOREM NoRecordLostHolds == FormsSpec => []NoRecordLost
<1>1. FlightInit /\ FormsInit => LossInv
  <2>1. DOMAIN <<>> = {}
    OBVIOUS
  <2>2. QED
    BY <2>1 DEF FlightInit, FormsInit, LossInv, CountsOK, NoRecordLost
<1>2. LossInv => NoRecordLost
  BY DEF LossInv
<1>3. QED
  BY <1>1, <1>2, BaseHolds, LossKept, PTL DEF FormsSpec

-----------------------------------------------------------------------------
(* 'generated' says that what was handed out shows the record as it is.    *)

Apart(n) == {EditOf(n), PrintOf(n)} \notin raced
\* 'generated', and not because a client said so.
Claimed(n) == records[n].status = "generated" /\ ~story[n].byHand
\* A print has the values as they are; an update takes the status back, or need not.
PrintKnows(q) == q.op = "print" /\ Apart(q.id) => q.data = records[q.id].values
UpdateKnows(q) ==
  q.op = "update" /\ Apart(q.id) /\ q.data.values # {} /\ q.data.status = {} => ~Claimed(q.id)
Current(n) == Claimed(n) /\ Apart(n) => story[n].printed = records[n].values
PrintInv ==
  /\ \A r \in Requests : PrintKnows(req[r]) /\ UpdateKnows(req[r])
  /\ \A n \in DOMAIN records : Current(n)

LEMMA EditPrintRaced ==
  ASSUME Base, NEW r \in Requests, NEW s \in Requests, NEW n,
         req[r].topic = {EditOf(n)}, req[s].topic = {PrintOf(n)}
  PROVE  ~Apart(n)
<1>1. r # s
  <2>1. EditOf(n) # PrintOf(n)
    BY DEF EditOf, PrintOf
  <2>2. QED
    BY <2>1
<1>2. QED
  BY <1>1, Clashing DEF Base, PairsRaced, Apart

LEMMA AboutRows ==
  ASSUME Base, NEW s \in Requests, req[s].op \in {"update", "print"}
  PROVE  req[s].id \in DOMAIN records
BY DEF Base, RequestsOK, RequestOK

\* Claimed, after the step.
Claims(n) == records'[n].status = "generated" /\ ~story'[n].byHand

\* The other requests still know, when those about the row that changed were too late.
LEMMA OthersKnow ==
  ASSUME Base, PrintInv, NEW r \in Requests, Others(r), raced \subseteq raced',
         \A s \in Requests \ {r} :
           /\ req[s].op = "print" => \/ records'[req[s].id].values = records[req[s].id].values
                                     \/ ~Apart(req[s].id)
           /\ req[s].op = "update" => \/ Claims(req[s].id) => Claimed(req[s].id)
                                      \/ ~Apart(req[s].id)
  PROVE  \A s \in Requests \ {r} : (PrintKnows(req[s]) /\ UpdateKnows(req[s]))'
<1>1. \A n : Apart(n)' => Apart(n)
  BY DEF Apart, EditOf, PrintOf
<1>2. QED
  BY <1>1 DEF PrintInv, PrintKnows, UpdateKnows, Others, Claims, Claimed

LEMMA IdleKnows ==
  ASSUME NEW r, req'[r].op \notin {"print", "update"}
  PROVE  (PrintKnows(req[r]) /\ UpdateKnows(req[r]))'
BY DEF PrintKnows, UpdateKnows

LEMMA PrintKept ==
  ASSUME Base, PrintInv, [FormsNext]_FormsFlight
  PROVE  PrintInv'
<1> DEFINE ops == {"print", "update"}
<1>1. Base' /\ (Aside(ops) \/ OnlyReads(ops) \/ Writing)
  BY EveryStep
<1>2. CASE Aside(ops)
  BY <1>2 DEF Aside, PrintInv, PrintKnows, UpdateKnows, Claimed, Current, Apart, EditOf, PrintOf
<1>3. ASSUME NEW r \in Requests, ReadOnly(r), (PrintKnows(req[r]) /\ UpdateKnows(req[r]))'
      PROVE  PrintInv'
  <2>1. Others(r) /\ raced \subseteq raced' /\ UNCHANGED <<records, story>>
    BY <1>3 DEF ReadOnly, formVars
  <2>2. \A s \in Requests \ {r} : (PrintKnows(req[s]) /\ UpdateKnows(req[s]))'
    BY <2>1, OthersKnow DEF Claims, Claimed
  <2>3. \A n \in DOMAIN records' : Current(n)'
    BY <2>1 DEF PrintInv, Claimed, Current, Apart, EditOf, PrintOf
  <2>4. QED
    BY <1>3, <2>2, <2>3 DEF PrintInv
<1>4. ASSUME NEW r \in Requests, NEW n \in DOMAIN records, NEW dto \in Patches, Update(r, n, dto)
      PROVE  PrintInv'
  <2>1. /\ ReadOnly(r) /\ UNCHANGED records
        /\ req'[r].op = "update" /\ req'[r].id = n
        /\ req'[r].data.values = IF dto.values = None THEN {}
                                 ELSE {Validated(FieldsOf(records[n].form), Merged(n, dto), TRUE)}
        /\ req'[r].data.status = StatusWritten(records[n], dto)
    BY <1>4, UpdateBase DEF ReadOnly, formVars
  <2>2. req'[r].data.values # {} /\ req'[r].data.status = {} => records[n].status # "generated"
    BY <2>1 DEF StatusWritten
  <2>3. (PrintKnows(req[r]) /\ UpdateKnows(req[r]))'
    BY <2>1, <2>2 DEF PrintKnows, UpdateKnows, Claimed
  <2>4. QED
    BY <1>3, <2>1, <2>3
<1>5. ASSUME NEW r \in Requests, NEW n \in DOMAIN records, Generate(r, n)
      PROVE  PrintInv'
  <2>1. /\ ReadOnly(r) /\ UNCHANGED records
        /\ req'[r].op = "print" /\ req'[r].id = n /\ req'[r].data = records[n].values
    BY <1>5, GenerateBase DEF ReadOnly, formVars
  <2>2. (PrintKnows(req[r]) /\ UpdateKnows(req[r]))'
    BY <2>1 DEF PrintKnows, UpdateKnows
  <2>3. QED
    BY <1>3, <2>1, <2>2
<1>6. CASE OnlyReads(ops)
  BY <1>4, <1>5, <1>6 DEF OnlyReads
<1>7. CASE \E n \in DOMAIN records : RemoveRecord(n)
  <2>1. PICK n \in DOMAIN records : RemoveRecord(n)
    BY <1>7
  <2>2. /\ UNCHANGED <<req, raced>> /\ Elsewhere(n)
        /\ records'[n].values = records[n].values /\ records'[n].status = records[n].status
        /\ story'[n].printed = story[n].printed /\ story'[n].byHand = story[n].byHand
    BY <2>1, RemoveRecordBase
  <2>3. /\ DOMAIN records' = DOMAIN records
        /\ \A m \in DOMAIN records : /\ records'[m].values = records[m].values
                                     /\ records'[m].status = records[m].status
                                     /\ story'[m].printed = story[m].printed
                                     /\ story'[m].byHand = story[m].byHand
    BY <2>2 DEF Elsewhere
  <2>4. \A m \in DOMAIN records' : Current(m)'
    BY <2>2, <2>3 DEF PrintInv, Claimed, Current, Apart, EditOf, PrintOf
  <2>5. \A r \in Requests : (PrintKnows(req[r]) /\ UpdateKnows(req[r]))'
    <3>1. SUFFICES ASSUME NEW r \in Requests PROVE (PrintKnows(req[r]) /\ UpdateKnows(req[r]))'
      OBVIOUS
    <3>2. CASE req[r].op \in {"update", "print"}
      <4>1. req[r].id \in DOMAIN records
        BY <3>2, AboutRows
      <4>2. QED
        BY <2>2, <2>3, <4>1 DEF PrintInv, PrintKnows, UpdateKnows, Claimed, Apart, EditOf, PrintOf
    <3>3. CASE req[r].op \notin {"update", "print"}
      BY <2>2, <3>3, IdleKnows
    <3>4. QED
      BY <3>2, <3>3
  <2>6. QED
    BY <2>4, <2>5 DEF PrintInv
<1>8. ASSUME NEW r \in Requests, Others(r), UNCHANGED raced, req'[r].op \notin ops,
             DOMAIN records \subseteq DOMAIN records',
             \A m \in DOMAIN records : /\ records'[m].values = records[m].values
                                       /\ records'[m].status = records[m].status
                                       /\ story'[m].printed = story[m].printed
                                       /\ story'[m].byHand = story[m].byHand,
             \A m \in DOMAIN records' \ DOMAIN records : records'[m].status # "generated"
      PROVE  PrintInv'
  <2>1. \A s \in Requests : req[s].op \in {"update", "print"} => req[s].id \in DOMAIN records
    BY AboutRows
  <2>2. \A s \in Requests \ {r} : (PrintKnows(req[s]) /\ UpdateKnows(req[s]))'
    BY <1>8, <2>1, OthersKnow DEF Claims, Claimed
  <2>3. (PrintKnows(req[r]) /\ UpdateKnows(req[r]))'
    BY <1>8, IdleKnows
  <2>4. \A n \in DOMAIN records' : Current(n)'
    BY <1>8 DEF PrintInv, Claimed, Current, Apart, EditOf, PrintOf
  <2>5. QED
    BY <2>2, <2>3, <2>4 DEF PrintInv
<1>9. ASSUME NEW r \in Requests, Delete(r)
      PROVE  PrintInv'
  <2>1. /\ Leaves(r) /\ UNCHANGED story /\ DOMAIN records' = DOMAIN records
        /\ \A n \in DOMAIN records : /\ records'[n].values = records[n].values
                                     /\ records'[n].status = records[n].status
    BY <1>9, DeleteBase
  <2>2. req'[r].op \notin ops
    BY <2>1, IdleIs DEF Leaves
  <2>3. QED
    BY <1>8, <2>1, <2>2 DEF Leaves
<1>10. ASSUME NEW r \in Requests, Create(r) \/ ImportChunk(r)
       PROVE  PrintInv'
  <2>1. Grown(r) /\ Others(r) /\ UNCHANGED raced /\ req'[r].op \in {"none", "import"}
    BY <1>10, Comes
  <2>2. /\ DOMAIN records \subseteq DOMAIN records'
        /\ \A m \in DOMAIN records : /\ records'[m].values = records[m].values
                                     /\ records'[m].status = records[m].status
                                     /\ story'[m].printed = story[m].printed
                                     /\ story'[m].byHand = story[m].byHand
        /\ \A m \in DOMAIN records' \ DOMAIN records : records'[m].status # "generated"
    BY <2>1 DEF Grown
  <2>3. QED
    BY <1>8, <2>1, <2>2
<1>11. ASSUME NEW r \in Requests, Write(r)
       PROVE  PrintInv'
  <2>0. PICK n : n = req[r].id
    OBVIOUS
  <2> DEFINE w == req[r].data
  <2>1. /\ Leaves(r) /\ req[r].op = "update" /\ req[r].topic = {EditOf(n)} /\ n \in DOMAIN records
    BY <1>11, <2>0, WriteBase
  <2>2. req'[r].op \notin ops
    BY <2>1, IdleIs DEF Leaves
  <2>3. CASE UNCHANGED <<records, story>>
    BY <1>8, <2>1, <2>2, <2>3 DEF Leaves
  <2>4. CASE ~UNCHANGED <<records, story>>
    <3>1. /\ Elsewhere(n)
          /\ records'[n].values = Written(records[n].values, w.values)
          /\ records'[n].status = Written(records[n].status, w.status)
          /\ story'[n].printed = story[n].printed
          /\ story'[n].byHand = IF w.status = {} THEN story[n].byHand
                                ELSE records'[n].status = "generated"
      BY <1>11, <2>0, <2>4, WriteBase
    <3>2. UpdateKnows(req[r]) /\ Current(n)
      BY <2>1 DEF PrintInv
    <3>3. Claims(n) => w.status = {} /\ Claimed(n)
      BY <3>1 DEF Claims, Claimed, Written
    <3>4. Claims(n) /\ Apart(n) => w.values = {}
      BY <2>0, <2>1, <3>2, <3>3 DEF UpdateKnows
    <3>5. UNCHANGED raced
      BY <2>1 DEF Leaves
    <3>6. Current(n)'
      <4>1. SUFFICES ASSUME Claims(n), Apart(n)
                     PROVE  story'[n].printed = records'[n].values
        BY <3>5 DEF Claims, Claimed, Current, Apart, EditOf, PrintOf
      <4>2. records'[n].values = records[n].values
        BY <3>1, <3>4, <4>1 DEF Written
      <4>3. QED
        BY <3>1, <3>2, <3>3, <4>1, <4>2 DEF Current
    <3>7. \A m \in DOMAIN records' : Current(m)'
      <4>1. SUFFICES ASSUME NEW m \in DOMAIN records', m # n PROVE Current(m)'
        BY <3>6
      <4>2. m \in DOMAIN records /\ records'[m] = records[m] /\ story'[m] = story[m]
        BY <3>1, <4>1 DEF Elsewhere
      <4>3. QED
        BY <3>5, <4>2 DEF PrintInv, Claimed, Current, Apart, EditOf, PrintOf
    <3>8. ASSUME NEW s \in Requests \ {r}
          PROVE  /\ req[s].op = "print" => \/ records'[req[s].id].values = records[req[s].id].values
                                           \/ ~Apart(req[s].id)
                 /\ req[s].op = "update" => \/ Claims(req[s].id) => Claimed(req[s].id)
                                            \/ ~Apart(req[s].id)
      <4>1. CASE req[s].id # n
        BY <3>1, <4>1, AboutRows DEF Elsewhere, Claims, Claimed
      <4>2. CASE req[s].id = n /\ req[s].op = "print"
        <5>1. req[s].topic = {PrintOf(n)}
          BY <4>2 DEF Base, RequestsOK, RequestOK
        <5>2. QED
          BY <2>1, <4>2, <5>1, EditPrintRaced
      <4>3. CASE req[s].id = n /\ req[s].op = "update"
        BY <3>3, <4>3
      <4>4. QED
        BY <4>1, <4>2, <4>3
    <3>9. \A s \in Requests \ {r} : (PrintKnows(req[s]) /\ UpdateKnows(req[s]))'
      BY <2>1, <3>5, <3>8, OthersKnow DEF Leaves
    <3>10. (PrintKnows(req[r]) /\ UpdateKnows(req[r]))'
      BY <2>2, IdleKnows
    <3>11. QED
      BY <3>7, <3>9, <3>10 DEF PrintInv
  <2>5. QED
    BY <2>3, <2>4
<1>12. ASSUME NEW r \in Requests, MarkGenerated(r)
       PROVE  PrintInv'
  <2>0. PICK n : n = req[r].id
    OBVIOUS
  <2>1. /\ Leaves(r) /\ req[r].op = "print" /\ req[r].topic = {PrintOf(n)} /\ n \in DOMAIN records
        /\ Elsewhere(n)
        /\ records'[n].values = records[n].values
        /\ story'[n].printed = req[r].data
    BY <1>12, <2>0, MarkGeneratedBase DEF RecordOK, StoryOK
  <2>2. req'[r].op \notin ops
    BY <2>1, IdleIs DEF Leaves
  <2>3. UNCHANGED raced
    BY <2>1 DEF Leaves
  <2>4. Current(n)'
    <3>1. Apart(n) => req[r].data = records[n].values
      BY <2>0, <2>1 DEF PrintInv, PrintKnows
    <3>2. QED
      BY <2>1, <2>3, <3>1 DEF Current, Apart, EditOf, PrintOf
  <2>5. \A m \in DOMAIN records' : Current(m)'
    <3>1. SUFFICES ASSUME NEW m \in DOMAIN records', m # n PROVE Current(m)'
      BY <2>4
    <3>2. m \in DOMAIN records /\ records'[m] = records[m] /\ story'[m] = story[m]
      BY <2>1, <3>1 DEF Elsewhere
    <3>3. QED
      BY <2>3, <3>2 DEF PrintInv, Claimed, Current, Apart, EditOf, PrintOf
  <2>6. ASSUME NEW s \in Requests \ {r}
        PROVE  /\ req[s].op = "print" => \/ records'[req[s].id].values = records[req[s].id].values
                                         \/ ~Apart(req[s].id)
               /\ req[s].op = "update" => \/ Claims(req[s].id) => Claimed(req[s].id)
                                          \/ ~Apart(req[s].id)
    <3>1. CASE req[s].id # n
      BY <2>1, <3>1, AboutRows DEF Elsewhere, Claims, Claimed
    <3>2. CASE req[s].id = n /\ req[s].op = "print"
      BY <2>1, <3>2
    <3>3. CASE req[s].id = n /\ req[s].op = "update"
      <4>1. req[s].topic = {EditOf(n)}
        BY <3>3 DEF Base, RequestsOK, RequestOK
      <4>2. QED
        BY <2>1, <3>3, <4>1, EditPrintRaced
    <3>4. QED
      BY <3>1, <3>2, <3>3
  <2>7. \A s \in Requests \ {r} : (PrintKnows(req[s]) /\ UpdateKnows(req[s]))'
    BY <2>1, <2>3, <2>6, OthersKnow DEF Leaves
  <2>8. (PrintKnows(req[r]) /\ UpdateKnows(req[r]))'
    BY <2>2, IdleKnows
  <2>9. QED
    BY <2>5, <2>7, <2>8 DEF PrintInv
<1>13. QED
  BY <1>1, <1>2, <1>6, <1>7, <1>9, <1>10, <1>11, <1>12 DEF Writing

\* The document that was handed out shows the record as it is, as long as the record is
\* 'generated': update takes the status back whatever happened between, unless an edit
\* and a print of the record overlapped, or a client was the last to write the status,
\* and wrote 'generated' itself.
THEOREM GeneratedIsCurrentHolds == FormsSpec => []GeneratedIsCurrent
<1>1. FlightInit /\ FormsInit => PrintInv
  <2>1. SUFFICES ASSUME FlightInit, FormsInit PROVE PrintInv
    OBVIOUS
  <2>2. DOMAIN records = {}
    BY <2>1 DEF FormsInit
  <2>3. \A r \in Requests : req[r] = Idle
    BY <2>1 DEF FlightInit
  <2>4. QED
    BY <2>2, <2>3, IdleIs DEF PrintInv, PrintKnows, UpdateKnows
<1>2. Base /\ PrintInv /\ [FormsNext]_FormsFlight => PrintInv'
  BY PrintKept
<1>3. PrintInv => GeneratedIsCurrent
  BY DEF PrintInv, Claimed, Current, GeneratedIsCurrent, Apart, EditOf, PrintOf
<1>4. QED
  BY <1>1, <1>2, <1>3, BaseHolds, PTL DEF FormsSpec

-----------------------------------------------------------------------------
(* An import creates no record twice.                                      *)

\* A time that was given, or that the clock has already shown.
Past(at, count) == at[1] = "given" \/ \E k \in 1..count : at = <<"now", k>>

\* Of the rows still to be created no two are alike, and none is like a record of the form.
Queued(q, rows) ==
  q.op = "import" =>
    /\ \A i \in 1..Len(q.data) : q.data[i].at = None \/ Past(q.data[i].at, Len(rows))
    /\ \A i, j \in 1..Len(q.data) : i # j => KeyOfRow(q.data[i]) # KeyOfRow(q.data[j])
Unlike(q, row, told, races) ==
  q.op = "import" /\ row.live /\ row.form = q.id /\ ~told.renamed =>
    \/ {ImportOf(q.id)} \in races
    \/ \A i \in 1..Len(q.data) : q.data[i].at # None => KeyOfRow(q.data[i]) # <<row.ref, row.at>>
Twice(m, n) ==
  /\ m # n /\ records[m].live /\ records[n].live
  /\ records[m].form = records[n].form
  /\ records[m].at = records[n].at
  /\ records[m].ref = records[n].ref
ImportInv ==
  /\ \A n \in DOMAIN records : Past(records[n].at, Len(records))
  /\ \A r \in Requests : Queued(req[r], records)
  /\ \A r \in Requests, n \in DOMAIN records : Unlike(req[r], records[n], story[n], raced)
  /\ ImportOnce

LEMMA KeyIs == ASSUME NEW row PROVE KeyOfRow(row) = <<KeyOfRow(row)[1], row.at>>
BY DEF KeyOfRow, KeyOf

LEMMA NotNow ==
  ASSUME NEW at, NEW count \in Nat, Past(at, count)
  PROVE  at # <<"now", count + 1>>
<1>1. SUFFICES ASSUME at = <<"now", count + 1>> PROVE FALSE
  OBVIOUS
<1>2. at[1] # "given"
  BY <1>1
<1>3. PICK k \in 1..count : at = <<"now", k>>
  BY <1>2 DEF Past
<1>4. k = count + 1
  BY <1>1, <1>3
<1>5. QED
  BY <1>4

LEMMA StillPast ==
  ASSUME NEW at, NEW a \in Nat, NEW b \in Nat, a <= b, Past(at, a)
  PROVE  Past(at, b)
<1>1. 1..a \subseteq 1..b
  OBVIOUS
<1>2. QED
  BY <1>1 DEF Past

LEMMA NowIsPast == ASSUME NEW a \in Nat, NEW b \in Nat, a < b PROVE Past(<<"now", a + 1>>, b)
<1>1. a + 1 \in 1..b
  OBVIOUS
<1>2. QED
  BY <1>1 DEF Past

LEMMA ImportsRaced ==
  ASSUME Base, NEW r \in Requests, NEW s \in Requests, r # s, NEW f,
         req[r].topic = {AddForm, ImportOf(f)}, req[s].topic = {AddForm, ImportOf(f)}
  PROVE  {ImportOf(f)} \in raced
<1>1. {ImportOf(f), ImportOf(f)} \in raced
  BY Clashing DEF Base, PairsRaced
<1>2. {ImportOf(f), ImportOf(f)} = {ImportOf(f)}
  OBVIOUS
<1>3. QED
  BY <1>1, <1>2

\* What a record may become without becoming like another.
Aged(n) ==
  /\ records'[n].at = records[n].at
  /\ records'[n].live =>
       /\ records[n].live /\ records'[n].form = records[n].form
       /\ ~story'[n].renamed => ~story[n].renamed /\ records'[n].ref = records[n].ref
AllAged ==
  /\ raced \subseteq raced' /\ Len(records) \in Nat /\ Len(records') \in Nat
  /\ Len(records) <= Len(records')
  /\ DOMAIN records \subseteq DOMAIN records' /\ \A n \in DOMAIN records : Aged(n)

LEMMA OldOnes ==
  ASSUME ImportInv, AllAged
  PROVE  /\ \A n \in DOMAIN records : Past(records'[n].at, Len(records'))
         /\ \A r \in Requests : Queued(req[r], records')
         /\ \A r \in Requests, n \in DOMAIN records :
              Unlike(req[r], records'[n], story'[n], raced')
         /\ \A m, n \in DOMAIN records :
              /\ m # n /\ records'[m].live /\ records'[n].live
              /\ records'[m].form = records'[n].form
              /\ records'[m].at = records'[n].at
              /\ records'[m].ref = records'[n].ref
              => \/ {ImportOf(records'[n].form)} \in raced'
                 \/ story'[m].renamed \/ story'[n].renamed
<1>1. \A n \in DOMAIN records : Past(records'[n].at, Len(records'))
  BY StillPast DEF ImportInv, AllAged, Aged
<1>2. \A r \in Requests : Queued(req[r], records')
  BY StillPast DEF ImportInv, AllAged, Queued
<1>3. ASSUME NEW r \in Requests, NEW n \in DOMAIN records
      PROVE  Unlike(req[r], records'[n], story'[n], raced')
  <2>1. Unlike(req[r], records[n], story[n], raced) /\ Aged(n) /\ raced \subseteq raced'
    BY DEF ImportInv, AllAged
  <2>2. QED
    BY <2>1 DEF Unlike, Aged
<1>4. ASSUME NEW m \in DOMAIN records, NEW n \in DOMAIN records, m # n,
             records'[m].live, records'[n].live, records'[m].form = records'[n].form,
             records'[m].at = records'[n].at, records'[m].ref = records'[n].ref
      PROVE  \/ {ImportOf(records'[n].form)} \in raced'
             \/ story'[m].renamed \/ story'[n].renamed
  <2>1. SUFFICES ASSUME ~story'[m].renamed, ~story'[n].renamed
                 PROVE  {ImportOf(records'[n].form)} \in raced'
    OBVIOUS
  <2>2. Aged(m) /\ Aged(n) /\ raced \subseteq raced'
    BY DEF AllAged
  <2>3. /\ records[m].live /\ records[n].live /\ records[m].form = records[n].form
        /\ records[m].at = records[n].at /\ records[m].ref = records[n].ref
        /\ ~story[m].renamed /\ ~story[n].renamed /\ records'[n].form = records[n].form
    BY <1>4, <2>1, <2>2 DEF Aged
  <2>4. {ImportOf(records[n].form)} \in raced
    BY <1>4, <2>3 DEF ImportInv, ImportOnce, ImportOf
  <2>5. QED
    BY <2>2, <2>3, <2>4
<1>5. QED
  BY <1>1, <1>2, <1>3, <1>4

\* No record comes, and no import starts.
LEMMA NoneComes ==
  ASSUME ImportInv, AllAged, DOMAIN records' = DOMAIN records,
         \A s \in Requests : req'[s] = req[s] \/ req'[s].op # "import"
  PROVE  ImportInv'
<1>1. \A n \in DOMAIN records' : Past(records[n].at, Len(records))'
  BY OldOnes
<1>2. \A r \in Requests : Queued(req[r], records)'
  BY OldOnes DEF Queued
<1>3. ASSUME NEW r \in Requests, NEW n \in DOMAIN records'
      PROVE  Unlike(req[r], records[n], story[n], raced)'
  <2>1. CASE req'[r].op # "import"
    BY <2>1 DEF Unlike
  <2>2. CASE req'[r] = req[r]
    <3>1. Unlike(req[r], records'[n], story'[n], raced')
      BY OldOnes
    <3>2. QED
      BY <2>2, <3>1
  <2>3. QED
    BY <2>1, <2>2
<1>4. ImportOnce'
  BY OldOnes DEF ImportOnce, ImportOf
<1>5. QED
  BY <1>1, <1>2, <1>3, <1>4 DEF ImportInv

LEMMA ImportStarts ==
  ASSUME Base, ImportInv, NEW r \in Requests, NEW f \in DOMAIN forms,
         NEW file \in Rekaps \union {Rekap(f)}, Import(r, f, file)
  PROVE  ImportInv'
<1>1. /\ Others(r) /\ raced \subseteq raced' /\ UNCHANGED <<records, story>>
      /\ req'[r].op = "import" /\ req'[r].id = f /\ req'[r].data = Queue(f, file)
  BY ImportBase DEF ReadOnly, formVars
<1>2. AllAged
  BY <1>1, Tables DEF AllAged, Aged, Base
<1> DEFINE queue == Queue(f, file)
<1>3. /\ \A i \in 1..Len(queue) :
           /\ KeyOfRow(queue[i]) \notin Keys(f)
           /\ \E j \in 1..Len(file) : MadeOf(queue[i], file[j])
      /\ \A i, j \in 1..Len(queue) : i # j => KeyOfRow(queue[i]) # KeyOfRow(queue[j])
  BY FileIs, QueueFacts DEF Base
<1>4. \A j \in 1..Len(file) : file[j].at = None \/ Past(file[j].at, Len(records))
  BY FileIs DEF Base, ImportInv, Past
<1> HIDE DEF queue
<1>5. req'[r].data = queue
  BY <1>1 DEF queue
<1>6. Queued(req'[r], records)
  BY <1>3, <1>4, <1>5 DEF Queued, MadeOf
<1>7. ASSUME NEW n \in DOMAIN records
      PROVE  Unlike(req[r], records[n], story[n], raced)'
  <2>1. records[n].live /\ records[n].form = f => <<records[n].ref, records[n].at>> \in Keys(f)
    BY DEF Keys, RecordsOf
  <2>2. QED
    BY <1>1, <1>3, <1>5, <2>1 DEF Unlike
<1>8. \A s \in Requests : Queued(req[s], records)'
  BY <1>1, <1>6, OldOnes, <1>2 DEF Queued, Others
<1>9. \A s \in Requests, n \in DOMAIN records' : Unlike(req[s], records[n], story[n], raced)'
  <2>1. SUFFICES ASSUME NEW s \in Requests, NEW n \in DOMAIN records, s # r
                 PROVE  Unlike(req[s], records[n], story[n], raced)'
    BY <1>1, <1>7
  <2>2. req'[s] = req[s]
    BY <1>1, <2>1 DEF Others
  <2>3. Unlike(req[s], records'[n], story'[n], raced')
    BY <1>2, OldOnes
  <2>4. QED
    BY <2>2, <2>3
<1>10. ImportOnce' /\ \A n \in DOMAIN records' : Past(records[n].at, Len(records))'
  BY <1>1, <1>2, OldOnes DEF ImportOnce, ImportOf
<1>11. QED
  BY <1>8, <1>9, <1>10 DEF ImportInv

\* The row of a submission has a time that no row had.
LEMMA CreateImports ==
  ASSUME Base, ImportInv, NEW r \in Requests, Create(r)
  PROVE  ImportInv'
<1>1. /\ Base' /\ Others(r) /\ req'[r] = Idle /\ UNCHANGED raced
  BY CreateBase DEF Leaves
<1>2. \A s \in Requests : req'[s] = req[s] \/ req'[s].op # "import"
  BY <1>1, IdleIs DEF Others
<1>3. CASE UNCHANGED <<records, story>>
  <2>1. AllAged
    BY <1>1, <1>3, Tables DEF AllAged, Aged, Base
  <2>2. QED
    BY <1>2, <1>3, <2>1, NoneComes
<1>4. CASE ~UNCHANGED <<records, story>>
  <2>0. PICK new : new = Len(records) + 1
    OBVIOUS
  <2>1. /\ DOMAIN records' = DOMAIN records \union {new} /\ new \notin DOMAIN records
        /\ \A m \in DOMAIN records : records'[m] = records[m] /\ story'[m] = story[m]
        /\ records'[new] = Row(req[r].id, req[r].data.values, req[r].data.ref, "submitted", Now)
    BY <1>4, <2>0, CreateBase
  <2>2. Len(records) \in Nat /\ Len(records') \in Nat /\ Len(records) < Len(records')
    <3>1. DOMAIN records' = 1..Len(records') /\ Len(records') \in Nat /\ Len(records) \in Nat
      BY <1>1, SeqDomain, Tables DEF Base, TablesOK, IsSeq
    <3>2. new \in 1..Len(records')
      BY <2>1, <3>1
    <3>3. QED
      BY <2>0, <3>1, <3>2
  <2>3. AllAged
    BY <1>1, <2>1, <2>2 DEF AllAged, Aged
  <2>4. records'[new].at = Now
    BY <2>1 DEF Row
  <2>5. Now = <<"now", Len(records) + 1>>
    BY DEF Now
  <2>6. \A at : Past(at, Len(records)) => at # Now
    BY <2>2, <2>5, NotNow
  <2>7. Past(Now, Len(records'))
    BY <2>2, <2>5, NowIsPast
  <2>8. \A n \in DOMAIN records' : Past(records[n].at, Len(records))'
    BY <2>1, <2>3, <2>4, <2>7, OldOnes
  <2>9. ASSUME NEW s \in Requests
        PROVE  Queued(req[s], records)'
    <3>1. CASE req'[s].op # "import"
      BY <3>1 DEF Queued
    <3>2. CASE req'[s] = req[s]
      <4>1. Queued(req[s], records')
        BY <2>3, OldOnes
      <4>2. QED
        BY <3>2, <4>1
    <3>3. QED
      BY <1>2, <3>1, <3>2
  <2>10. ASSUME NEW s \in Requests, NEW n \in DOMAIN records'
         PROVE  Unlike(req[s], records[n], story[n], raced)'
    <3>1. CASE req'[s].op # "import"
      BY <3>1 DEF Unlike
    <3>2. CASE req'[s] = req[s] /\ n \in DOMAIN records
      <4>1. Unlike(req[s], records'[n], story'[n], raced')
        BY <2>3, <3>2, OldOnes
      <4>2. QED
        BY <3>2, <4>1
    <3>3. CASE req'[s] = req[s] /\ n = new
      <4>1. Queued(req[s], records)
        BY DEF ImportInv
      <4>2. ASSUME req[s].op = "import", NEW i \in 1..Len(req[s].data), req[s].data[i].at # None
            PROVE  KeyOfRow(req[s].data[i]) # <<records'[n].ref, records'[n].at>>
        <5>1. Past(req[s].data[i].at, Len(records))
          BY <4>1, <4>2 DEF Queued
        <5>2. req[s].data[i].at # records'[n].at
          BY <2>4, <2>6, <3>3, <5>1
        <5>3. KeyOfRow(req[s].data[i]) = <<KeyOfRow(req[s].data[i])[1], req[s].data[i].at>>
          BY KeyIs
        <5>4. QED
          BY <5>2, <5>3
      <4>3. Unlike(req[s], records'[n], story'[n], raced')
        BY <4>2 DEF Unlike
      <4>4. QED
        BY <3>3, <4>3
    <3>4. QED
      BY <1>2, <2>1, <3>1, <3>2, <3>3
  <2>11. \A m \in DOMAIN records : records'[m].at # records'[new].at
    BY <2>1, <2>4, <2>6 DEF ImportInv
  <2>12. ImportOnce'
    BY <2>1, <2>3, <2>11, OldOnes DEF ImportOnce, ImportOf
  <2>13. QED
    BY <2>8, <2>9, <2>10, <2>12 DEF ImportInv
<1>5. QED
  BY <1>3, <1>4

\* The key that a row becomes is its own, or has a time that no row had.
LEMMA KeyCreated ==
  ASSUME NEW row, Len(records) \in Nat, row.at = None \/ Past(row.at, Len(records))
  PROVE  \/ row.at = None /\ ImportedAt(row) = <<"now", Len(records) + 1>>
         \/ row.at # None /\ ImportedAt(row) = row.at /\ Past(row.at, Len(records))
            /\ KeyOfRow(row) = <<KeyOfRow(row)[1], ImportedAt(row)>>
BY KeyIs DEF ImportedAt, Now

LEMMA ChunkImports ==
  ASSUME Base, ImportInv, NEW r \in Requests, ImportChunk(r)
  PROVE  ImportInv'
<1>0. PICK f, rows, old : f = req[r].id /\ rows = req[r].data /\ old = Len(records)
  OBVIOUS
<1> DEFINE chunk == Chunk(rows)
<1>1. /\ Base' /\ Others(r) /\ UNCHANGED raced
      /\ req[r].op = "import" /\ req[r].topic = {AddForm, ImportOf(f)} /\ IsSeq(rows)
  BY <1>0, ImportChunkBase
<1>2. /\ Grown(r)
      /\ \A m \in DOMAIN records' \ DOMAIN records :
           \E i \in 1..Len(chunk) : /\ m = old + i /\ rows # <<>>
                                    /\ records'[m] = Imported(f, chunk[i])
                                    /\ story'[m] = Born(None)
  BY <1>0, ImportGrows
<1>3. /\ req'[r] = Idle
      \/ /\ rows # <<>> /\ req'[r].op = "import" /\ req'[r].id = f
         /\ req'[r].data = SubSeq(rows, Len(chunk) + 1, Len(rows))
  BY <1>0, ImportChunkBase
<1>4. old \in Nat /\ Len(records') \in Nat /\ old <= Len(records') /\ DOMAIN records = 1..old
      /\ DOMAIN records' = 1..Len(records')
  <2>1. DOMAIN records' = 1..Len(records') /\ Len(records') \in Nat /\ old \in Nat /\ DOMAIN records = 1..old
    BY <1>0, <1>1, SeqDomain, Tables DEF Base, TablesOK, IsSeq
  <2>2. DOMAIN records \subseteq DOMAIN records'
    BY <1>2 DEF Grown
  <2>3. old = 0 \/ old \in 1..Len(records')
    BY <2>1, <2>2
  <2>4. QED
    BY <2>1, <2>3
<1>5. AllAged
  BY <1>0, <1>1, <1>2, <1>4 DEF AllAged, Aged, Grown
<1>6. Queued(req[r], records) /\ \A n \in DOMAIN records : Unlike(req[r], records[n], story[n], raced)
  BY DEF ImportInv
<1>7. /\ \A i \in 1..Len(rows) : rows[i].at = None \/ Past(rows[i].at, old)
      /\ \A i, j \in 1..Len(rows) : i # j => KeyOfRow(rows[i]) # KeyOfRow(rows[j])
  BY <1>0, <1>1, <1>6 DEF Queued
<1>8. ASSUME NEW n \in DOMAIN records, records[n].live, records[n].form = f, ~story[n].renamed,
             {ImportOf(f)} \notin raced, NEW i \in 1..Len(rows), rows[i].at # None
      PROVE  KeyOfRow(rows[i]) # <<records[n].ref, records[n].at>>
  BY <1>0, <1>1, <1>6, <1>8 DEF Unlike
\* What becomes of row i.
<1> DEFINE Made(m, i) ==
             /\ i \in 1..Len(chunk) /\ i \in 1..Len(rows) /\ m = old + i
             /\ records'[m].live = TRUE /\ records'[m].form = f
             /\ records'[m].ref = KeyOfRow(rows[i])[1]
             /\ \/ rows[i].at = None /\ records'[m].at = <<"now", old + 1>>
                \/ /\ rows[i].at # None /\ records'[m].at = rows[i].at /\ Past(rows[i].at, old)
                   /\ KeyOfRow(rows[i]) = <<records'[m].ref, records'[m].at>>
<1>9. ASSUME NEW m \in DOMAIN records' \ DOMAIN records
      PROVE  \E i : Made(m, i)
  <2>1. PICK i \in 1..Len(chunk) : /\ m = old + i /\ rows # <<>>
                                   /\ records'[m] = Imported(f, chunk[i])
    BY <1>2
  <2>2. chunk[i] = rows[i] /\ i \in 1..Len(rows)
    <3>1. Len(chunk) \in 1..Len(rows) /\ Len(rows) \in Nat /\ \A k \in 1..Len(chunk) : chunk[k] = rows[k]
      BY <1>1, <2>1, ChunkIs DEF IsSeq
    <3> HIDE DEF chunk
    <3>2. QED
      BY <3>1
  <2>3. /\ records'[m].live = TRUE /\ records'[m].form = f
        /\ records'[m].ref = KeyOfRow(rows[i])[1] /\ records'[m].at = ImportedAt(rows[i])
    <3>1. records'[m] = Imported(f, rows[i])
      BY <2>1, <2>2
    <3> HIDE DEF Made, chunk
    <3>2. records'[m].live = TRUE /\ records'[m].form = f
      BY <3>1 DEF Imported, Row
    <3>3. records'[m].ref = KeyOfRow(rows[i])[1] /\ records'[m].at = ImportedAt(rows[i])
      <4>1. KeyOf(rows[i].values, None)[1] = KeyOfRow(rows[i])[1]
        BY DEF KeyOf, KeyOfRow
      <4>2. QED
        BY <3>1, <4>1 DEF Imported, Row
    <3>4. QED
      BY <3>2, <3>3
  <2>4. rows[i].at = None \/ Past(rows[i].at, Len(records))
    BY <1>0, <1>7, <2>2
  <2>5. \/ rows[i].at = None /\ ImportedAt(rows[i]) = <<"now", old + 1>>
        \/ /\ rows[i].at # None /\ ImportedAt(rows[i]) = rows[i].at /\ Past(rows[i].at, old)
           /\ KeyOfRow(rows[i]) = <<KeyOfRow(rows[i])[1], ImportedAt(rows[i])>>
    BY <1>0, <1>4, <2>4, KeyCreated
  <2>6. Made(m, i)
    BY <2>1, <2>2, <2>3, <2>5
  <2>7. QED
    BY <2>6
<1>10. \A m, i : Made(m, i) => /\ i \in 1..Len(chunk) /\ i \in 1..Len(rows) /\ m = old + i
                               /\ records'[m].live = TRUE /\ records'[m].form = f
  OBVIOUS
\* Unlike a row that has a time.
<1>11. ASSUME NEW m, NEW i, Made(m, i), NEW row, Past(row.at, old),
              KeyOfRow(row) # KeyOfRow(rows[i])
       PROVE  KeyOfRow(row) # <<records'[m].ref, records'[m].at>>
  <2>1. KeyOfRow(row) = <<KeyOfRow(row)[1], row.at>>
    BY KeyIs
  <2>2. row.at # <<"now", old + 1>>
    BY <1>4, <1>11, NotNow
  <2>3. QED
    BY <1>11, <2>1, <2>2
<1> HIDE DEF Made
<1>12. \A n \in DOMAIN records' : Past(records[n].at, Len(records))'
  <2>1. SUFFICES ASSUME NEW m \in DOMAIN records' \ DOMAIN records
                 PROVE  Past(records'[m].at, Len(records'))
    BY <1>5, OldOnes
  <2>2. PICK i : Made(m, i)
    BY <1>9
  <2>3. records'[m].at = <<"now", old + 1>> \/ Past(records'[m].at, old)
    BY <2>2 DEF Made
  <2>4. old < Len(records')
    BY <1>4, <2>1, <1>10, <2>2
  <2>5. QED
    BY <1>4, <2>3, <2>4, NowIsPast, StillPast
<1>13. ASSUME NEW s \in Requests \ {r}
       PROVE  /\ Queued(req[s], records)'
              /\ \A n \in DOMAIN records' : Unlike(req[s], records[n], story[n], raced)'
  <2>1. req'[s] = req[s] /\ Queued(req[s], records')
        /\ \A n \in DOMAIN records : Unlike(req[s], records'[n], story'[n], raced')
    BY <1>1, <1>5, OldOnes DEF Others
  <2>2. ASSUME NEW n \in DOMAIN records', n \notin DOMAIN records
        PROVE  Unlike(req[s], records'[n], story'[n], raced')
    <3>1. records'[n].form = f
      BY <1>9, <1>10, <2>2
    <3>2. req[s].op = "import" /\ req[s].id = f => {ImportOf(f)} \in raced
      <4>1. SUFFICES ASSUME req[s].op = "import", req[s].id = f PROVE {ImportOf(f)} \in raced
        OBVIOUS
      <4>2. req[s].topic = {AddForm, ImportOf(f)}
        BY <4>1 DEF Base, RequestsOK, RequestOK
      <4>3. QED
        BY <1>1, <4>2, ImportsRaced
    <3>3. QED
      BY <1>1, <3>1, <3>2 DEF Unlike
  <2>3. QED
    BY <2>1, <2>2
<1>14. /\ Queued(req[r], records)'
       /\ \A n \in DOMAIN records' : Unlike(req[r], records[n], story[n], raced)'
  <2>1. CASE req'[r] = Idle
    BY <2>1, IdleIs DEF Queued, Unlike
  <2>2. CASE req'[r] # Idle
    <3>0. PICK rest : rest = req'[r].data
      OBVIOUS
    <3>1. /\ rows # <<>> /\ req'[r].op = "import" /\ req'[r].id = f
          /\ rest = SubSeq(rows, Len(chunk) + 1, Len(rows))
      BY <1>3, <2>2, <3>0
    <3>2. /\ Len(rest) = Len(rows) - Len(chunk) /\ Len(chunk) \in 1..Len(rows)
          /\ \A j \in 1..Len(rest) : rest[j] = rows[Len(chunk) + j]
          /\ Len(rows) \in Nat
      BY <1>1, <3>1, ChunkIs DEF IsSeq
    <3> HIDE DEF chunk
    <3>3. ASSUME NEW j \in 1..Len(rest)
          PROVE  Len(chunk) + j \in 1..Len(rows) /\ Len(chunk) + j \notin 1..Len(chunk)
                 /\ j \in Nat
      BY <3>2
    <3>4. Len(chunk) \in Nat
      BY <3>2
    <3>5. ASSUME NEW i \in 1..Len(rest), NEW j \in 1..Len(rest), i # j
          PROVE  KeyOfRow(rest[i]) # KeyOfRow(rest[j])
      <4>1. Len(chunk) + i # Len(chunk) + j
        BY <3>4, <3>5
      <4>2. QED
        BY <1>7, <3>2, <3>3, <4>1
    <3>6. \A j \in 1..Len(rest) : rest[j].at = None \/ Past(rest[j].at, old)
      BY <1>7, <3>2, <3>3
    <3>7. \A j \in 1..Len(rest) : rest[j].at = None \/ Past(rest[j].at, Len(records'))
      BY <1>4, <3>6, StillPast
    <3>8. Queued(req[r], records)'
      BY <3>0, <3>1, <3>5, <3>7 DEF Queued
    <3>9. ASSUME NEW n \in DOMAIN records', records'[n].live, records'[n].form = f,
                 ~story'[n].renamed, {ImportOf(f)} \notin raced,
                 NEW j \in 1..Len(rest), rest[j].at # None
          PROVE  KeyOfRow(rest[j]) # <<records'[n].ref, records'[n].at>>
      <4>1. CASE n \in DOMAIN records
        <5>1. records'[n] = records[n] /\ story'[n] = story[n]
          BY <1>2, <4>1 DEF Grown
        <5>2. QED
          BY <1>8, <3>2, <3>3, <3>9, <4>1, <5>1
      <4>2. CASE n \notin DOMAIN records
        <5>1. PICK i : Made(n, i)
          BY <1>9, <4>2
        <5>2. i \in 1..Len(chunk) /\ i \in 1..Len(rows)
          BY <1>10, <5>1
        <5>3. KeyOfRow(rest[j]) # KeyOfRow(rows[i])
          BY <1>7, <3>2, <3>3, <5>2
        <5>4. Past(rest[j].at, old)
          BY <3>6, <3>9
        <5>5. QED
          BY <1>11, <5>1, <5>3, <5>4
      <4>3. QED
        BY <4>1, <4>2
    <3>10. \A n \in DOMAIN records' : Unlike(req[r], records[n], story[n], raced)'
      BY <1>1, <3>0, <3>1, <3>9 DEF Unlike
    <3>11. QED
      BY <3>8, <3>10
  <2>3. QED
    BY <2>1, <2>2
\* A row that is made, and one that was before.
<1>15. ASSUME NEW m \in DOMAIN records' \ DOMAIN records, NEW n \in DOMAIN records,
              records'[n].live, records'[n].form = f, ~story'[n].renamed,
              {ImportOf(f)} \notin raced
       PROVE  records'[m].at # records'[n].at \/ records'[m].ref # records'[n].ref
  <2>1. PICK i : Made(m, i)
    BY <1>9
  <2>2. records'[n] = records[n] /\ story'[n] = story[n]
    BY <1>2 DEF Grown
  <2>3. records[n].at # <<"now", old + 1>>
    BY <1>0, <1>4, NotNow DEF ImportInv
  <2>4. CASE rows[i].at = None
    BY <2>1, <2>2, <2>3, <2>4 DEF Made
  <2>5. CASE rows[i].at # None
    <3>1. KeyOfRow(rows[i]) = <<records'[m].ref, records'[m].at>> /\ i \in 1..Len(rows)
      BY <2>1, <2>5 DEF Made
    <3>2. KeyOfRow(rows[i]) # <<records[n].ref, records[n].at>>
      BY <1>8, <1>15, <2>2, <2>5, <3>1
    <3>3. QED
      BY <2>2, <3>1, <3>2
  <2>6. QED
    BY <2>4, <2>5
\* Two rows that are made.
<1>16. ASSUME NEW m \in DOMAIN records' \ DOMAIN records, NEW n \in DOMAIN records' \ DOMAIN records,
              m # n
       PROVE  records'[m].at # records'[n].at \/ records'[m].ref # records'[n].ref
  <2>1. PICK i : Made(m, i)
    BY <1>9
  <2>2. PICK j : Made(n, j)
    BY <1>9
  <2>3. i # j /\ i \in 1..Len(rows) /\ j \in 1..Len(rows)
    BY <1>10, <1>16, <2>1, <2>2
  <2>4. KeyOfRow(rows[i]) # KeyOfRow(rows[j])
    BY <1>7, <2>3
  <2>5. \A at : Past(at, old) => at # <<"now", old + 1>>
    BY <1>4, NotNow
  <2>6. CASE rows[i].at = None /\ rows[j].at = None
    <3>1. KeyOfRow(rows[i])[1] # KeyOfRow(rows[j])[1]
      <4>1. KeyOfRow(rows[i]) = <<KeyOfRow(rows[i])[1], rows[i].at>>
            /\ KeyOfRow(rows[j]) = <<KeyOfRow(rows[j])[1], rows[j].at>>
        BY KeyIs
      <4>2. QED
        BY <2>4, <2>6, <4>1
    <3>2. records'[m].ref = KeyOfRow(rows[i])[1] /\ records'[n].ref = KeyOfRow(rows[j])[1]
      BY <2>1, <2>2 DEF Made
    <3>3. QED
      BY <3>1, <3>2
  <2>7. CASE rows[i].at = None /\ rows[j].at # None
    BY <2>1, <2>2, <2>5, <2>7 DEF Made
  <2>8. CASE rows[i].at # None /\ rows[j].at = None
    BY <2>1, <2>2, <2>5, <2>8 DEF Made
  <2>9. CASE rows[i].at # None /\ rows[j].at # None
    <3>1. /\ KeyOfRow(rows[i]) = <<records'[m].ref, records'[m].at>>
          /\ KeyOfRow(rows[j]) = <<records'[n].ref, records'[n].at>>
      BY <2>1, <2>2, <2>9 DEF Made
    <3>2. QED
      BY <2>4, <3>1
  <2>10. QED
    BY <2>6, <2>7, <2>8, <2>9
<1>17. ImportOnce'
  <2>1. SUFFICES ASSUME NEW m \in DOMAIN records', NEW n \in DOMAIN records',
                        m # n, records'[m].live, records'[n].live,
                        records'[m].form = records'[n].form,
                        records'[m].at = records'[n].at, records'[m].ref = records'[n].ref,
                        ~story'[m].renamed, ~story'[n].renamed
                 PROVE  {ImportOf(records'[n].form)} \in raced'
    BY DEF ImportOnce, ImportOf
  <2>2. CASE m \in DOMAIN records /\ n \in DOMAIN records
    BY <1>5, <2>1, <2>2, OldOnes
  <2>3. CASE m \notin DOMAIN records /\ n \in DOMAIN records
    <3>1. records'[m].form = f
      BY <1>9, <1>10, <2>3
    <3>2. QED
      BY <1>1, <1>15, <2>1, <2>3, <3>1
  <2>4. CASE m \in DOMAIN records /\ n \notin DOMAIN records
    <3>1. records'[n].form = f
      BY <1>9, <1>10, <2>4
    <3>2. QED
      BY <1>1, <1>15, <2>1, <2>4, <3>1
  <2>5. CASE m \notin DOMAIN records /\ n \notin DOMAIN records
    BY <1>16, <2>1, <2>5
  <2>6. QED
    BY <2>2, <2>3, <2>4, <2>5
<1>18. QED
  BY <1>12, <1>13, <1>14, <1>17 DEF ImportInv

LEMMA ImportKept ==
  ASSUME Base, ImportInv, [FormsNext]_FormsFlight
  PROVE  ImportInv'
<1>1. Base' /\ (Aside({"import"}) \/ OnlyReads({"import"}) \/ Writing)
  BY EveryStep
<1>2. /\ Len(records) \in Nat /\ DOMAIN records = 1..Len(records)
      /\ Len(records') \in Nat /\ DOMAIN records' = 1..Len(records')
      /\ IsSeq(records) /\ IsSeq(records')
  BY <1>1, SeqDomain, Tables DEF Base, TablesOK, IsSeq
<1>3. DOMAIN records' = DOMAIN records => Len(records) <= Len(records')
  <2>1. Len(records) = 0 \/ Len(records) \in 1..Len(records)
    BY <1>2
  <2>2. QED
    BY <1>2, <2>1
<1>4. CASE Aside({"import"})
  <2>1. AllAged
    BY <1>2, <1>3, <1>4 DEF Aside, AllAged, Aged
  <2>2. QED
    BY <1>4, <2>1, NoneComes DEF Aside
<1>5. CASE OnlyReads({"import"})
  BY <1>5, ImportStarts DEF OnlyReads
<1>6. CASE \E n \in DOMAIN records : RemoveRecord(n)
  <2>1. PICK n \in DOMAIN records : RemoveRecord(n)
    BY <1>6
  <2>2. UNCHANGED <<req, raced>> /\ Elsewhere(n) /\ ~records'[n].live /\ records'[n].at = records[n].at
    BY <2>1, RemoveRecordBase
  <2>3. AllAged
    BY <1>2, <1>3, <2>2 DEF AllAged, Aged, Elsewhere
  <2>4. QED
    BY <2>2, <2>3, NoneComes DEF Elsewhere
<1>7. ASSUME NEW r \in Requests, Leaves(r), DOMAIN records' = DOMAIN records,
             \A n \in DOMAIN records : Aged(n)
      PROVE  ImportInv'
  <2>1. \A s \in Requests : req'[s] = req[s] \/ req'[s].op # "import"
    BY <1>7, IdleIs DEF Leaves, Others
  <2>2. AllAged
    BY <1>2, <1>3, <1>7 DEF AllAged, Leaves
  <2>3. QED
    BY <1>7, <2>1, <2>2, NoneComes
<1>8. ASSUME NEW r \in Requests, Delete(r)
      PROVE  ImportInv'
  <2>1. /\ Leaves(r) /\ DOMAIN records' = DOMAIN records
        /\ \A n \in DOMAIN records : ~records'[n].live /\ records'[n].at = records[n].at
    BY <1>8, DeleteBase
  <2>2. QED
    BY <1>7, <2>1 DEF Aged
<1>9. ASSUME NEW r \in Requests, Write(r)
      PROVE  ImportInv'
  <2>0. PICK n : n = req[r].id
    OBVIOUS
  <2>1. Leaves(r) /\ n \in DOMAIN records
    BY <1>9, <2>0, WriteBase
  <2>2. CASE UNCHANGED <<records, story>>
    BY <1>7, <2>1, <2>2 DEF Aged
  <2>3. CASE ~UNCHANGED <<records, story>>
    <3>1. /\ Elsewhere(n)
          /\ records'[n].live = records[n].live /\ records'[n].form = records[n].form
          /\ records'[n].at = records[n].at
          /\ story'[n].renamed = (story[n].renamed \/ records'[n].ref # records[n].ref)
      BY <1>9, <2>0, <2>3, WriteBase
    <3>2. Aged(n)
      BY <3>1 DEF Aged
    <3>3. DOMAIN records' = DOMAIN records /\ \A m \in DOMAIN records : Aged(m)
      BY <3>1, <3>2 DEF Elsewhere, Aged
    <3>4. QED
      BY <1>7, <2>1, <3>3
  <2>4. QED
    BY <2>2, <2>3
<1>10. ASSUME NEW r \in Requests, MarkGenerated(r)
       PROVE  ImportInv'
  <2>0. PICK n : n = req[r].id
    OBVIOUS
  <2>1. /\ Leaves(r) /\ n \in DOMAIN records /\ Elsewhere(n)
        /\ records'[n] = records[n] \/ records'[n] = [records[n] EXCEPT !.status = "generated"]
        /\ story'[n] = [story[n] EXCEPT !.printed = req[r].data, !.byHand = FALSE]
        /\ RecordOK(records[n]) /\ StoryOK(story[n])
    BY <1>10, <2>0, MarkGeneratedBase
  <2>2. /\ records'[n].live = records[n].live /\ records'[n].form = records[n].form
        /\ records'[n].at = records[n].at /\ records'[n].ref = records[n].ref
        /\ story'[n].renamed = story[n].renamed
    BY <2>1 DEF RecordOK, StoryOK
  <2>3. DOMAIN records' = DOMAIN records /\ \A m \in DOMAIN records : Aged(m)
    BY <2>1, <2>2 DEF Elsewhere, Aged
  <2>4. QED
    BY <1>7, <2>1, <2>3
<1>11. QED
  BY <1>1, <1>4, <1>5, <1>6, <1>8, <1>9, <1>10, CreateImports, ChunkImports DEF Writing

\* "Kunci idempoten: ID tiket + timestamp": no two records of a form share their reference
\* number and timestamp, the pair by which importRekap knows a record, whatever the files
\* hold and however large the chunks, unless two imports overlapped or an edit changed the
\* reference number.
THEOREM ImportOnceHolds == FormsSpec => []ImportOnce
<1>1. FlightInit /\ FormsInit => ImportInv
  <2>1. SUFFICES ASSUME FlightInit, FormsInit PROVE ImportInv
    OBVIOUS
  <2>2. DOMAIN records = {}
    BY <2>1 DEF FormsInit
  <2>3. \A r \in Requests : req[r] = Idle
    BY <2>1 DEF FlightInit
  <2>4. QED
    BY <2>2, <2>3, IdleIs DEF ImportInv, Queued, Unlike, ImportOnce
<1>2. Base /\ ImportInv /\ [FormsNext]_FormsFlight => ImportInv'
  BY ImportKept
<1>3. ImportInv => ImportOnce
  BY DEF ImportInv
<1>4. QED
  BY <1>1, <1>2, <1>3, BaseHolds, PTL DEF FormsSpec

-----------------------------------------------------------------------------
(* What coerce makes of a value.                                           *)

LEMMA OneIs == ASSUME NEW w PROVE IsSeq(<<w>>) /\ <<w>> # <<>> /\ Len(<<w>>) = 1 /\ <<w>>[1] = w
<1>1. <<w>> \in Seq({w}) /\ <<w>> # <<>> /\ Len(<<w>>) = 1 /\ <<w>>[1] = w
  OBVIOUS
<1>2. QED
  BY <1>1, SeqIs

LEMMA FullIs == ASSUME NEW s, IsSeq(s), s # <<>> PROVE 1 \in DOMAIN s
<1>1. Len(s) # 0
  <2>1. SUFFICES ASSUME Len(s) = 0 PROVE FALSE
    OBVIOUS
  <2>2. s = [i \in 1..0 |-> s[i]]
    BY <2>1 DEF IsSeq
  <2>3. s \in Seq({})
    BY <2>1, SeqOfIts
  <2>4. QED
    BY <2>1, <2>3
<1>2. Len(s) \in Nat /\ DOMAIN s = 1..Len(s)
  BY SeqDomain DEF IsSeq
<1>3. QED
  BY <1>1, <1>2

LEMMA WordIs ==
  ASSUME NEW w
  PROVE  /\ Word(Text(w)) = w /\ Word(Num(w)) = w /\ Word(Iso(w)) = w
         /\ NumberWord(Num(w)) = w
BY DEF Word, Text, Num, Iso, NumberWord, IsList

LEMMA BooleanRead ==
  ASSUME NEW field, NEW raw, field.type = "BOOLEAN"
  PROVE  LET yes == {<<"boolean", "true">>, <<"text", "true">>, <<"number", "1">>} IN
           Coerce(field, raw) = IF <<raw.kind, Word(raw)>> \in yes THEN Truth(TRUE) ELSE Truth(FALSE)
BY DEF Coerce, Truth

LEMMA CoerceCases ==
  ASSUME NEW field, NEW raw, Passes(Coerce(field, raw))
  PROVE  \/ /\ field.type = "NUMBER" /\ NumberWord(raw) \in Numeric \intersect field.fits
            /\ Coerce(field, raw) = Num(NumberWord(raw))
         \/ /\ field.type = "BOOLEAN"
            /\ Coerce(field, raw) \in {Truth(TRUE), Truth(FALSE)}
         \/ /\ field.type = "DATE" /\ Word(raw) \in Dates
            /\ Coerce(field, raw) = Iso(Word(raw))
         \/ /\ field.type = "SELECT" /\ Word(raw) \in field.options
            /\ Coerce(field, raw) = Text(Word(raw))
         \/ /\ field.type = "MULTISELECT"
            /\ \A n \in DOMAIN Words(raw) : Words(raw)[n] \in field.options
            /\ Coerce(field, raw) = List(Words(raw))
         \/ /\ field.type = "FILE" /\ Coerce(field, raw) = List(Words(raw))
         \/ /\ field.type = "TABLE"
            /\ raw.kind = "rows" /\ \A n \in DOMAIN raw.is : Complete(field, raw.is[n])
            /\ Coerce(field, raw) = Rows([n \in DOMAIN raw.is |-> Cleaned(field, raw.is[n])])
         \/ /\ field.type \notin {"NUMBER", "BOOLEAN", "DATE", "SELECT", "MULTISELECT", "FILE", "TABLE"}
            /\ Word(raw) \in field.fits
            /\ Coerce(field, raw) = Text(Word(raw))
<1>1. ~Passes(Refused)
  BY DEF Passes, Refused
<1>2. CASE field.type = "NUMBER"
  BY <1>1, <1>2 DEF Coerce
<1>3. CASE field.type = "BOOLEAN"
  BY <1>3, BooleanRead
<1>4. CASE field.type = "DATE"
  BY <1>1, <1>4 DEF Coerce
<1>5. CASE field.type = "SELECT"
  BY <1>1, <1>5 DEF Coerce
<1>6. CASE field.type = "MULTISELECT"
  BY <1>1, <1>6 DEF Coerce
<1>7. CASE field.type = "FILE"
  BY <1>1, <1>7 DEF Coerce
<1>8. CASE field.type = "TABLE"
  BY <1>1, <1>8 DEF Coerce
<1>9. CASE field.type \notin {"NUMBER", "BOOLEAN", "DATE", "SELECT", "MULTISELECT", "FILE", "TABLE"}
  BY <1>1, <1>9 DEF Coerce
<1>10. QED
  BY <1>2, <1>3, <1>4, <1>5, <1>6, <1>7, <1>8, <1>9

\* coerce (with what validateValues asks of its result) may be applied to its own result:
\* what a field accepted once it accepts again, and makes the same of it. That is why an
\* edit may pass all the stored values through the validation a second time.
THEOREM CoerceIdempotent ==
  ASSUME NEW field, NEW raw, Passes(Coerce(field, raw))
  PROVE  Coerce(field, Coerce(field, raw)) = Coerce(field, raw)
<1> DEFINE w == Word(raw)
           n == NumberWord(raw)
           s == Words(raw)
<1>1. CASE field.type = "NUMBER" /\ n \in Numeric \intersect field.fits /\ Coerce(field, raw) = Num(n)
  <2> HIDE DEF n
  <2>1. QED
    BY <1>1, WordIs DEF Coerce
<1>2. CASE field.type = "BOOLEAN" /\ Coerce(field, raw) \in {Truth(TRUE), Truth(FALSE)}
  <2>1. \A b \in BOOLEAN : Coerce(field, Truth(b)) = Truth(b)
    <3>1. Truth(TRUE).kind = "boolean" /\ Word(Truth(TRUE)) = "true"
          /\ Truth(FALSE).kind = "boolean" /\ Word(Truth(FALSE)) = "false"
      BY DEF Truth, Word, IsList
    <3>2. Coerce(field, Truth(TRUE)) = Truth(TRUE)
      BY <1>2, <3>1, BooleanRead
    <3>3. Coerce(field, Truth(FALSE)) = Truth(FALSE)
      BY <1>2, <3>1, BooleanRead
    <3>4. QED
      BY <3>2, <3>3
  <2>2. QED
    BY <1>2, <2>1
<1>3. CASE field.type = "DATE" /\ w \in Dates /\ Coerce(field, raw) = Iso(w)
  <2> HIDE DEF w
  <2>1. QED
    BY <1>3, WordIs DEF Coerce
<1>4. CASE field.type = "SELECT" /\ w \in field.options /\ Coerce(field, raw) = Text(w)
  <2> HIDE DEF w
  <2>1. Text(w).kind # "padded"
    BY DEF Text
  <2>2. QED
    BY <1>4, <2>1, WordIs DEF Coerce
<1>5. ASSUME Coerce(field, raw) = List(s)
      PROVE  Words(List(s)) = s /\ List(s).kind # "padded"
  BY DEF Words, List
<1>6. CASE /\ field.type = "MULTISELECT" /\ \A i \in DOMAIN s : s[i] \in field.options
           /\ Coerce(field, raw) = List(s)
  <2> HIDE DEF s
  <2>1. QED
    BY <1>5, <1>6 DEF Coerce
<1>7. CASE field.type = "FILE" /\ Coerce(field, raw) = List(s)
  <2> HIDE DEF s
  <2>1. QED
    BY <1>5, <1>7 DEF Coerce
<1>8. CASE /\ field.type = "TABLE" /\ \A i \in DOMAIN raw.is : Complete(field, raw.is[i])
           /\ Coerce(field, raw) = Rows([i \in DOMAIN raw.is |-> Cleaned(field, raw.is[i])])
  <2> DEFINE t == [i \in DOMAIN raw.is |-> Cleaned(field, raw.is[i])]
  <2>1. ASSUME NEW i \in DOMAIN t
        PROVE  Complete(field, t[i]) /\ Cleaned(field, t[i]) = t[i]
    <3> DEFINE row == raw.is[i]
    <3>1. Complete(field, row) /\ t[i] = Cleaned(field, row)
      BY <1>8, <2>1
    <3> HIDE DEF row, t
    <3>2. /\ DOMAIN t[i] = field.columns
          /\ \A c \in field.columns : Word(t[i][c]) = Word(row[c]) /\ t[i][c] = Text(Word(row[c]))
      BY <3>1, WordIs DEF Cleaned
    <3>3. QED
      BY <3>1, <3>2 DEF Complete, Cleaned
  <2>2. DOMAIN t = DOMAIN raw.is /\ t = [i \in DOMAIN t |-> t[i]]
    OBVIOUS
  <2>3. Coerce(field, raw) = Rows(t) /\ Rows(t).kind = "rows" /\ Rows(t).is = t
    BY <1>8 DEF Rows
  <2> HIDE DEF t
  <2>4. [i \in DOMAIN t |-> Cleaned(field, t[i])] = t
    BY <2>1, <2>2
  <2>5. Coerce(field, Rows(t)) = Rows([i \in DOMAIN t |-> Cleaned(field, t[i])])
    BY <1>8, <2>1, <2>3 DEF Coerce
  <2>6. QED
    BY <2>3, <2>4, <2>5
<1>9. CASE /\ field.type \notin {"NUMBER", "BOOLEAN", "DATE", "SELECT", "MULTISELECT", "FILE", "TABLE"}
           /\ w \in field.fits /\ Coerce(field, raw) = Text(w)
  <2> HIDE DEF w
  <2>1. QED
    BY <1>9, WordIs DEF Coerce
<1>10. QED
  BY <1>1, <1>2, <1>3, <1>4, <1>6, <1>7, <1>8, <1>9, CoerceCases

\* A value that says something, or is blank in so many words.
Sound(v) == (Blank(v) \/ Word(v) # "") /\ (IsList(v) => IsSeq(v.is))
ValuesSound(values) == \A k \in DOMAIN values : Sound(values[k])

LEMMA SoundIs ==
  ASSUME NEW w, w # ""
  PROVE  /\ Sound(Text(w)) /\ ~Blank(Text(w)) /\ Sound(Num(w)) /\ ~Blank(Num(w))
         /\ Sound(Iso(w)) /\ ~Blank(Iso(w)) /\ Sound(List(<<w>>)) /\ ~Blank(List(<<w>>))
<1>1. Sound(Text(w)) /\ ~Blank(Text(w)) /\ Sound(Num(w)) /\ ~Blank(Num(w))
      /\ Sound(Iso(w)) /\ ~Blank(Iso(w))
  BY WordIs DEF Sound, Blank, IsText, IsList, Text, Num, Iso
<1>2. List(<<w>>).kind = "list" /\ List(<<w>>).is = <<w>>
  BY DEF List
<1>3. ~Blank(List(<<w>>))
  BY <1>2, OneIs DEF Blank, IsText, IsList
<1>4. Word(List(<<w>>)) = w
  BY <1>2, OneIs DEF Word, IsList
<1>5. QED
  BY <1>1, <1>2, <1>3, <1>4, OneIs DEF Sound

\* What is read of it says something.
LEMMA CoerceSound ==
  ASSUME NEW field, NEW raw, Passes(Coerce(field, raw)), Sound(raw), ~Blank(raw)
  PROVE  Sound(Coerce(field, raw)) /\ ~Blank(Coerce(field, raw))
<1> DEFINE w == Word(raw)
<1>1. w # ""
  BY DEF Sound
<1>2. NumberWord(raw) # ""
  BY <1>1 DEF NumberWord
<1>3. Sound(Truth(TRUE)) /\ ~Blank(Truth(TRUE)) /\ Sound(Truth(FALSE)) /\ ~Blank(Truth(FALSE))
  BY DEF Sound, Truth, Blank, IsText, IsList, Word
<1>4. Sound(List(Words(raw))) /\ ~Blank(List(Words(raw)))
  <2>1. CASE raw.kind = "list"
    <3>1. Words(raw) = raw.is /\ IsSeq(raw.is) /\ raw.is # <<>>
      BY <2>1 DEF Words, Sound, Blank, IsList
    <3>2. List(raw.is).kind = "list" /\ List(raw.is).is = raw.is
      BY DEF List
    <3>3. Word(List(raw.is)) = w
      BY <2>1, <3>1, <3>2 DEF Word, IsList
    <3>4. QED
      BY <1>1, <3>1, <3>2, <3>3 DEF Sound, Blank, IsText, IsList
  <2>2. CASE raw.kind # "list"
    <3>1. Words(raw) = <<w>>
      BY <2>2 DEF Words
    <3> HIDE DEF w
    <3>2. QED
      BY <1>1, <3>1, SoundIs
  <2>3. QED
    BY <2>1, <2>2
<1>5. ASSUME raw.kind = "rows", NEW t, t = [i \in DOMAIN raw.is |-> Cleaned(field, raw.is[i])]
      PROVE  Sound(Rows(t)) /\ ~Blank(Rows(t))
  <2>1. IsSeq(raw.is) /\ raw.is # <<>>
    BY <1>5 DEF Sound, Blank, IsList
  <2>2. DOMAIN t = DOMAIN raw.is /\ t = [i \in DOMAIN raw.is |-> t[i]]
    BY <1>5
  <2>3. IsSeq(t)
    BY <2>1, <2>2, MappedIs
  <2>4. t # <<>>
    BY <2>1, <2>2, FullIs
  <2>5. Rows(t).kind = "rows" /\ Rows(t).is = t
    BY DEF Rows
  <2>6. QED
    BY <2>3, <2>4, <2>5 DEF Sound, Blank, IsText, IsList, Word
<1> HIDE DEF w
<1>6. QED
  BY <1>1, <1>2, <1>3, <1>4, <1>5, CoerceCases, SoundIs DEF w

-----------------------------------------------------------------------------
(* A record that was validated is accepted again.                          *)

\* The hypothesis: what clients and files send says something, or is blank in so many
\* words.  ("[""]" for a text says "", and is not blank.)
WordsGiven ==
  /\ \A dto \in Submissions : ValuesSound(dto.values)
  /\ \A dto \in Patches : dto.values # None => ValuesSound(dto.values)
  /\ \A file \in Rekaps : \A i \in 1..Len(file) : ValuesSound(file[i].values)

Kinds == Definitions \union {SeedFields[k] : k \in DOMAIN SeedFields}
Known(field) == \E d \in Kinds : field \in {d, [d EXCEPT !.active = FALSE]}
AllKnown(fields) == \A k \in DOMAIN fields : Known(fields[k])
FieldsKnown == \A f \in DOMAIN forms : AllKnown(FieldsOf(f))

Standing(values, under) ==
  /\ AllKnown(under)
  /\ DOMAIN values \subseteq DOMAIN under
  /\ \A k \in DOMAIN under :
       IF Empty(values, k) THEN under[k].required => ~under[k].active
       ELSE \/ Passes(Coerce(under[k], values[k]))
            \/ under[k].default # "" /\ values[k] = Text(under[k].default)
Good(values, under) == ValuesSound(values) /\ Standing(values, under)

LEMMA KnownIs ==
  ASSUME NEW field, Known(field), NEW new \in {field, [field EXCEPT !.active = FALSE]}
  PROVE  /\ DOMAIN field = Columns /\ Known(new)
         /\ \A raw : Coerce(new, raw) = Coerce(field, raw)
         /\ new.active = field.active \/ new.active = FALSE
<1>1. \A d \in Kinds : DOMAIN d = Columns
  BY FormRecordsAssumption DEF FormRecordsAssumption, Kinds
<1>2. PICK d \in Kinds : field \in {d, [d EXCEPT !.active = FALSE]}
  BY DEF Known
<1>3. DOMAIN field = Columns
  BY <1>1, <1>2
<1>4. [[d EXCEPT !.active = FALSE] EXCEPT !.active = FALSE] = [d EXCEPT !.active = FALSE]
  OBVIOUS
<1>5. Known(new)
  BY <1>2, <1>4 DEF Known
<1>6. /\ new.type = field.type /\ new.fits = field.fits /\ new.options = field.options
      /\ new.columns = field.columns
      /\ new.active = field.active \/ new.active = FALSE
  BY <1>3 DEF Columns
<1>7. \A row : Complete(new, row) = Complete(field, row) /\ Cleaned(new, row) = Cleaned(field, row)
  BY <1>6 DEF Complete, Cleaned
<1>8. \A raw : Coerce(new, raw) = Coerce(field, raw)
  BY <1>6, <1>7 DEF Coerce
<1>9. QED
  BY <1>3, <1>5, <1>6, <1>8

LEMMA ValidatedIs ==
  ASSUME NEW fields, NEW input, NEW allow \in BOOLEAN, Accepts(fields, input, allow)
  PROVE  LET values == Validated(fields, input, allow) IN
           /\ DOMAIN values \subseteq DOMAIN fields
           /\ \A k \in DOMAIN values :
                \/ k \in DOMAIN input /\ Blank(input[k]) /\ values[k] = input[k]
                   /\ ~fields[k].active
                \/ fields[k].default # "" /\ values[k] = Text(fields[k].default)
                \/ /\ k \in DOMAIN input /\ ~Blank(input[k]) /\ Passes(Coerce(fields[k], input[k]))
                   /\ values[k] = Coerce(fields[k], input[k])
           /\ \A k \in DOMAIN fields \ DOMAIN values : fields[k].required => ~fields[k].active
<1> DEFINE usable == Usable(fields, allow)
           spared == {k \in usable \intersect DOMAIN input :
                        Empty(input, k) /\ Spared(fields, allow, k)}
           filled == {k \in usable : Empty(input, k) /\ ~Spared(fields, allow, k)
                                     /\ fields[k].default # ""}
           given == {k \in usable : ~Empty(input, k)}
           values == [k \in spared \union filled \union given |->
                        IF k \in spared THEN input[k]
                        ELSE IF k \in filled THEN Text(fields[k].default)
                        ELSE Coerce(fields[k], input[k])]
<1>1. values = Validated(fields, input, allow)
  BY DEF Validated
<1>2. usable \subseteq DOMAIN fields
  BY DEF Usable
<1>3. ASSUME NEW k \in spared
      PROVE  k \in DOMAIN input /\ Blank(input[k]) /\ values[k] = input[k] /\ ~fields[k].active
  BY DEF Empty, Spared
<1>4. ASSUME NEW k \in filled
      PROVE  fields[k].default # "" /\ values[k] = Text(fields[k].default)
  BY DEF Spared
<1>5. ASSUME NEW k \in given
      PROVE  /\ k \in DOMAIN input /\ ~Blank(input[k]) /\ Passes(Coerce(fields[k], input[k]))
             /\ values[k] = Coerce(fields[k], input[k])
  BY DEF Empty, Accepts
<1>6. ASSUME NEW k \in DOMAIN fields \ DOMAIN values
      PROVE  fields[k].required => ~fields[k].active
  <2>1. CASE k \notin usable
    BY <2>1 DEF Usable
  <2>2. CASE k \in usable
    <3>1. Empty(input, k)
      BY <1>6, <2>2
    <3>2. fields[k].required => Spared(fields, allow, k)
      BY <2>2, <3>1 DEF Accepts
    <3>3. QED
      BY <3>2 DEF Spared
  <2>3. QED
    BY <2>1, <2>2
<1>7. DOMAIN values = spared \union filled \union given
  OBVIOUS
<1>8. DOMAIN values \subseteq DOMAIN fields
  BY <1>2, <1>7
<1> HIDE DEF values, spared, filled, given, usable
<1>9. QED
  BY <1>1, <1>3, <1>4, <1>5, <1>6, <1>7, <1>8

LEMMA ValidatedStands ==
  ASSUME NEW fields, AllKnown(fields), NEW input, ValuesSound(input), NEW allow \in BOOLEAN,
         Accepts(fields, input, allow)
  PROVE  Good(Validated(fields, input, allow), fields)
<1> DEFINE values == Validated(fields, input, allow)
<1>1. /\ DOMAIN values \subseteq DOMAIN fields
      /\ \A k \in DOMAIN values :
           \/ k \in DOMAIN input /\ Blank(input[k]) /\ values[k] = input[k]
              /\ ~fields[k].active
           \/ fields[k].default # "" /\ values[k] = Text(fields[k].default)
           \/ /\ k \in DOMAIN input /\ ~Blank(input[k]) /\ Passes(Coerce(fields[k], input[k]))
              /\ values[k] = Coerce(fields[k], input[k])
      /\ \A k \in DOMAIN fields \ DOMAIN values : fields[k].required => ~fields[k].active
  BY ValidatedIs
<1> HIDE DEF values
<1>2. ASSUME NEW k \in DOMAIN values
      PROVE  /\ Sound(values[k])
             /\ IF Blank(values[k]) THEN ~fields[k].active
                ELSE \/ Passes(Coerce(fields[k], values[k]))
                     \/ fields[k].default # "" /\ values[k] = Text(fields[k].default)
  <2>1. CASE k \in DOMAIN input /\ Blank(input[k]) /\ values[k] = input[k] /\ ~fields[k].active
    BY <2>1 DEF ValuesSound
  <2>2. CASE fields[k].default # "" /\ values[k] = Text(fields[k].default)
    BY <2>2, SoundIs
  <2>3. CASE /\ k \in DOMAIN input /\ ~Blank(input[k]) /\ Passes(Coerce(fields[k], input[k]))
             /\ values[k] = Coerce(fields[k], input[k])
    <3>1. Sound(input[k])
      BY <2>3 DEF ValuesSound
    <3>2. QED
      BY <2>3, <3>1, CoerceSound, CoerceIdempotent
  <2>4. QED
    BY <1>1, <1>2, <2>1, <2>2, <2>3
<1>3. ValuesSound(values)
  BY <1>2 DEF ValuesSound
<1>4. Standing(values, fields)
  BY <1>1, <1>2 DEF Standing, Empty
<1>5. QED
  BY <1>3, <1>4 DEF Good, values

LEMMA StandingAccepted ==
  ASSUME NEW old, NEW new, NEW values, Standing(values, old), OnlyDeactivated(old, new)
  PROVE  Accepts(new, values, TRUE)
<1>1. Usable(new, TRUE) = DOMAIN new
  BY DEF Usable
<1>2. DOMAIN old \subseteq DOMAIN new
  BY DEF OnlyDeactivated
<1>3. ASSUME NEW k \in DOMAIN new
      PROVE  IF Empty(values, k) THEN new[k].required => Spared(new, TRUE, k)
             ELSE Passes(Coerce(new[k], values[k]))
  <2>1. CASE k \notin DOMAIN old
    <3>1. k \notin DOMAIN values /\ ~new[k].required
      BY <2>1 DEF Standing, OnlyDeactivated
    <3>2. QED
      BY <3>1 DEF Empty
  <2>2. CASE k \in DOMAIN old
    <3> DEFINE field == old[k]
    <3>1. /\ Known(field) /\ new[k] \in {field, [field EXCEPT !.active = FALSE]}
          /\ field.default # "" => Passes(Coerce(field, Text(field.default)))
      BY <2>2 DEF Standing, AllKnown, OnlyDeactivated
    <3>2. IF Empty(values, k) THEN field.required => ~field.active
          ELSE \/ Passes(Coerce(field, values[k]))
               \/ field.default # "" /\ values[k] = Text(field.default)
      BY <2>2 DEF Standing
    <3> HIDE DEF field
    <3>3. /\ \A raw : Coerce(new[k], raw) = Coerce(field, raw)
          /\ new[k].active = field.active \/ new[k].active = FALSE
          /\ DOMAIN field = Columns
      BY <3>1, KnownIs
    <3>4. new[k].required = field.required
      BY <3>1, <3>3 DEF Columns
    <3>5. QED
      BY <3>1, <3>2, <3>3, <3>4 DEF Spared
  <2>3. QED
    BY <2>1, <2>2
<1>4. DOMAIN values \subseteq DOMAIN new
  BY <1>2 DEF Standing
<1>5. QED
  BY <1>1, <1>3, <1>4 DEF Accepts

RequestStands(q) ==
  /\ q.op = "submit" => Good(q.data.values, q.data.under)
  /\ q.op = "update" => \A v \in q.data.values : Good(v, q.data.under)
  /\ q.op = "import" => \A i \in 1..Len(q.data) : ValuesSound(q.data[i].values)
RecordStands(n) ==
  /\ ValuesSound(records[n].values)
  /\ story[n].under # None => Standing(records[n].values, story[n].under)
RepairInv ==
  /\ \A r \in Requests : RequestStands(req[r])
  /\ \A n \in DOMAIN records : RecordStands(n)

LEMMA FieldsKept ==
  ASSUME Base, FieldsKnown, [FormsNext]_FormsFlight
  PROVE  FieldsKnown'
<1>1. CASE UNCHANGED forms
  BY <1>1 DEF FieldsKnown, FieldsOf
<1>2. ASSUME NEW f \in CurrentForm, NEW fields, AllKnown(fields),
             forms' = [forms EXCEPT ![f].fields = fields]
      PROVE  FieldsKnown'
  <2>1. DOMAIN forms' = DOMAIN forms /\ f \in DOMAIN forms /\ FormOK(forms[f])
    BY <1>2 DEF Base, TablesOK, CurrentForm
  <2>2. forms'[f].fields = fields /\ \A g \in DOMAIN forms \ {f} : forms'[g] = forms[g]
    BY <1>2, <2>1 DEF FormOK
  <2>3. QED
    BY <1>2, <2>1, <2>2 DEF FieldsKnown, FieldsOf
<1>3. ASSUME forms' = Append(forms, NewForm(<<>>))
      PROVE  FieldsKnown'
  <2>1. /\ IsSeq(forms') /\ DOMAIN forms' = 1..(Len(forms) + 1)
        /\ \A i \in 1..Len(forms) : forms'[i] = forms[i]
        /\ forms'[Len(forms) + 1] = NewForm(<<>>)
    BY <1>3, AppendIs DEF Base, TablesOK
  <2>2. DOMAIN forms = 1..Len(forms) /\ Len(forms) \in Nat
    BY SeqDomain DEF Base, TablesOK, IsSeq
  <2>3. \A f \in DOMAIN forms' : (f \in DOMAIN forms /\ forms'[f] = forms[f]) \/ f = Len(forms) + 1
    BY <2>1, <2>2
  <2>4. NewForm(<<>>).fields = <<>> /\ AllKnown(<<>>)
    BY DEF NewForm, AllKnown
  <2>5. QED
    BY <2>1, <2>3, <2>4 DEF FieldsKnown, FieldsOf
<1>4. ASSUME NEW f \in CurrentForm PROVE AllKnown(FieldsOf(f))
  BY <1>4 DEF FieldsKnown, CurrentForm
<1>5. ASSUME NEW f, NEW k, NEW d \in Definitions, CreateField(f, k, d)
      PROVE  FieldsKnown'
  <2> DEFINE fields == Over([x \in {k} |-> d], FieldsOf(f))
  <2>1. f \in CurrentForm /\ forms' = [forms EXCEPT ![f].fields = fields]
    BY <1>5 DEF CreateField, SetFields
  <2>2. Known(d)
    BY DEF Known, Kinds
  <2>3. AllKnown(FieldsOf(f))
    BY <1>4, <2>1
  <2>4. AllKnown(fields)
    BY <2>2, <2>3 DEF AllKnown, Over
  <2> HIDE DEF fields
  <2>5. QED
    BY <1>2, <2>1, <2>4
<1>6. ASSUME NEW f, NEW k, NEW d \in Definitions, UpdateField(f, k, d)
      PROVE  FieldsKnown'
  <2> DEFINE fields == [FieldsOf(f) EXCEPT ![k] = d]
  <2>1. f \in CurrentForm /\ forms' = [forms EXCEPT ![f].fields = fields]
    BY <1>6 DEF UpdateField, SetFields
  <2>2. Known(d)
    BY DEF Known, Kinds
  <2>3. AllKnown(FieldsOf(f))
    BY <1>4, <2>1
  <2>4. AllKnown(fields)
    BY <2>2, <2>3 DEF AllKnown
  <2> HIDE DEF fields
  <2>5. QED
    BY <1>2, <2>1, <2>4
<1>7. ASSUME NEW f, NEW k, NEW permanent, DeleteField(f, k, permanent)
      PROVE  FieldsKnown'
  <2> DEFINE old == FieldsOf(f)
             gone == Restrict(old, (DOMAIN old) \ {k})
             off == [old EXCEPT ![k].active = FALSE]
             fields == IF permanent THEN gone ELSE off
  <2>1. k \in DOMAIN old /\ f \in CurrentForm /\ forms' = [forms EXCEPT ![f].fields = fields]
    BY <1>7 DEF DeleteField, SetFields
  <2>2. AllKnown(old)
    BY <1>4, <2>1
  <2>3. AllKnown(gone)
    BY <2>2 DEF AllKnown, Restrict
  <2>4. Known([old[k] EXCEPT !.active = FALSE])
    BY <2>1, <2>2, KnownIs DEF AllKnown
  <2>5. AllKnown(off)
    <3>1. off = [old EXCEPT ![k] = [old[k] EXCEPT !.active = FALSE]]
      OBVIOUS
    <3> DEFINE new == [old[k] EXCEPT !.active = FALSE]
    <3>2. off = [old EXCEPT ![k] = new] /\ Known(new)
      BY <2>4, <3>1
    <3> HIDE DEF off, new, old
    <3>3. QED
      BY <2>2, <3>2 DEF AllKnown
  <2>6. AllKnown(fields)
    BY <2>3, <2>5
  <2> HIDE DEF fields
  <2>7. QED
    BY <1>2, <2>1, <2>6
<1>8. CASE DefinitionSteps
  <2>1. CASE CreateForm
    BY <1>3, <2>1 DEF CreateForm
  <2>2. QED
    BY <1>5, <1>6, <1>7, <1>8, <2>1 DEF DefinitionSteps
<1>9. ASSUME NEW r, Deactivate(r)
      PROVE  FieldsKnown'
  <2>1. forms' = [f \in DOMAIN forms |-> IF f \in CurrentForm THEN [forms[f] EXCEPT !.active = FALSE]
                                         ELSE forms[f]]
    BY <1>9 DEF Deactivate
  <2>2. DOMAIN forms' = DOMAIN forms /\ \A f \in DOMAIN forms : forms'[f].fields = forms[f].fields
    BY <2>1 DEF Base, TablesOK, FormOK
  <2>3. QED
    BY <2>2 DEF FieldsKnown, FieldsOf
<1>10. ASSUME NEW r, Delete(r)
       PROVE  FieldsKnown'
  <2>1. forms' = [f \in DOMAIN forms |-> [forms[f] EXCEPT !.live = FALSE]]
    BY <1>10 DEF Delete
  <2>2. DOMAIN forms' = DOMAIN forms /\ \A f \in DOMAIN forms : forms'[f].fields = forms[f].fields
    BY <2>1 DEF Base, TablesOK, FormOK
  <2>3. QED
    BY <2>2 DEF FieldsKnown, FieldsOf
<1>11. ASSUME NEW r, SeedDefaults(r)
       PROVE  FieldsKnown'
  BY <1>1, <1>3, <1>11 DEF SeedDefaults
<1>12. ASSUME NEW r \in Requests, SeedField(r)
       PROVE  FieldsKnown'
  <2>0. PICK f : f = req[r].id
    OBVIOUS
  <2>1. SUFFICES ASSUME ~UNCHANGED forms PROVE FieldsKnown'
    BY <1>1
  <2>2. CASE req[r].data = {} \/ f \notin CurrentForm
    BY <1>12, <2>0, <2>1, <2>2 DEF SeedField
  <2>3. PICK k \in req[r].data :
          /\ f \in CurrentForm
          /\ forms' = [forms EXCEPT ![f].fields = Over(FieldsOf(f), [x \in {k} |-> SeedFields[k]])]
    BY <1>12, <2>0, <2>1 DEF SeedField
  <2> DEFINE fields == Over(FieldsOf(f), [x \in {k} |-> SeedFields[k]])
  <2>4. k \in DOMAIN SeedFields
    BY <1>12 DEF Base, RequestsOK, RequestOK, SeedField, Is
  <2>5. Known(SeedFields[k])
    BY <2>4 DEF Known, Kinds
  <2>6. AllKnown(FieldsOf(f))
    BY <1>4, <2>3
  <2>7. AllKnown(fields)
    BY <2>5, <2>6 DEF AllKnown, Over
  <2> HIDE DEF fields
  <2>8. QED
    BY <1>2, <2>3, <2>7 DEF fields
<1>13. ASSUME NEW r \in Requests, RecordSteps(r)
       PROVE  FieldsKnown'
  <2>1. UNCHANGED forms \/ Deactivate(r) \/ Delete(r) \/ SeedDefaults(r) \/ SeedField(r)
    BY <1>13 DEF RecordSteps, DeleteForm, Submit, Import, Generate, Update, Create, Write,
                 MarkGenerated, ImportChunk, formVars
  <2>2. QED
    BY <1>1, <1>9, <1>10, <1>11, <1>12, <1>13, <2>1
<1>14. CASE \E n \in DOMAIN records : RemoveRecord(n)
  BY <1>1, <1>14 DEF RemoveRecord
<1>15. CASE UNCHANGED FormsFlight
  BY <1>1, <1>15 DEF FormsFlight, formVars
<1>16. QED
  BY <1>8, <1>13, <1>14, <1>15 DEF FormsNext

LEMMA PreparedSound ==
  ASSUME NEW field, NEW raw, Sound(raw), ~Blank(raw)
  PROVE  Sound(Prepared(field, raw))
<1>1. Word(raw) # ""
  BY DEF Sound
<1>2. Prepared(field, raw) \in {Num(Word(raw)), List(<<Word(raw)>>), Text(Word(raw))}
  BY DEF Prepared
<1>3. QED
  BY <1>1, <1>2, SoundIs

LEMMA FileSound ==
  ASSUME WordsGiven, NEW f, NEW file \in Rekaps \union {Rekap(f)}, NEW j \in 1..Len(file), TablesOK
  PROVE  ValuesSound(file[j].values)
<1>1. CASE file \in Rekaps
  BY <1>1 DEF WordsGiven
<1>2. CASE file = Rekap(f)
  <2>1. \A w : Sound(Text(w))
    <3>1. SUFFICES ASSUME NEW w PROVE Sound(Text(w))
      OBVIOUS
    <3>2. CASE w = ""
      BY <3>2 DEF Sound, Text, Blank, IsText, IsList
    <3>3. CASE w # ""
      BY <3>3, SoundIs
    <3>4. QED
      BY <3>2, <3>3
  <2>2. j \in DOMAIN records
    <3>1. file = [n \in DOMAIN records |-> file[n]]
      BY <1>2 DEF Rekap
    <3>2. IsSeq(records)
      BY DEF TablesOK
    <3>3. Len(file) = Len(records) /\ DOMAIN records = 1..Len(records)
      BY <3>1, <3>2, MappedIs, SeqDomain
    <3>4. QED
      BY <3>3
  <2>3. \A k \in DOMAIN file[j].values : \E w : file[j].values[k] = Text(w)
    BY <1>2, <2>2 DEF Rekap
  <2>4. QED
    BY <2>1, <2>3 DEF ValuesSound
<1>3. QED
  BY <1>1, <1>2

LEMMA RepairKept ==
  ASSUME WordsGiven, Base, FieldsKnown, RepairInv, [FormsNext]_FormsFlight
  PROVE  RepairInv'
<1> DEFINE ops == {"submit", "update", "import"}
<1>1. Base' /\ (Aside(ops) \/ OnlyReads(ops) \/ Writing)
  BY EveryStep
<1>2. \A q : q.op \notin ops => RequestStands(q)
  BY DEF RequestStands
<1>3. CASE Aside(ops)
  BY <1>2, <1>3 DEF Aside, RepairInv, RecordStands
<1>4. ASSUME NEW r \in Requests, Others(r), RequestStands(req'[r]),
             \A n \in DOMAIN records' : RecordStands(n)'
      PROVE  RepairInv'
  BY <1>4 DEF RepairInv, Others
<1>5. ASSUME NEW r \in Requests, ReadOnly(r), RequestStands(req'[r])
      PROVE  RepairInv'
  <2>1. \A n \in DOMAIN records' : RecordStands(n)'
    BY <1>5 DEF ReadOnly, formVars, RepairInv, RecordStands
  <2>2. QED
    BY <1>4, <1>5, <2>1 DEF ReadOnly
<1>6. ASSUME NEW r \in Requests, NEW f \in DOMAIN forms, NEW dto \in Submissions, Submit(r, f, dto)
      PROVE  RepairInv'
  <2>1. /\ ReadOnly(r) /\ req'[r].op = "submit"
        /\ Accepts(FieldsOf(f), dto.values, FALSE)
        /\ req'[r].data.values = Validated(FieldsOf(f), dto.values, FALSE)
        /\ req'[r].data.under = FieldsOf(f)
    BY <1>6, SubmitBase
  <2>2. ValuesSound(dto.values) /\ AllKnown(FieldsOf(f))
    BY DEF WordsGiven, FieldsKnown
  <2>3. Good(Validated(FieldsOf(f), dto.values, FALSE), FieldsOf(f))
    BY <2>1, <2>2, ValidatedStands
  <2>4. RequestStands(req'[r])
    BY <2>1, <2>3 DEF RequestStands
  <2>5. QED
    BY <1>5, <2>1, <2>4
<1>7. ASSUME NEW r \in Requests, NEW n \in DOMAIN records, NEW dto \in Patches, Update(r, n, dto)
      PROVE  RepairInv'
  <2> DEFINE fields == FieldsOf(records[n].form)
             merged == Merged(n, dto)
  <2>1. /\ ReadOnly(r) /\ req'[r].op = "update"
        /\ dto.values # None => Accepts(fields, merged, TRUE)
        /\ req'[r].data.values = IF dto.values = None THEN {} ELSE {Validated(fields, merged, TRUE)}
        /\ req'[r].data.under = fields
    BY <1>7, UpdateBase
  <2>2. AllKnown(fields)
    BY DEF FieldsKnown, Base, TablesOK, RecordOK
  <2>3. dto.values # None => ValuesSound(merged)
    BY DEF WordsGiven, RepairInv, RecordStands, Merged, Over, ValuesSound
  <2> HIDE DEF fields, merged
  <2>4. dto.values # None => Good(Validated(fields, merged, TRUE), fields)
    BY <2>1, <2>2, <2>3, ValidatedStands
  <2>5. RequestStands(req'[r])
    BY <2>1, <2>4 DEF RequestStands
  <2>6. QED
    BY <1>5, <2>1, <2>5
<1>8. ASSUME NEW r \in Requests, NEW f \in DOMAIN forms, NEW file \in Rekaps \union {Rekap(f)},
             Import(r, f, file)
      PROVE  RepairInv'
  <2>1. ReadOnly(r) /\ req'[r].op = "import" /\ req'[r].data = Queue(f, file)
    BY <1>8, ImportBase
  <2>2. Len(file) \in Nat /\ TablesOK
    BY FileIs DEF Base
  <2>3. ASSUME NEW i \in 1..Len(req'[r].data)
        PROVE  ValuesSound(req'[r].data[i].values)
    <3>1. PICK j \in 1..Len(file) : MadeOf(req'[r].data[i], file[j])
      BY <2>1, <2>2, <2>3, QueueFacts
    <3>2. ValuesSound(file[j].values)
      BY <2>2, FileSound
    <3>3. QED
      BY <3>1, <3>2, PreparedSound DEF MadeOf, ValuesSound
  <2>4. RequestStands(req'[r])
    BY <2>1, <2>3 DEF RequestStands
  <2>5. QED
    BY <1>5, <2>1, <2>4
<1>9. CASE OnlyReads(ops)
  BY <1>6, <1>7, <1>8, <1>9 DEF OnlyReads
<1>10. CASE \E n \in DOMAIN records : RemoveRecord(n)
  <2>1. PICK n \in DOMAIN records : RemoveRecord(n)
    BY <1>10
  <2>2. /\ UNCHANGED req /\ Elsewhere(n)
        /\ records'[n].values = records[n].values /\ story'[n].under = story[n].under
    BY <2>1, RemoveRecordBase
  <2>3. QED
    BY <2>2 DEF RepairInv, RecordStands, Elsewhere
<1>11. ASSUME NEW r \in Requests, Delete(r)
       PROVE  RepairInv'
  <2>1. /\ Leaves(r) /\ UNCHANGED story /\ DOMAIN records' = DOMAIN records
        /\ \A n \in DOMAIN records : records'[n].values = records[n].values
    BY <1>11, DeleteBase
  <2>2. RequestStands(req'[r])
    BY <1>2, <2>1, IdleIs DEF Leaves
  <2>3. QED
    BY <1>4, <2>1, <2>2 DEF RepairInv, RecordStands, Leaves
<1>12. ASSUME NEW r \in Requests, Create(r)
       PROVE  RepairInv'
  <2>0. PICK n : n = Len(records) + 1
    OBVIOUS
  <2> DEFINE data == req[r].data
  <2>1. Leaves(r) /\ req[r].op = "submit"
    BY <1>12, CreateBase
  <2>2. RequestStands(req'[r])
    BY <1>2, <2>1, IdleIs DEF Leaves
  <2>3. CASE UNCHANGED <<records, story>>
    BY <1>4, <2>1, <2>2, <2>3 DEF RepairInv, RecordStands, Leaves
  <2>4. CASE ~UNCHANGED <<records, story>>
    <3>1. /\ DOMAIN records' = DOMAIN records \union {n}
          /\ \A m \in DOMAIN records : records'[m] = records[m] /\ story'[m] = story[m]
          /\ records'[n] = Row(req[r].id, data.values, data.ref, "submitted", Now)
          /\ story'[n] = Born(data.under)
      BY <1>12, <2>0, <2>4, CreateBase
    <3>2. Good(data.values, data.under)
      BY <2>1 DEF RepairInv, RequestStands
    <3> HIDE DEF data
    <3>3. records'[n].values = data.values /\ story'[n].under = data.under
      BY <3>1 DEF Row, Born
    <3>4. RecordStands(n)'
      BY <3>2, <3>3 DEF RecordStands, Good
    <3>5. \A m \in DOMAIN records' : RecordStands(m)'
      BY <3>1, <3>4 DEF RepairInv, RecordStands
    <3>6. QED
      BY <1>4, <2>1, <2>2, <3>5 DEF Leaves
  <2>5. QED
    BY <2>3, <2>4
<1>13. ASSUME NEW r \in Requests, Write(r)
       PROVE  RepairInv'
  <2>0. PICK n : n = req[r].id
    OBVIOUS
  <2> DEFINE w == req[r].data
  <2>1. Leaves(r) /\ req[r].op = "update" /\ n \in DOMAIN records
    BY <1>13, <2>0, WriteBase
  <2>2. RequestStands(req'[r])
    BY <1>2, <2>1, IdleIs DEF Leaves
  <2>3. CASE UNCHANGED <<records, story>>
    BY <1>4, <2>1, <2>2, <2>3 DEF RepairInv, RecordStands, Leaves
  <2>4. CASE ~UNCHANGED <<records, story>>
    <3>1. /\ Elsewhere(n)
          /\ records'[n].values = Written(records[n].values, w.values)
          /\ story'[n].under = IF w.values = {} THEN story[n].under ELSE w.under
      BY <1>13, <2>0, <2>4, WriteBase
    <3>2. (\A v \in w.values : Good(v, w.under)) /\ RecordStands(n)
      BY <2>1 DEF RepairInv, RequestStands
    <3> HIDE DEF w
    <3>3. RecordStands(n)'
      <4>1. CASE w.values = {}
        BY <3>1, <3>2, <4>1 DEF RecordStands, Written
      <4>2. CASE w.values # {}
        <5>1. records'[n].values \in w.values
          BY <3>1, <4>2 DEF Written
        <5>2. QED
          BY <3>1, <3>2, <4>2, <5>1 DEF RecordStands, Good
      <4>3. QED
        BY <4>1, <4>2
    <3>4. \A m \in DOMAIN records' : RecordStands(m)'
      BY <3>1, <3>3 DEF RepairInv, RecordStands, Elsewhere
    <3>5. QED
      BY <1>4, <2>1, <2>2, <3>4 DEF Leaves
  <2>5. QED
    BY <2>3, <2>4
<1>14. ASSUME NEW r \in Requests, MarkGenerated(r)
       PROVE  RepairInv'
  <2>0. PICK n : n = req[r].id
    OBVIOUS
  <2>1. /\ Leaves(r) /\ n \in DOMAIN records /\ Elsewhere(n)
        /\ records'[n].values = records[n].values /\ story'[n].under = story[n].under
    BY <1>14, <2>0, MarkGeneratedBase DEF RecordOK, StoryOK
  <2>2. RequestStands(req'[r])
    BY <1>2, <2>1, IdleIs DEF Leaves
  <2>3. \A m \in DOMAIN records' : RecordStands(m)'
    BY <2>1 DEF RepairInv, RecordStands, Elsewhere
  <2>4. QED
    BY <1>4, <2>1, <2>2, <2>3 DEF Leaves
<1>15. ASSUME NEW r \in Requests, ImportChunk(r)
       PROVE  RepairInv'
  <2> DEFINE rows == req[r].data
             chunk == Chunk(rows)
             rest == SubSeq(rows, Len(chunk) + 1, Len(rows))
  <2>1. Others(r) /\ req[r].op = "import" /\ IsSeq(rows)
    BY <1>15, ImportChunkBase
  <2>2. \A i \in 1..Len(rows) : ValuesSound(rows[i].values)
    BY <2>1 DEF RepairInv, RequestStands
  <2>3. Grown(r)
    BY <1>15, ImportGrows
  <2>4. ASSUME NEW m \in DOMAIN records' \ DOMAIN records
        PROVE  RecordStands(m)'
    <3>1. PICK i \in 1..Len(chunk) : /\ rows # <<>>
                                     /\ records'[m] = Imported(req[r].id, chunk[i])
                                     /\ story'[m] = Born(None)
      BY <1>15, ImportGrows
    <3>2. chunk[i] = rows[i] /\ i \in 1..Len(rows)
      BY <2>1, <3>1, ChunkIs DEF IsSeq
    <3> HIDE DEF rows, chunk, rest
    <3>3. records'[m].values = rows[i].values /\ story'[m].under = None
      BY <3>1, <3>2 DEF Imported, Row, Born
    <3>4. QED
      BY <2>2, <3>2, <3>3 DEF RecordStands
  <2>5. \A m \in DOMAIN records' : RecordStands(m)'
    BY <2>3, <2>4 DEF Grown, RepairInv, RecordStands
  <2>6. RequestStands(req'[r])
    <3>1. CASE req'[r] = Idle
      BY <1>2, <3>1, IdleIs
    <3>2. CASE req'[r] # Idle
      <4>1. rows # <<>> /\ req'[r].op = "import" /\ req'[r].data = rest
        BY <1>15, <3>2, ImportChunkBase
      <4>2. \A i \in 1..Len(rest) : rest[i] = rows[Len(chunk) + i] /\ Len(chunk) + i \in 1..Len(rows)
        <5>1. /\ Len(rest) = Len(rows) - Len(chunk) /\ Len(chunk) \in 1..Len(rows)
              /\ \A i \in 1..Len(rest) : rest[i] = rows[Len(chunk) + i]
          BY <2>1, <4>1, ChunkIs
        <5>2. Len(rows) \in Nat
          BY <2>1 DEF IsSeq
        <5> HIDE DEF rows, chunk, rest
        <5>3. \A i \in 1..Len(rest) : Len(chunk) + i \in 1..Len(rows)
          BY <5>1, <5>2
        <5>4. QED
          BY <5>1, <5>3
      <4> HIDE DEF rows, chunk, rest
      <4>3. \A i \in 1..Len(rest) : ValuesSound(rest[i].values)
        BY <2>2, <4>2
      <4>4. QED
        BY <4>1, <4>3 DEF RequestStands
    <3>3. QED
      BY <3>1, <3>2
  <2>7. QED
    BY <1>4, <2>1, <2>5, <2>6
<1>16. QED
  BY <1>1, <1>3, <1>9, <1>10, <1>11, <1>12, <1>13, <1>14, <1>15 DEF Writing

LEMMA FieldsKnownHolds == FormsSpec => []FieldsKnown
<1>1. FlightInit /\ FormsInit => FieldsKnown
  <2>1. SUFFICES ASSUME FormsInit PROVE FieldsKnown
    OBVIOUS
  <2>2. DOMAIN forms = {1} /\ forms[1] = NewForm(SeedFields)
    BY <2>1 DEF FormsInit
  <2>3. NewForm(SeedFields).fields = SeedFields
    BY DEF NewForm
  <2>4. AllKnown(SeedFields)
    BY DEF AllKnown, Known, Kinds
  <2>5. QED
    BY <2>2, <2>3, <2>4 DEF FieldsKnown, FieldsOf
<1>2. Base /\ FieldsKnown /\ [FormsNext]_FormsFlight => FieldsKnown'
  BY FieldsKept
<1>3. QED
  BY <1>1, <1>2, BaseHolds, PTL DEF FormsSpec

\* "Field yang sudah dinonaktifkan tetap diterima saat edit, supaya record lama masih bisa
\* diperbaiki": what was validated is accepted again as it stands, after any history of
\* deactivations and optional fields, for any definitions and values that say something.
THEOREM OldRecordsRepairableHolds ==
  ASSUME WordsGiven
  PROVE  FormsSpec => []OldRecordsRepairable
<1>1. FlightInit /\ FormsInit => RepairInv
  <2>1. SUFFICES ASSUME FlightInit, FormsInit PROVE RepairInv
    OBVIOUS
  <2>2. DOMAIN records = {} /\ \A r \in Requests : req[r] = Idle
    BY <2>1 DEF FormsInit, FlightInit
  <2>3. QED
    BY <2>2, IdleIs DEF RepairInv, RequestStands
<1>2. Base /\ FieldsKnown /\ RepairInv /\ [FormsNext]_FormsFlight => RepairInv'
  BY RepairKept
<1>3. RepairInv => OldRecordsRepairable
  BY StandingAccepted DEF RepairInv, RecordStands, OldRecordsRepairable
<1>4. QED
  BY <1>1, <1>2, <1>3, BaseHolds, FieldsKnownHolds, PTL DEF FormsSpec

-----------------------------------------------------------------------------
(* An edit that was acknowledged stands.                                   *)

\* What a field stores: text, or something else by its type, and of a table the columns.
TextShape == <<"TEXT", {}>>
Shape(field) ==
  CASE field.type = "TABLE" -> <<"TABLE", field.columns>>
    [] field.type \in {"NUMBER", "BOOLEAN", "DATE", "MULTISELECT", "FILE"} -> <<field.type, {}>>
    [] OTHER -> TextShape

\* The hypothesis: every key keeps its shape, and what has a default is text.  (An edit
\* reads all the values again, by the fields as they are now; a default is stored as text.)
FieldsSteady(fields, ShapeOf) ==
  \A k \in DOMAIN fields : /\ Shape(fields[k]) = ShapeOf[k]
                           /\ fields[k].default # "" => ShapeOf[k] = TextShape
Steady(ShapeOf) == \A f \in DOMAIN forms : FieldsSteady(FieldsOf(f), ShapeOf)

Formed(v, shape) ==
  \/ \E field, raw : /\ Shape(field) = shape /\ Passes(Coerce(field, raw))
                     /\ v = Coerce(field, raw)
  \/ shape = TextShape /\ \E w : v = Text(w)

LEMMA ShapeIs ==
  ASSUME NEW field
  PROVE  /\ Shape(field)[1] =
              IF field.type \in {"TABLE", "NUMBER", "BOOLEAN", "DATE", "MULTISELECT", "FILE"}
              THEN field.type ELSE "TEXT"
         /\ field.type = "TABLE" => Shape(field)[2] = field.columns
<1>1. CASE field.type = "TABLE"
  BY <1>1 DEF Shape
<1>2. CASE field.type \in {"NUMBER", "BOOLEAN", "DATE", "MULTISELECT", "FILE"}
  BY <1>2 DEF Shape
<1>3. CASE field.type \notin {"TABLE", "NUMBER", "BOOLEAN", "DATE", "MULTISELECT", "FILE"}
  BY <1>3 DEF Shape, TextShape
<1>4. QED
  BY <1>1, <1>2, <1>3

LEMMA TextStays ==
  ASSUME NEW e, Shape(e) = TextShape, NEW w, Passes(Coerce(e, Text(w)))
  PROVE  Coerce(e, Text(w)) = Text(w)
<1>1. e.type \notin {"TABLE", "NUMBER", "BOOLEAN", "DATE", "MULTISELECT", "FILE"}
  BY ShapeIs DEF TextShape
<1>2. Word(Text(w)) = w
  BY WordIs
<1>3. QED
  BY <1>1, <1>2, CoerceCases

\* What was read by a field is read alike by another of its shape, or refused.
LEMMA ReadAlike ==
  ASSUME NEW d, NEW e, Shape(d) = Shape(e), NEW raw, Passes(Coerce(d, raw)),
         Passes(Coerce(e, Coerce(d, raw)))
  PROVE  Coerce(e, Coerce(d, raw)) = Coerce(d, raw)
<1>1. PICK v : v = Coerce(d, raw)
  OBVIOUS
<1>2. Coerce(d, v) = v
  BY <1>1, CoerceIdempotent
<1>3. Passes(Coerce(d, v)) /\ Passes(Coerce(e, v))
  BY <1>1, <1>2
<1>4. CASE Shape(d) = TextShape
  <2>1. d.type \notin {"TABLE", "NUMBER", "BOOLEAN", "DATE", "MULTISELECT", "FILE"}
    BY <1>4, ShapeIs DEF TextShape
  <2>2. v = Text(Word(v))
    BY <1>2, <1>3, <2>1, CoerceCases
  <2>3. QED
    BY <1>1, <1>3, <1>4, <2>2, TextStays
<1>5. CASE d.type \in {"NUMBER", "BOOLEAN", "DATE", "MULTISELECT", "FILE"}
  <2>1. e.type = d.type
    BY <1>5, ShapeIs
  <2>2. CASE d.type = "BOOLEAN"
    BY <1>1, <1>2, <2>1, <2>2, BooleanRead
  <2>3. CASE d.type # "BOOLEAN"
    BY <1>1, <1>2, <1>3, <1>5, <2>1, <2>3, CoerceCases
  <2>4. QED
    BY <2>2, <2>3
<1>6. CASE d.type = "TABLE"
  <2>1. e.type = "TABLE" /\ e.columns = d.columns
    BY <1>6, ShapeIs
  <2>2. \A row : Cleaned(e, row) = Cleaned(d, row)
    BY <2>1 DEF Cleaned
  <2>3. Coerce(d, v) = Rows([n \in DOMAIN v.is |-> Cleaned(d, v.is[n])])
    BY <1>3, <1>6, CoerceCases
  <2>4. Coerce(e, v) = Rows([n \in DOMAIN v.is |-> Cleaned(e, v.is[n])])
    BY <1>3, <2>1, CoerceCases
  <2>5. QED
    BY <1>1, <1>2, <2>2, <2>3, <2>4
<1>7. QED
  BY <1>4, <1>5, <1>6 DEF Shape

LEMMA FormedStays ==
  ASSUME NEW v, NEW e, Formed(v, Shape(e)), Passes(Coerce(e, v))
  PROVE  Coerce(e, v) = v
BY TextStays, ReadAlike DEF Formed

LEMMA ValidatedKeeps ==
  ASSUME NEW fields, NEW input, Accepts(fields, input, TRUE), NEW k
  PROVE  LET values == Validated(fields, input, TRUE) IN
           /\ ~Empty(input, k) => /\ k \in DOMAIN values /\ k \in DOMAIN fields
                                  /\ Passes(Coerce(fields[k], input[k]))
                                  /\ values[k] = Coerce(fields[k], input[k])
           /\ Empty(input, k) => \/ k \notin DOMAIN values \/ Blank(values[k])
                                 \/ /\ k \in DOMAIN fields /\ fields[k].default # ""
                                    /\ values[k] = Text(fields[k].default)
<1> DEFINE usable == Usable(fields, TRUE)
           spared == {x \in usable \intersect DOMAIN input :
                        Empty(input, x) /\ Spared(fields, TRUE, x)}
           filled == {x \in usable : Empty(input, x) /\ ~Spared(fields, TRUE, x)
                                     /\ fields[x].default # ""}
           given == {x \in usable : ~Empty(input, x)}
           values == [x \in spared \union filled \union given |->
                        IF x \in spared THEN input[x]
                        ELSE IF x \in filled THEN Text(fields[x].default)
                        ELSE Coerce(fields[x], input[x])]
<1>1. values = Validated(fields, input, TRUE)
  BY DEF Validated
<1>2. usable = DOMAIN fields
  BY DEF Usable
<1>3. ASSUME ~Empty(input, k)
      PROVE  /\ k \in DOMAIN values /\ k \in DOMAIN fields
             /\ Passes(Coerce(fields[k], input[k]))
             /\ values[k] = Coerce(fields[k], input[k])
  <2>1. k \in DOMAIN input
    BY <1>3 DEF Empty
  <2>2. k \in usable /\ Passes(Coerce(fields[k], input[k]))
    BY <1>3, <2>1 DEF Accepts
  <2>3. QED
    BY <1>2, <1>3, <2>2
<1>4. ASSUME Empty(input, k), k \in DOMAIN values
      PROVE  \/ Blank(values[k])
             \/ k \in DOMAIN fields /\ fields[k].default # "" /\ values[k] = Text(fields[k].default)
  <2>1. k \in spared \/ k \in filled
    BY <1>4
  <2>2. CASE k \in spared
    <3>1. values[k] = input[k] /\ k \in DOMAIN input
      BY <1>4, <2>2
    <3>2. QED
      BY <1>4, <3>1 DEF Empty
  <2>3. CASE k \in filled /\ k \notin spared
    BY <1>2, <1>4, <2>3
  <2>4. QED
    BY <2>1, <2>2, <2>3
<1> HIDE DEF values, spared, filled, given, usable
<1>5. QED
  BY <1>1, <1>3, <1>4

Alone(n) == {EditOf(n)} \notin raced
Kept(values, k, said) ==
  \/ ValueOf(values, k) = said
  \/ said = None /\ k \in DOMAIN values /\ values[k] \in Defaults
Regular(v, shape) == Blank(v) \/ Formed(v, shape)
RequestKeeps(q, ShapeOf) ==
  q.op = "update" =>
    /\ q.data.values = {} => q.data.given = {}
    /\ \A v \in q.data.values :
         /\ \A k \in DOMAIN v : Regular(v[k], ShapeOf[k])
         /\ Alone(q.id) => \A k \in DOMAIN story[q.id].said \ q.data.given :
                             Kept(v, k, story[q.id].said[k])
RecordKeeps(n, ShapeOf) ==
  \A k \in DOMAIN story[n].said :
    /\ k \in DOMAIN records[n].values => Regular(records[n].values[k], ShapeOf[k])
    /\ Alone(n) => Kept(records[n].values, k, story[n].said[k])
EditInv(ShapeOf) ==
  /\ \A r \in Requests : RequestKeeps(req[r], ShapeOf)
  /\ \A n \in DOMAIN records : RecordKeeps(n, ShapeOf)

\* An edit reads again what was kept, and what it stores is regular.
LEMMA EditReads ==
  ASSUME NEW ShapeOf, NEW fields, AllKnown(fields), FieldsSteady(fields, ShapeOf),
         NEW input, Accepts(fields, input, TRUE)
  PROVE  LET v == Validated(fields, input, TRUE) IN
           /\ \A k \in DOMAIN v : Regular(v[k], ShapeOf[k])
           /\ \A k, said, old :
                /\ Kept(old, k, said)
                /\ k \in DOMAIN old => Regular(old[k], ShapeOf[k]) /\ input[k] = old[k]
                /\ k \in DOMAIN input <=> k \in DOMAIN old
                => Kept(v, k, said)
<1> DEFINE v == Validated(fields, input, TRUE)
<1>1. ASSUME NEW k \in DOMAIN fields
      PROVE  /\ Shape(fields[k]) = ShapeOf[k]
             /\ fields[k].default # "" => ShapeOf[k] = TextShape
             /\ Text(fields[k].default) \in Defaults
  <2>1. Shape(fields[k]) = ShapeOf[k] /\ (fields[k].default # "" => ShapeOf[k] = TextShape)
    BY DEF FieldsSteady
  <2>2. PICK d \in Kinds : fields[k] \in {d, [d EXCEPT !.active = FALSE]}
    BY DEF AllKnown, Known
  <2>3. DOMAIN d = Columns
    BY FormRecordsAssumption DEF FormRecordsAssumption, Kinds
  <2>4. fields[k].default = d.default
    BY <2>2, <2>3 DEF Columns
  <2>5. QED
    BY <2>1, <2>4 DEF Defaults, Kinds
<1>2. /\ DOMAIN v \subseteq DOMAIN fields
      /\ \A k \in DOMAIN v :
           \/ k \in DOMAIN input /\ Blank(input[k]) /\ v[k] = input[k] /\ ~fields[k].active
           \/ fields[k].default # "" /\ v[k] = Text(fields[k].default)
           \/ /\ k \in DOMAIN input /\ ~Blank(input[k]) /\ Passes(Coerce(fields[k], input[k]))
              /\ v[k] = Coerce(fields[k], input[k])
  BY ValidatedIs
<1>3. ASSUME NEW k
      PROVE  /\ ~Empty(input, k) => /\ k \in DOMAIN v /\ k \in DOMAIN fields
                                    /\ Passes(Coerce(fields[k], input[k]))
                                    /\ v[k] = Coerce(fields[k], input[k])
             /\ Empty(input, k) => \/ k \notin DOMAIN v \/ Blank(v[k])
                                   \/ /\ k \in DOMAIN fields /\ fields[k].default # ""
                                      /\ v[k] = Text(fields[k].default)
  BY ValidatedKeeps
<1> HIDE DEF v
<1>4. ASSUME NEW k \in DOMAIN v
      PROVE  Regular(v[k], ShapeOf[k])
  <2>1. k \in DOMAIN fields
    BY <1>2
  <2>2. CASE Blank(v[k])
    BY <2>2 DEF Regular
  <2>3. CASE fields[k].default # "" /\ v[k] = Text(fields[k].default)
    BY <1>1, <2>1, <2>3 DEF Regular, Formed
  <2>4. CASE Passes(Coerce(fields[k], input[k])) /\ v[k] = Coerce(fields[k], input[k])
    BY <1>1, <2>1, <2>4 DEF Regular, Formed
  <2>5. QED
    BY <1>2, <2>2, <2>3, <2>4
<1>5. ASSUME NEW k, NEW said, NEW old, Kept(old, k, said),
             k \in DOMAIN old => Regular(old[k], ShapeOf[k]) /\ input[k] = old[k],
             k \in DOMAIN input <=> k \in DOMAIN old
      PROVE  Kept(v, k, said)
  <2>1. CASE Empty(input, k)
    <3>1. k \notin DOMAIN old \/ Blank(old[k])
      BY <1>5, <2>1 DEF Empty
    <3>2. ValueOf(old, k) = None
      BY <3>1 DEF ValueOf
    <3>3. said = None
      BY <1>5, <3>2 DEF Kept
    <3>4. CASE k \notin DOMAIN v \/ Blank(v[k])
      BY <3>3, <3>4 DEF Kept, ValueOf
    <3>5. CASE k \in DOMAIN v /\ k \in DOMAIN fields /\ v[k] = Text(fields[k].default)
      BY <1>1, <3>3, <3>5 DEF Kept
    <3>6. QED
      BY <1>3, <2>1, <3>4, <3>5
  <2>2. CASE ~Empty(input, k)
    <3>1. k \in DOMAIN old /\ input[k] = old[k] /\ ~Blank(old[k]) /\ Regular(old[k], ShapeOf[k])
      BY <1>5, <2>2 DEF Empty
    <3>2. /\ k \in DOMAIN v /\ k \in DOMAIN fields
          /\ Passes(Coerce(fields[k], old[k])) /\ v[k] = Coerce(fields[k], old[k])
      BY <1>3, <2>2, <3>1
    <3>3. Formed(old[k], Shape(fields[k]))
      BY <1>1, <3>1, <3>2 DEF Regular
    <3>4. v[k] = old[k]
      BY <3>2, <3>3, FormedStays
    <3>5. QED
      BY <1>5, <3>1, <3>2, <3>4 DEF Kept, ValueOf
  <2>3. QED
    BY <2>1, <2>2
<1>6. QED
  BY <1>4, <1>5 DEF v

LEMMA EditsRaced ==
  ASSUME Base, NEW r \in Requests, NEW s \in Requests, r # s, NEW n,
         req[r].topic = {EditOf(n)}, req[s].topic = {EditOf(n)}
  PROVE  ~Alone(n)
<1>1. {EditOf(n), EditOf(n)} = {EditOf(n)}
  OBVIOUS
<1>2. QED
  BY <1>1, Clashing DEF Base, PairsRaced, Alone

\* What the other requests and the records know goes on.
LEMMA OthersKeep ==
  ASSUME NEW ShapeOf, Base, EditInv(ShapeOf), NEW r \in Requests, Others(r), raced \subseteq raced',
         \A s \in Requests \ {r} :
           req[s].op = "update" => story'[req[s].id].said = story[req[s].id].said \/ ~Alone(req[s].id)
  PROVE  \A s \in Requests \ {r} : RequestKeeps(req[s], ShapeOf)'
<1>1. \A n : Alone(n)' => Alone(n)
  BY DEF Alone, EditOf
<1>2. QED
  BY <1>1 DEF EditInv, RequestKeeps, Others

LEMMA EditKept ==
  ASSUME NEW ShapeOf, Base, FieldsKnown, Steady(ShapeOf), EditInv(ShapeOf), [FormsNext]_FormsFlight
  PROVE  EditInv(ShapeOf)'
<1> DEFINE ops == {"update"}
<1>1. Base' /\ (Aside(ops) \/ OnlyReads(ops) \/ Writing)
  BY EveryStep
<1>2. raced \subseteq raced' => \A n : Alone(n)' => Alone(n)
  BY DEF Alone, EditOf
<1>3. CASE Aside(ops)
  BY <1>2, <1>3 DEF Aside, EditInv, RequestKeeps, RecordKeeps
<1>4. ASSUME NEW r \in Requests, Others(r), raced \subseteq raced', RequestKeeps(req[r], ShapeOf)',
             DOMAIN records \subseteq DOMAIN records',
             \A m \in DOMAIN records : /\ records'[m].values = records[m].values
                                       /\ story'[m].said = story[m].said,
             \A m \in DOMAIN records' \ DOMAIN records : story'[m].said = <<>>
      PROVE  EditInv(ShapeOf)'
  <2>1. \A s \in Requests : req[s].op = "update" => req[s].id \in DOMAIN records
    BY AboutRows
  <2>2. \A s \in Requests \ {r} : RequestKeeps(req[s], ShapeOf)'
    BY <1>4, <2>1, OthersKeep
  <2>3. ASSUME NEW m \in DOMAIN records'
        PROVE  RecordKeeps(m, ShapeOf)'
    <3>1. CASE m \in DOMAIN records
      BY <1>2, <1>4, <3>1 DEF EditInv, RecordKeeps
    <3>2. CASE m \notin DOMAIN records
      <4>1. DOMAIN story'[m].said = {}
        BY <1>4, <2>3, <3>2
      <4>2. QED
        BY <4>1 DEF RecordKeeps
    <3>3. QED
      BY <3>1, <3>2
  <2>4. QED
    BY <1>4, <2>2, <2>3 DEF EditInv
<1>5. ASSUME NEW r \in Requests, NEW n \in DOMAIN records, NEW dto \in Patches, Update(r, n, dto)
      PROVE  EditInv(ShapeOf)'
  <2> DEFINE fields == FieldsOf(records[n].form)
             merged == Merged(n, dto)
  <2>1. /\ ReadOnly(r) /\ req'[r].op = "update" /\ req'[r].id = n
        /\ dto.values # None => Accepts(fields, merged, TRUE)
        /\ req'[r].data.values = IF dto.values = None THEN {} ELSE {Validated(fields, merged, TRUE)}
        /\ req'[r].data.given = IF dto.values = None THEN {} ELSE DOMAIN dto.values
    BY <1>5, UpdateBase
  <2>2. Others(r) /\ raced \subseteq raced' /\ UNCHANGED <<records, story>>
    BY <2>1 DEF ReadOnly, formVars
  <2>3. AllKnown(fields) /\ FieldsSteady(fields, ShapeOf)
    BY DEF FieldsKnown, Steady, Base, TablesOK, RecordOK
  <2>4. RecordKeeps(n, ShapeOf)
    BY DEF EditInv
  <2>5. ASSUME dto.values # None, NEW k, k \notin DOMAIN dto.values
        PROVE  /\ k \in DOMAIN merged <=> k \in DOMAIN records[n].values
               /\ k \in DOMAIN records[n].values => merged[k] = records[n].values[k]
    BY <2>5 DEF Merged, Over
  <2> HIDE DEF fields, merged
  <2>6. ASSUME NEW v \in req'[r].data.values
        PROVE  /\ \A k \in DOMAIN v : Regular(v[k], ShapeOf[k])
               /\ Alone(n) => \A k \in DOMAIN story[n].said \ req'[r].data.given :
                                Kept(v, k, story[n].said[k])
    <3>1. /\ dto.values # None /\ v = Validated(fields, merged, TRUE)
          /\ Accepts(fields, merged, TRUE)
          /\ req'[r].data.given = DOMAIN dto.values
      BY <2>1, <2>6
    <3>2. \A k \in DOMAIN v : Regular(v[k], ShapeOf[k])
      BY <2>3, <3>1, EditReads
    <3>3. ASSUME Alone(n), NEW k \in DOMAIN story[n].said \ req'[r].data.given
          PROVE  Kept(v, k, story[n].said[k])
      <4>1. /\ Kept(records[n].values, k, story[n].said[k])
            /\ k \in DOMAIN records[n].values => Regular(records[n].values[k], ShapeOf[k])
        BY <2>4, <3>3 DEF RecordKeeps
      <4>2. QED
        BY <2>3, <2>5, <3>1, <3>3, <4>1, EditReads
    <3>4. QED
      BY <3>2, <3>3
  <2>7. RequestKeeps(req[r], ShapeOf)'
    BY <1>2, <2>1, <2>2, <2>6 DEF RequestKeeps
  <2>8. QED
    BY <1>4, <2>2, <2>7
<1>6. CASE OnlyReads(ops)
  BY <1>5, <1>6 DEF OnlyReads
<1>7. \A r : req'[r].op # "update" => RequestKeeps(req[r], ShapeOf)'
  BY DEF RequestKeeps
<1>8. CASE \E n \in DOMAIN records : RemoveRecord(n)
  <2>1. PICK n \in DOMAIN records : RemoveRecord(n)
    BY <1>8
  <2>2. /\ UNCHANGED <<req, raced>> /\ Elsewhere(n)
        /\ records'[n].values = records[n].values /\ story'[n].said = story[n].said
    BY <2>1, RemoveRecordBase
  <2>3. /\ DOMAIN records' = DOMAIN records
        /\ \A m \in DOMAIN records : /\ records'[m].values = records[m].values
                                     /\ story'[m].said = story[m].said
    BY <2>2 DEF Elsewhere
  <2>4. \A s \in Requests : req[s].op = "update" => req[s].id \in DOMAIN records
    BY AboutRows
  <2>5. \A s \in Requests : RequestKeeps(req[s], ShapeOf)'
    BY <1>2, <2>2, <2>3, <2>4 DEF EditInv, RequestKeeps
  <2>6. \A m \in DOMAIN records' : RecordKeeps(m, ShapeOf)'
    BY <1>2, <2>2, <2>3 DEF EditInv, RecordKeeps
  <2>7. QED
    BY <2>5, <2>6 DEF EditInv
<1>9. ASSUME NEW r \in Requests, Delete(r)
      PROVE  EditInv(ShapeOf)'
  <2>1. /\ Leaves(r) /\ UNCHANGED story /\ DOMAIN records' = DOMAIN records
        /\ \A n \in DOMAIN records : records'[n].values = records[n].values
    BY <1>9, DeleteBase
  <2>2. RequestKeeps(req[r], ShapeOf)'
    BY <1>7, <2>1, IdleIs DEF Leaves
  <2>3. QED
    BY <1>4, <2>1, <2>2 DEF Leaves
<1>10. ASSUME NEW r \in Requests, Create(r) \/ ImportChunk(r)
       PROVE  EditInv(ShapeOf)'
  <2>1. Grown(r) /\ Others(r) /\ UNCHANGED raced /\ req'[r].op \in {"none", "import"}
    BY <1>10, Comes
  <2>2. RequestKeeps(req[r], ShapeOf)'
    BY <1>7, <2>1
  <2>3. QED
    BY <1>4, <2>1, <2>2 DEF Grown
<1>11. ASSUME NEW r \in Requests, MarkGenerated(r)
       PROVE  EditInv(ShapeOf)'
  <2>0. PICK n : n = req[r].id
    OBVIOUS
  <2>1. /\ Leaves(r) /\ n \in DOMAIN records /\ Elsewhere(n)
        /\ records'[n].values = records[n].values /\ story'[n].said = story[n].said
    BY <1>11, <2>0, MarkGeneratedBase DEF RecordOK, StoryOK
  <2>2. RequestKeeps(req[r], ShapeOf)'
    BY <1>7, <2>1, IdleIs DEF Leaves
  <2>3. /\ DOMAIN records' = DOMAIN records
        /\ \A m \in DOMAIN records : /\ records'[m].values = records[m].values
                                     /\ story'[m].said = story[m].said
    BY <2>1 DEF Elsewhere
  <2>4. QED
    BY <1>4, <2>1, <2>2, <2>3 DEF Leaves
<1>12. ASSUME NEW r \in Requests, Write(r)
       PROVE  EditInv(ShapeOf)'
  <2>0. PICK n : n = req[r].id
    OBVIOUS
  <2> DEFINE w == req[r].data
  <2>1. /\ Leaves(r) /\ req[r].op = "update" /\ req[r].topic = {EditOf(n)} /\ n \in DOMAIN records
    BY <1>12, <2>0, WriteBase
  <2>2. RequestKeeps(req[r], ShapeOf)'
    BY <1>7, <2>1, IdleIs DEF Leaves
  <2>3. CASE UNCHANGED <<records, story>>
    BY <1>4, <2>1, <2>2, <2>3 DEF Leaves
  <2>4. CASE ~UNCHANGED <<records, story>>
    <3>1. /\ Elsewhere(n)
          /\ records'[n].values = Written(records[n].values, w.values)
          /\ story'[n].said = Over([k \in w.given |-> ValueOf(records'[n].values, k)], story[n].said)
      BY <1>12, <2>0, <2>4, WriteBase
    <3>2. RequestKeeps(req[r], ShapeOf) /\ RecordKeeps(n, ShapeOf)
      BY <2>1 DEF EditInv
    <3>3. PICK new : new = records'[n].values
      OBVIOUS
    <3>4. PICK old : old = records[n].values
      OBVIOUS
    <3>5. PICK said : said = story[n].said
      OBVIOUS
    <3>6. PICK told : told = story'[n].said
      OBVIOUS
    <3>7. /\ DOMAIN told = w.given \union DOMAIN said
          /\ \A k \in w.given : told[k] = ValueOf(new, k)
          /\ \A k \in DOMAIN said \ w.given : told[k] = said[k]
      BY <3>1, <3>3, <3>5, <3>6 DEF Over
    <3>8. IF w.values = {} THEN new = old /\ w.given = {} ELSE new \in w.values
      <4>1. CASE w.values = {}
        BY <2>1, <3>1, <3>2, <3>3, <3>4, <4>1 DEF Written, RequestKeeps
      <4>2. CASE w.values # {}
        BY <3>1, <3>3, <4>2 DEF Written
      <4>3. QED
        BY <4>1, <4>2
    <3>9. /\ \A v \in w.values :
               /\ \A k \in DOMAIN v : Regular(v[k], ShapeOf[k])
               /\ Alone(n) => \A k \in DOMAIN said \ w.given : Kept(v, k, said[k])
          /\ \A k \in DOMAIN said : /\ k \in DOMAIN old => Regular(old[k], ShapeOf[k])
                                    /\ Alone(n) => Kept(old, k, said[k])
      BY <2>0, <2>1, <3>2, <3>4, <3>5 DEF RequestKeeps, RecordKeeps
    <3> HIDE DEF w
    <3>10. ASSUME NEW k \in DOMAIN told
           PROVE  /\ k \in DOMAIN new => Regular(new[k], ShapeOf[k])
                  /\ Alone(n) => Kept(new, k, told[k])
      <4>1. CASE k \in w.given
        BY <3>7, <3>8, <3>9, <4>1 DEF Kept
      <4>2. CASE k \notin w.given
        BY <3>7, <3>8, <3>9, <3>10, <4>2
      <4>3. QED
        BY <4>1, <4>2
    <3>11. UNCHANGED raced
      BY <2>1 DEF Leaves
    <3>12. RecordKeeps(n, ShapeOf)'
      BY <1>2, <3>3, <3>6, <3>10, <3>11 DEF RecordKeeps
    <3>13. ASSUME NEW m \in DOMAIN records'
           PROVE  RecordKeeps(m, ShapeOf)'
      <4>1. CASE m = n
        BY <3>12, <4>1
      <4>2. CASE m # n
        <5>1. m \in DOMAIN records /\ records'[m] = records[m] /\ story'[m] = story[m]
          BY <3>1, <3>13, <4>2 DEF Elsewhere
        <5>2. QED
          BY <1>2, <3>11, <5>1 DEF EditInv, RecordKeeps
      <4>3. QED
        BY <4>1, <4>2
    <3>14. ASSUME NEW s \in Requests \ {r}, req[s].op = "update"
           PROVE  story'[req[s].id].said = story[req[s].id].said \/ ~Alone(req[s].id)
      <4>1. req[s].id \in DOMAIN records /\ req[s].topic = {EditOf(req[s].id)}
        BY <3>14, AboutRows DEF Base, RequestsOK, RequestOK
      <4>2. CASE req[s].id = n
        BY <2>1, <4>1, <4>2, EditsRaced
      <4>3. CASE req[s].id # n
        BY <3>1, <4>1, <4>3 DEF Elsewhere
      <4>4. QED
        BY <4>2, <4>3
    <3>15. \A s \in Requests \ {r} : RequestKeeps(req[s], ShapeOf)'
      BY <2>1, <3>11, <3>14, OthersKeep DEF Leaves
    <3>16. QED
      BY <2>2, <3>13, <3>15 DEF EditInv
  <2>5. QED
    BY <2>3, <2>4
<1>13. QED
  BY <1>1, <1>3, <1>6, <1>8, <1>9, <1>10, <1>11, <1>12 DEF Writing

\* An edit that was acknowledged stands until the next edit of that value, although each
\* edit writes all the values back, unless two edits of the record overlapped; as long as
\* every key keeps what its field stores.
THEOREM EditsKeptHolds ==
  ASSUME NEW ShapeOf
  PROVE  FormsSpec /\ []Steady(ShapeOf) => []EditsKept
<1>1. FlightInit /\ FormsInit => EditInv(ShapeOf)
  <2>1. SUFFICES ASSUME FlightInit, FormsInit PROVE EditInv(ShapeOf)
    OBVIOUS
  <2>2. DOMAIN records = {} /\ \A r \in Requests : req[r] = Idle
    BY <2>1 DEF FormsInit, FlightInit
  <2>3. QED
    BY <2>2, IdleIs DEF EditInv, RequestKeeps
<1>2. Base /\ FieldsKnown /\ Steady(ShapeOf) /\ EditInv(ShapeOf) /\ [FormsNext]_FormsFlight
        => EditInv(ShapeOf)'
  BY EditKept
<1>3. EditInv(ShapeOf) => EditsKept
  BY DEF EditInv, RecordKeeps, Kept, EditsKept, Alone, EditOf
<1>4. QED
  BY <1>1, <1>2, <1>3, BaseHolds, FieldsKnownHolds, PTL DEF FormsSpec
=============================================================================
