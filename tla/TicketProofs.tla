------------------------------ MODULE TicketProofs ------------------------------
(***************************************************************************)
(* Why the two paths store the same columns: replaying the activities from *)
(* the oldest to the newest leaves in every field its last change, which   *)
(* is what the report shows, whatever the log; and each column then        *)
(* depends on nothing the two paths know differently, but for its causes.  *)
(***************************************************************************)
EXTENDS TicketPaths, FiniteSetTheorems, WellFoundedInduction, TLAPS

-----------------------------------------------------------------------------
(* Least elements.                                                         *)

LEMMA NatWellFounded == \E R : IsWellFoundedOn(R, Nat) /\ \A m, n \in Nat : m < n => <<m, n>> \in R
<1> DEFINE R == OpToRel(<, Nat)
<1>1. IsWellFoundedOn(R, Nat)
  BY NatLessThanWellFounded
<1>2. \A m, n \in Nat : m < n => <<m, n>> \in R
  BY DEF OpToRel
<1> HIDE DEF R
<1>3. QED
  BY <1>1, <1>2

LEMMA LeastOf ==
  ASSUME NEW S, S \subseteq Nat, S # {}
  PROVE  \E x \in S : \A y \in S : x <= y
<1>1. PICK R : IsWellFoundedOn(R, Nat) /\ \A m, n \in Nat : m < n => <<m, n>> \in R
  BY NatWellFounded
<1>2. PICK x \in S : \A y \in S : ~ (<<y, x>> \in R)
  <2>1. IsWellFoundedOn(R, Nat)
    BY <1>1
  <2>2. QED
    BY <2>1, WFMin
<1>3. \A y \in S : ~(y < x)
  BY <1>1, <1>2
<1>4. \A y \in S : x <= y
  BY <1>3
<1>5. QED
  BY <1>4

LEMMA MinIs ==
  ASSUME NEW S, S \subseteq Nat, S # {}
  PROVE  Min(S) \in S /\ \A y \in S : Min(S) <= y
BY LeastOf DEF Min

-----------------------------------------------------------------------------
(* Logs.                                                                   *)

LEMMA LogPlaces ==
  ASSUME NEW log, IsLog(log)
  PROVE  /\ Len(log) \in Nat /\ DOMAIN log = 1..Len(log) /\ DOMAIN log \subseteq Nat
         /\ IsFiniteSet(DOMAIN log)
<1>1. Len(log) \in Nat /\ DOMAIN log = 1..Len(log)
  BY DEF IsLog
<1>2. IsFiniteSet(1..Len(log))
  BY <1>1, FS_Interval
<1>3. QED
  BY <1>1, <1>2

\* Every set of activities has a last one.
LEMMA LastExists ==
  ASSUME NEW log, IsLog(log), NEW S \in SUBSET DOMAIN log, S # {}
  PROVE  \E i \in S : \A j \in S : Follows(log, i, j)
<1> DEFINE
      Lacks(T) == T # {} /\ \A i \in T : \E j \in T : ~Follows(log, i, j)
      Sizes == {n \in Nat : \E T \in SUBSET DOMAIN log : Lacks(T) /\ Cardinality(T) = n}
<1>1. /\ DOMAIN log \subseteq Nat /\ IsFiniteSet(DOMAIN log)
      /\ \A i \in DOMAIN log : log[i].at \in Nat
  BY LogPlaces DEF IsLog
<1>2. \A T \in SUBSET DOMAIN log : IsFiniteSet(T) /\ Cardinality(T) \in Nat
  BY <1>1, FS_Subset, FS_CardinalityType
<1>3. \A i, j, k \in DOMAIN log : /\ Follows(log, i, j) \/ Follows(log, j, i)
                                  /\ Follows(log, i, j) /\ Follows(log, j, k) => Follows(log, i, k)
                                  /\ Follows(log, i, i)
  BY <1>1 DEF Follows
<1>4. SUFFICES ASSUME Sizes # {} PROVE FALSE
  <2>1. ~Lacks(S)
    BY <1>2, <1>4
  <2>2. QED
    BY <2>1
<1>5. PICK n \in Sizes : \A m \in Sizes : n <= m
  BY <1>4, LeastOf
<1>6. PICK T \in SUBSET DOMAIN log : Lacks(T) /\ Cardinality(T) = n
  BY <1>5
<1>7. PICK x \in T : TRUE
  BY <1>6
<1> DEFINE U == T \ {x}
<1>8. U \in SUBSET DOMAIN log /\ Cardinality(U) = n - 1 /\ n \in Nat /\ Cardinality(U) \in Nat
  <2>1. Cardinality(U) = Cardinality(T) - 1
    BY <1>2, <1>7, FS_RemoveElement
  <2>2. QED
    BY <2>1, <1>2, <1>5, <1>6
<1>9. ~Lacks(U)
  <2>1. SUFFICES ASSUME Lacks(U) PROVE FALSE
    OBVIOUS
  <2>2. n - 1 \in Sizes
    BY <1>8, <2>1
  <2>3. n <= n - 1
    BY <1>5, <2>2
  <2>4. QED
    BY <1>8, <2>3
<1>10. U # {}
  <2>1. SUFFICES ASSUME U = {} PROVE FALSE
    OBVIOUS
  <2>2. \A j \in T : Follows(log, x, j)
    BY <2>1, <1>3, <1>7
  <2>3. QED
    BY <2>2, <1>6, <1>7
<1>11. PICK y \in U : \A j \in U : Follows(log, y, j)
  BY <1>9, <1>10
<1>12. \A j \in T : j = x \/ Follows(log, y, j)
  BY <1>11
<1> HIDE DEF U
<1>13. x \in DOMAIN log /\ y \in DOMAIN log /\ y \in T /\ T \subseteq DOMAIN log
  BY <1>7, <1>8, <1>11 DEF U
<1>14. CASE Follows(log, y, x)
  <2>1. \A j \in T : Follows(log, y, j)
    BY <1>12, <1>14
  <2>2. QED
    BY <2>1, <1>6, <1>13
<1>15. CASE Follows(log, x, y)
  <2>1. \A j \in T : Follows(log, x, j)
    BY <1>3, <1>12, <1>13, <1>15
  <2>2. QED
    BY <2>1, <1>6, <1>7
<1>16. QED
  BY <1>3, <1>13, <1>14, <1>15

LEMMA LastOfIs ==
  ASSUME NEW log, IsLog(log), NEW S \in SUBSET DOMAIN log, S # {}
  PROVE  LastOf(log, S) \in S /\ \A j \in S : Follows(log, LastOf(log, S), j)
BY LastExists DEF LastOf

-----------------------------------------------------------------------------
(* The replay.                                                             *)

\* Each field as the activities in S leave it: its first change in the log, where the
\* newest comes first.
LatestIn(log, S) ==
  [name \in DOMAIN Defaults |->
     IF Changes(log, name) \intersect S = {} THEN Defaults[name]
     ELSE log[Min(Changes(log, name) \intersect S)].to]

\* The last activity is the first change in the log of its field.
LEMMA LastIsFirst ==
  ASSUME NEW log, IsLog(log), NEW S \in SUBSET DOMAIN log, S # {}
  PROVE  Min(Changes(log, log[LastOf(log, S)].name) \intersect S) = LastOf(log, S)
<1> DEFINE last == LastOf(log, S)
           same == Changes(log, log[last].name) \intersect S
<1>1. last \in S /\ \A j \in S : Follows(log, last, j)
  BY LastOfIs
<1>2. DOMAIN log \subseteq Nat /\ \A i \in DOMAIN log : log[i].at \in Nat
  BY LogPlaces DEF IsLog
<1>3. last \in same /\ same \subseteq S /\ same \subseteq Nat
      /\ \A i \in same : log[i].name = log[last].name
  BY <1>1, <1>2 DEF Changes
<1>4. Min(same) \in same /\ Min(same) <= last
  BY <1>3, MinIs
<1> HIDE DEF last, same
<1>5. \A i \in same : i < last => FALSE
  <2>1. SUFFICES ASSUME NEW i \in same, i < last PROVE FALSE
    OBVIOUS
  <2>2. i \in DOMAIN log /\ last \in DOMAIN log /\ log[last].name = log[i].name
    BY <1>1, <1>3, <2>1
  <2>3. log[last].at < log[i].at
    BY <2>1, <2>2 DEF IsLog
  <2>4. log[i].at < log[last].at \/ log[i].at = log[last].at
    BY <1>1, <1>3, <2>1 DEF Follows
  <2>5. QED
    BY <1>2, <2>2, <2>3, <2>4
<1>6. Min(same) = last
  <2>1. Min(same) \in Nat /\ last \in Nat
    BY <1>3, <1>4
  <2>2. ~(Min(same) < last)
    BY <1>4, <1>5
  <2>3. QED
    BY <1>4, <2>1, <2>2
<1>7. QED
  BY <1>6 DEF last, same

\* Replaying the last activity of S takes the fields of the others to those of S.
LEMMA LatestStep ==
  ASSUME NEW log, IsLog(log), NEW S \in SUBSET DOMAIN log, S # {}
  PROVE  LatestIn(log, S) = Replay(LatestIn(log, S \ {LastOf(log, S)}), log[LastOf(log, S)])
<1> DEFINE last == LastOf(log, S)
           before == LatestIn(log, S \ {last})
           after == Replay(before, log[last])
<1>1. last \in S /\ last \in DOMAIN log
  BY LastOfIs
<1>2. /\ DOMAIN before = DOMAIN Defaults /\ DOMAIN LatestIn(log, S) = DOMAIN Defaults
      /\ DOMAIN after = DOMAIN Defaults
      /\ \A name \in DOMAIN Defaults :
           after[name] = IF name = log[last].name THEN log[last].to ELSE before[name]
      /\ after = [name \in DOMAIN Defaults |-> after[name]]
  BY DEF Replay, LatestIn
<1>3. Min(Changes(log, log[last].name) \intersect S) = last
  BY LastIsFirst
<1>4. ASSUME NEW name \in DOMAIN Defaults
      PROVE  LatestIn(log, S)[name] = after[name]
  <2>1. CASE name = log[last].name
    <3>1. Changes(log, name) \intersect S # {}
      BY <1>1, <2>1 DEF Changes
    <3>2. LatestIn(log, S)[name] = log[last].to
      BY <1>3, <2>1, <3>1 DEF LatestIn
    <3>3. QED
      BY <1>2, <2>1, <3>2
  <2>2. CASE name # log[last].name
    <3>1. Changes(log, name) \intersect (S \ {last}) = Changes(log, name) \intersect S
      BY <2>2 DEF Changes
    <3>2. LatestIn(log, S)[name] = before[name]
      BY <3>1 DEF LatestIn
    <3>3. QED
      BY <1>2, <2>2, <3>2
  <2>3. QED
    BY <2>1, <2>2
<1>5. LatestIn(log, S) = [name \in DOMAIN Defaults |-> LatestIn(log, S)[name]]
  BY DEF LatestIn
<1> HIDE DEF last, before, after
<1>6. LatestIn(log, S) = after
  BY <1>2, <1>4, <1>5
<1>7. QED
  BY <1>6 DEF last, before, after

LEMMA LatestInNone ==
  ASSUME NEW log
  PROVE  LatestIn(log, {}) = Defaults
BY DEF LatestIn, Defaults

\* What the replay of extractLatestCustomFields computes is LatestIn.
IsReplay(log, f) ==
  f = [S \in SUBSET DOMAIN log |->
         IF S = {} THEN Defaults ELSE Replay(f[S \ {LastOf(log, S)}], log[LastOf(log, S)])]

LEMMA ReplayExists ==
  ASSUME NEW log, IsLog(log)
  PROVE  \E f : IsReplay(log, f)
<1> DEFINE g == [S \in SUBSET DOMAIN log |-> LatestIn(log, S)]
<1>1. ASSUME NEW S \in SUBSET DOMAIN log
      PROVE  g[S] = IF S = {} THEN Defaults
                    ELSE Replay(g[S \ {LastOf(log, S)}], log[LastOf(log, S)])
  <2>1. CASE S = {}
    BY <2>1, LatestInNone
  <2>2. CASE S # {}
    <3>1. g[S] = LatestIn(log, S) /\ S \ {LastOf(log, S)} \in SUBSET DOMAIN log
      OBVIOUS
    <3>2. g[S \ {LastOf(log, S)}] = LatestIn(log, S \ {LastOf(log, S)})
      BY <3>1
    <3>3. QED
      BY <2>2, <3>1, <3>2, LatestStep
  <2>3. QED
    BY <2>1, <2>2
<1>2. g = [S \in SUBSET DOMAIN log |-> g[S]]
  OBVIOUS
<1> HIDE DEF g
<1>3. IsReplay(log, g)
  BY <1>1, <1>2 DEF IsReplay
<1>4. QED
  BY <1>3

LEMMA ReplayIs ==
  ASSUME NEW log, IsLog(log), NEW f, IsReplay(log, f)
  PROVE  \A S \in SUBSET DOMAIN log : f[S] = LatestIn(log, S)
<1> DEFINE
      Differs(S) == f[S] # LatestIn(log, S)
      Sizes == {n \in Nat : \E S \in SUBSET DOMAIN log : Differs(S) /\ Cardinality(S) = n}
<1>1. \A S \in SUBSET DOMAIN log : IsFiniteSet(S) /\ Cardinality(S) \in Nat
  BY LogPlaces, FS_Subset, FS_CardinalityType
<1>2. SUFFICES ASSUME Sizes # {} PROVE FALSE
  BY <1>1
<1>3. PICK n \in Sizes : \A m \in Sizes : n <= m
  BY <1>2, LeastOf
<1>4. PICK S \in SUBSET DOMAIN log : Differs(S) /\ Cardinality(S) = n
  BY <1>3
<1>5. f[S] = IF S = {} THEN Defaults ELSE Replay(f[S \ {LastOf(log, S)}], log[LastOf(log, S)])
  BY DEF IsReplay
<1>6. CASE S = {}
  BY <1>4, <1>5, <1>6, LatestInNone
<1>7. CASE S # {}
  <2> DEFINE T == S \ {LastOf(log, S)}
  <2>1. LastOf(log, S) \in S
    BY <1>7, LastOfIs
  <2>2. T \in SUBSET DOMAIN log /\ Cardinality(T) = Cardinality(S) - 1 /\ Cardinality(T) \in Nat
    <3>1. T \in SUBSET DOMAIN log /\ IsFiniteSet(S)
      BY <1>1
    <3>2. Cardinality(T) = Cardinality(S) - 1
      BY <2>1, <3>1, FS_RemoveElement
    <3>3. QED
      BY <1>1, <3>1, <3>2
  <2>3. ~Differs(T)
    BY <1>1, <1>3, <1>4, <2>2
  <2>4. f[T] = LatestIn(log, T)
    BY <2>3
  <2>5. f[S] = LatestIn(log, S)
    BY <1>5, <1>7, <2>4, LatestStep
  <2>6. QED
    BY <1>4, <2>5
<1>8. QED
  BY <1>6, <1>7

\* Whatever the log, replaying it leaves in each field that is known its last change.
THEOREM ReplayLeavesLatest ==
  ASSUME NEW log, IsLog(log)
  PROVE  ExtractLatestCustomFields(log) =
           [name \in DOMAIN Defaults |->
              IF Changes(log, name) = {} THEN Defaults[name] ELSE log[Min(Changes(log, name))].to]
<1> DEFINE replayed == CHOOSE f : IsReplay(log, f)
<1>1. ExtractLatestCustomFields(log) = replayed[DOMAIN log]
  BY DEF ExtractLatestCustomFields, IsReplay
<1>2. IsReplay(log, replayed)
  BY ReplayExists
<1> HIDE DEF replayed
<1>3. replayed[DOMAIN log] = LatestIn(log, DOMAIN log)
  BY <1>2, ReplayIs
<1>4. \A name : Changes(log, name) \intersect DOMAIN log = Changes(log, name)
  BY DEF Changes
<1>5. QED
  BY <1>1, <1>3, <1>4 DEF LatestIn

-----------------------------------------------------------------------------
(* The fields that the two paths have of a ticket.                         *)

LEMMA FieldsAre ==
  ASSUME NEW t, IsTicket(t)
  PROVE  /\ DOMAIN CsvFields(t) = BaseFields \union CustomFields
         /\ \A name \in BaseFields : CsvFields(t)[name] = t.base[name]
         /\ \A name \in CustomFields : CsvFields(t)[name] = Current(t, name)
         /\ \A name \in BaseFields \ {"email", "inbound", "assignee", "dates"} :
              ApiFields(t)[name] = t.base[name]
         /\ ApiFields(t).email = "client_name" /\ ApiFields(t).inbound = 0
         /\ ApiFields(t).dates = "iso"
         /\ t.base.assignee # "" => ApiFields(t).assignee = t.base.assignee
         /\ \A name \in DOMAIN Defaults :
              ApiFields(t)[name] = IF Changes(t.log, name) = {} THEN Defaults[name]
                                   ELSE t.log[Min(Changes(t.log, name))].to
         /\ ApiFields(t).iot = None
<1> DEFINE
      somebody == IF t.base.reporter # "" THEN t.base.reporter ELSE "-"
      base == [t.base EXCEPT !.email = "client_name", !.inbound = 0, !.dates = "iso",
                             !.assignee = IF t.base.assignee # "" THEN t.base.assignee
                                          ELSE somebody]
      custom == ExtractLatestCustomFields(t.log)
      report == [name \in CustomFields |-> Current(t, name)]
      known == Joined(custom, [iot |-> None])
<1>1. DOMAIN t.base = BaseFields /\ IsLog(t.log)
  BY DEF IsTicket
<1>2. /\ DOMAIN base = BaseFields /\ base.email = "client_name" /\ base.inbound = 0
      /\ base.dates = "iso"
      /\ t.base.assignee # "" => base.assignee = t.base.assignee
      /\ \A name \in BaseFields \ {"email", "inbound", "assignee", "dates"} : base[name] = t.base[name]
  BY <1>1 DEF BaseFields
<1>3. DOMAIN custom = DOMAIN Defaults
      /\ \A name \in DOMAIN Defaults :
           custom[name] = IF Changes(t.log, name) = {} THEN Defaults[name]
                          ELSE t.log[Min(Changes(t.log, name))].to
  BY <1>1, ReplayLeavesLatest
<1>4. /\ DOMAIN Defaults = CustomFields \ {"iot"} /\ "iot" \in CustomFields
      /\ BaseFields \intersect CustomFields = {}
      /\ "email" \in BaseFields /\ "inbound" \in BaseFields /\ "assignee" \in BaseFields
      /\ "dates" \in BaseFields
  BY DEF Defaults, CustomFields, BaseFields
<1>5. CsvFields(t) = Joined(t.base, report) /\ ApiFields(t) = Joined(base, known)
  BY DEF CsvFields, ApiFields
<1>6. DOMAIN report = CustomFields /\ \A name \in CustomFields : report[name] = Current(t, name)
  OBVIOUS
<1> DEFINE iot == [iot |-> None]
<1>7. DOMAIN iot = {"iot"} /\ iot["iot"] = None /\ known = Joined(custom, iot)
  OBVIOUS
<1> HIDE DEF base, custom, report, known, iot
<1>8. \A name \in CustomFields : known[name] = IF name = "iot" THEN None ELSE custom[name]
  BY <1>3, <1>4, <1>7 DEF Joined
<1>9. DOMAIN known = CustomFields
  BY <1>3, <1>4, <1>7 DEF Joined
<1>10. /\ DOMAIN CsvFields(t) = BaseFields \union CustomFields
       /\ \A name \in BaseFields : CsvFields(t)[name] = t.base[name]
       /\ \A name \in CustomFields : CsvFields(t)[name] = Current(t, name)
  BY <1>1, <1>4, <1>5, <1>6 DEF Joined
<1>11. /\ \A name \in BaseFields : ApiFields(t)[name] = base[name]
       /\ \A name \in CustomFields : ApiFields(t)[name] = known[name]
  BY <1>2, <1>4, <1>5, <1>9 DEF Joined
<1>12. \A name \in DOMAIN Defaults : ApiFields(t)[name] = custom[name]
  BY <1>4, <1>8, <1>11
<1>13. ApiFields(t).iot = None
  BY <1>4, <1>8, <1>11
<1>14. QED
  BY <1>2, <1>3, <1>4, <1>10, <1>11, <1>12, <1>13

Agree(t, names) == \A name \in names : CsvFields(t)[name] = ApiFields(t)[name]

Told == {"subject", "department", "channel", "description", "reporter", "ticketCreated", "resolveTime"}

\* The hours to the resolution, as calculateSlaStatus works them out.
HoursTaken(f) == SafeParse(f.resolveTime, f.dates) - SafeParse(f.ticketCreated, f.dates)

LEMMA MonthIsDay == 1..12 \subseteq 1..31
OBVIOUS

LEMMA IntOfSeq == ASSUME NEW s \in Seq(Int), NEW i \in 1..Len(s) PROVE s[i] \in Int
OBVIOUS

LEMMA DaysBeforeType == ASSUME NEW m \in 1..12 PROVE DaysBefore[m] \in Int
<1>1. DaysBefore \in Seq(Int) /\ Len(DaysBefore) = 12
  BY DEF DaysBefore
<1>2. m \in 1..Len(DaysBefore)
  BY <1>1
<1>3. QED
  BY <1>1, <1>2, IntOfSeq

LEMMA HourOfType == ASSUME NEW x \in Times PROVE HourOf(x) \in Int
<1>1. x.month \in 1..12 /\ x.day \in Int /\ x.hour \in Int
  BY DEF Times
<1>2. DaysBefore[x.month] \in Int
  BY <1>1, DaysBeforeType
<1>3. QED
  BY <1>1, <1>2 DEF HourOf

\* Two times of one day are an hour's difference apart, also when day and month change
\* places in both.
LEMMA SwappedAlike ==
  ASSUME NEW c \in Times, NEW r \in Times, r.month = c.month, r.day = c.day, c.day \in 1..12
  PROVE  HourOf([r EXCEPT !.month = r.day, !.day = r.month])
           - HourOf([c EXCEPT !.month = c.day, !.day = c.month]) = HourOf(r) - HourOf(c)
<1>1. c.month \in 1..12 /\ c.hour \in Int /\ r.hour \in Int
  BY DEF Times
<1> DEFINE sc == [c EXCEPT !.month = c.day, !.day = c.month]
           sr == [r EXCEPT !.month = r.day, !.day = r.month]
           x == (DaysBefore[c.day] + c.month) * 24
           y == (DaysBefore[c.month] + c.day) * 24
<1>2. sc.month = c.day /\ sc.day = c.month /\ sc.hour = c.hour
  BY DEF Times
<1>3. sr.month = r.day /\ sr.day = r.month /\ sr.hour = r.hour
  BY DEF Times
<1>4. x \in Int /\ y \in Int
  <2>1. DaysBefore[c.day] \in Int /\ DaysBefore[c.month] \in Int
    BY <1>1, DaysBeforeType
  <2>2. QED
    BY <1>1, <2>1
<1> HIDE DEF sc, sr
<1>5. HourOf(sc) = x + c.hour /\ HourOf(sr) = x + r.hour
  BY <1>2, <1>3 DEF HourOf
<1>6. HourOf(c) = y + c.hour /\ HourOf(r) = y + r.hour
  BY DEF HourOf
<1> HIDE DEF x, y
<1>7. (x + r.hour) - (x + c.hour) = (y + r.hour) - (y + c.hour)
  BY <1>1, <1>4
<1>8. QED
  BY <1>5, <1>6, <1>7 DEF sc, sr

LEMMA ShiftedAlike ==
  ASSUME NEW x \in Int, NEW y \in Int
  PROVE  (x - Zone) - (y - Zone) = x - y
<1>1. Zone \in Int
  BY TicketAssumption DEF TicketAssumption
<1>2. QED
  BY <1>1

\* The report's times may be misread, but both by the same amount, unless they are written
\* day first and a day of a month is read as a month in one of them only, or in both of
\* different days.
LEMMA ReadAlike ==
  ASSUME NEW c \in Times, NEW r \in Times, NEW dates \in {"year first", "day first"},
         dates = "day first" /\ (c.day \in 1..12 \/ r.day \in 1..12)
           => r.month = c.month /\ r.day = c.day
  PROVE  SafeParse(r, dates) - SafeParse(c, dates) = HourOf(r) - HourOf(c)
<1> DEFINE sc == [c EXCEPT !.month = c.day, !.day = c.month]
           sr == [r EXCEPT !.month = r.day, !.day = r.month]
<1>1. HourOf(c) \in Int /\ HourOf(r) \in Int
  BY HourOfType
<1>2. CASE dates = "year first"
  <2>1. SafeParse(c, dates) = HourOf(c) - Zone /\ SafeParse(r, dates) = HourOf(r) - Zone
    BY <1>2 DEF SafeParse
  <2>2. QED
    BY <1>1, <2>1, ShiftedAlike
<1>3. CASE dates = "day first" /\ c.day \notin 1..12 /\ r.day \notin 1..12
  <2>1. SafeParse(c, dates) = HourOf(c) /\ SafeParse(r, dates) = HourOf(r)
    BY <1>3 DEF SafeParse
  <2>2. QED
    BY <2>1
<1>4. CASE dates = "day first" /\ (c.day \in 1..12 \/ r.day \in 1..12)
  <2>1. r.month = c.month /\ r.day = c.day /\ c.day \in 1..12
    BY <1>4
  <2>2. SafeParse(c, dates) = HourOf(sc) - Zone /\ SafeParse(r, dates) = HourOf(sr) - Zone
    BY <1>4, <2>1 DEF SafeParse
  <2>3. sc \in Times /\ sr \in Times
    <3>1. c.month \in 1..12 /\ r.month \in 1..12
      BY DEF Times
    <3>2. c.month \in 1..31 /\ r.month \in 1..31 /\ r.day \in 1..12
      BY <2>1, <3>1, MonthIsDay, Zenon
    <3>3. sc \in Times
      BY <2>1, <3>2 DEF Times
    <3>4. sr \in Times
      BY <2>1, <3>2 DEF Times
    <3>5. QED
      BY <3>3, <3>4
  <2>4. HourOf(sc) \in Int /\ HourOf(sr) \in Int
    BY <2>3, HourOfType
  <2>5. HourOf(sr) - HourOf(sc) = HourOf(r) - HourOf(c)
    BY <2>1, SwappedAlike
  <2> HIDE DEF sc, sr
  <2>6. QED
    BY <2>2, <2>4, <2>5, ShiftedAlike
<1>5. QED
  BY <1>2, <1>3, <1>4

LEMMA HoursAgree ==
  ASSUME NEW t, IsTicket(t), "day first" \notin Cause(t), t.base.resolveTime # None
  PROVE  HoursTaken(CsvFields(t)) = HoursTaken(ApiFields(t))
<1> DEFINE c == t.base.ticketCreated
           r == t.base.resolveTime
           dates == t.base.dates
<1>1. /\ "ticketCreated" \in BaseFields \ {"email", "inbound", "assignee", "dates"}
      /\ "resolveTime" \in BaseFields \ {"email", "inbound", "assignee", "dates"}
      /\ "dates" \in BaseFields
  BY DEF BaseFields
<1>2. /\ CsvFields(t).ticketCreated = c /\ CsvFields(t).resolveTime = r
      /\ CsvFields(t).dates = dates
      /\ ApiFields(t).ticketCreated = c /\ ApiFields(t).resolveTime = r
      /\ ApiFields(t).dates = "iso"
  BY <1>1, FieldsAre
<1>3. c \in Times /\ r \in Times /\ dates \in {"year first", "day first"}
  BY DEF IsTicket
<1>4. ~MisreadDates(t.base)
  BY DEF Cause
<1>5. dates = "day first" /\ (c.day \in 1..12 \/ r.day \in 1..12)
        => r.month = c.month /\ r.day = c.day
  BY <1>4 DEF MisreadDates
<1> HIDE DEF c, r, dates
<1>6. SafeParse(r, dates) - SafeParse(c, dates) = HourOf(r) - HourOf(c)
  BY <1>3, <1>5, ReadAlike
<1>7. SafeParse(c, "iso") = HourOf(c) /\ SafeParse(r, "iso") = HourOf(r)
  BY DEF SafeParse
<1>8. QED
  BY <1>2, <1>6, <1>7 DEF HoursTaken

\* The paths have the same fields, but for the causes that a ticket has.
LEMMA FieldsAgree ==
  ASSUME NEW t, IsTicket(t)
  PROVE  /\ Agree(t, Told)
         /\ "custom field never changed" \notin Cause(t) => Agree(t, DOMAIN Defaults)
         /\ "no assignee" \notin Cause(t) =>
              Agree(t, {"assignee"}) /\ CsvFields(t).assignee \notin {"", None}
         /\ "IOT" \notin Cause(t) => CsvFields(t).iot = "" /\ ApiFields(t).iot = None
         /\ "e-mail address" \notin Cause(t) => CsvFields(t).email \notin {"ems", "rpa"}
         /\ ApiFields(t).email \notin {"ems", "rpa"}
         /\ "inbound messages" \notin Cause(t) => ~(CsvFields(t).inbound > 1)
         /\ ~(ApiFields(t).inbound > 1)
         /\ "not valid" \notin Cause(t) => ClassifyTicket(CsvFields(t)) = "Valid"
<1>1. t.base.assignee # None
  BY DEF IsTicket
<1>2. "iot" \in CustomFields /\ DOMAIN Defaults \subseteq CustomFields
      /\ Told \subseteq BaseFields \ {"email", "inbound", "assignee", "dates"}
      /\ "email" \in BaseFields /\ "inbound" \in BaseFields /\ "assignee" \in BaseFields
  BY DEF Defaults, CustomFields, BaseFields, Told
<1>3. Agree(t, Told)
  <2>1. \A name \in Told : CsvFields(t)[name] = t.base[name] /\ ApiFields(t)[name] = t.base[name]
    BY <1>2, FieldsAre
  <2>2. QED
    BY <2>1 DEF Agree
<1>4. ASSUME "custom field never changed" \notin Cause(t)
      PROVE  Agree(t, DOMAIN Defaults)
  <2>1. \A name \in DOMAIN Defaults : Changes(t.log, name) = {} => t.created[name] = Defaults[name]
    BY <1>4 DEF Cause
  <2>2. ASSUME NEW name \in DOMAIN Defaults
        PROVE  CsvFields(t)[name] = ApiFields(t)[name]
    <3>1. CsvFields(t)[name] = Current(t, name)
      BY <1>2, FieldsAre
    <3>2. QED
      BY <2>1, <3>1, FieldsAre DEF Current
  <2>3. QED
    BY <2>2 DEF Agree
<1>5. ASSUME "no assignee" \notin Cause(t)
      PROVE  Agree(t, {"assignee"}) /\ CsvFields(t).assignee \notin {"", None}
  <2>1. t.base.assignee # ""
    BY <1>5 DEF Cause
  <2>2. QED
    BY <1>1, <1>2, <2>1, FieldsAre DEF Agree
<1>6. ASSUME "IOT" \notin Cause(t)
      PROVE  CsvFields(t).iot = "" /\ ApiFields(t).iot = None
  <2>1. Current(t, "iot") = ""
    BY <1>6 DEF Cause
  <2>2. QED
    BY <1>2, <2>1, FieldsAre
<1>7. ASSUME "e-mail address" \notin Cause(t)
      PROVE  CsvFields(t).email \notin {"ems", "rpa"}
  <2>1. t.base.email \notin {"ems", "rpa"}
    BY <1>7 DEF Cause
  <2>2. QED
    BY <1>2, <2>1, FieldsAre
<1>8. ASSUME "inbound messages" \notin Cause(t)
      PROVE  ~(CsvFields(t).inbound > 1)
  <2>1. ~(t.base.inbound > 1)
    BY <1>8 DEF Cause
  <2>2. QED
    BY <1>2, <2>1, FieldsAre
<1>9. "not valid" \notin Cause(t) => ClassifyTicket(CsvFields(t)) = "Valid"
  BY DEF Cause
<1>10. ApiFields(t).email \notin {"ems", "rpa"} /\ ~(ApiFields(t).inbound > 1)
  <2>1. ApiFields(t).email = "client_name" /\ ApiFields(t).inbound = 0
    BY FieldsAre
  <2>2. QED
    BY <2>1
<1>11. QED
  BY <1>3, <1>4, <1>5, <1>6, <1>7, <1>8, <1>9, <1>10

-----------------------------------------------------------------------------
(* What each rule depends on.                                              *)

\* Two lists of rules with the same conditions and answers.
LEMMA FirstAgrees ==
  ASSUME NEW r, NEW s, NEW otherwise, DOMAIN r = DOMAIN s,
         \A i \in DOMAIN r : (r[i].when <=> s[i].when) /\ r[i].then = s[i].then,
         DOMAIN r \subseteq Nat
  PROVE  First(r, otherwise) = First(s, otherwise)
<1> DEFINE hits(q) == {i \in DOMAIN q : q[i].when}
<1>1. hits(r) = hits(s)
  OBVIOUS
<1>2. First(r, otherwise) = IF hits(r) = {} THEN otherwise ELSE r[Min(hits(r))].then
  BY DEF First
<1>3. First(s, otherwise) = IF hits(s) = {} THEN otherwise ELSE s[Min(hits(s))].then
  BY DEF First
<1>4. hits(r) # {} => Min(hits(r)) \in DOMAIN r
  BY MinIs
<1> HIDE DEF hits
<1>5. QED
  BY <1>1, <1>2, <1>3, <1>4

LEMMA ClassifyAgrees ==
  ASSUME NEW f, NEW g, f.email \notin {"ems", "rpa"}, g.email \notin {"ems", "rpa"},
         f.subject = g.subject, f.department = g.department, f.sub = g.sub,
         f.assignee = g.assignee, f.description = g.description, f.detail = g.detail,
         f.channel = g.channel
  PROVE  ClassifyTicket(f) = ClassifyTicket(g)
<1> DEFINE r == TicketRuleList(f)
           s == TicketRuleList(g)
<1>1. DOMAIN r = 1..12 /\ DOMAIN s = 1..12
  BY DEF TicketRuleList
<1>2. \A i \in 1..12 : (r[i].when <=> s[i].when) /\ r[i].then = s[i].then
  <2>1. (r[1].when <=> s[1].when) /\ r[1].then = s[1].then
    BY DEF TicketRuleList, Rule
  <2>2. (r[2].when <=> s[2].when) /\ r[2].then = s[2].then
    BY DEF TicketRuleList, Rule
  <2>3. (r[3].when <=> s[3].when) /\ r[3].then = s[3].then
    BY DEF TicketRuleList, Rule
  <2>4. (r[4].when <=> s[4].when) /\ r[4].then = s[4].then
    BY DEF TicketRuleList, Rule
  <2>5. (r[5].when <=> s[5].when) /\ r[5].then = s[5].then
    BY DEF TicketRuleList, Rule
  <2>6. (r[6].when <=> s[6].when) /\ r[6].then = s[6].then
    BY DEF TicketRuleList, Rule
  <2>7. (r[7].when <=> s[7].when) /\ r[7].then = s[7].then
    BY DEF TicketRuleList, Rule
  <2>8. (r[8].when <=> s[8].when) /\ r[8].then = s[8].then
    BY DEF TicketRuleList, Rule
  <2>9. (r[9].when <=> s[9].when) /\ r[9].then = s[9].then
    BY DEF TicketRuleList, Rule
  <2>10. (r[10].when <=> s[10].when) /\ r[10].then = s[10].then
    BY DEF TicketRuleList, Rule
  <2>11. (r[11].when <=> s[11].when) /\ r[11].then = s[11].then
    BY DEF TicketRuleList, Rule
  <2>12. (r[12].when <=> s[12].when) /\ r[12].then = s[12].then
    BY DEF TicketRuleList, Rule
  <2>13. \A i \in 1..12 : i = 1 \/ i = 2 \/ i = 3 \/ i = 4 \/ i = 5 \/ i = 6 \/ i = 7
                          \/ i = 8 \/ i = 9 \/ i = 10 \/ i = 11 \/ i = 12
    OBVIOUS
  <2> HIDE DEF r, s
  <2>14. QED
    BY <2>1, <2>2, <2>3, <2>4, <2>5, <2>6, <2>7, <2>8, <2>9, <2>10, <2>11, <2>12, <2>13
<1>3. QED
  BY <1>1, <1>2, FirstAgrees DEF ClassifyTicket

LEMMA EskalasiAgrees ==
  ASSUME NEW f, NEW g, f.remedy = g.remedy, f.escalation = g.escalation
  PROVE  DetermineEskalasi(f) = DetermineEskalasi(g)
BY DEF DetermineEskalasi

LEMMA AgentAgrees ==
  ASSUME NEW f, NEW g, f.assignee = g.assignee, f.assignee \notin {"", None}
  PROVE  AgentOf(f) = AgentOf(g)
BY DEF AgentOf

LEMMA ChannelAgrees ==
  ASSUME NEW f, NEW g, f.assignee = g.assignee, f.assignee \notin {"", None},
         f.subject = g.subject, f.department = g.department, f.channel = g.channel
  PROVE  DetermineChannel(f) = DetermineChannel(g)
BY AgentAgrees DEF DetermineChannel

LEMMA RealisasiAgrees ==
  ASSUME NEW f, NEW g, NEW s, NEW u, ~(f.inbound > 1), ~(g.inbound > 1),
         f.sub = g.sub, f.detail = g.detail, f.msisdn = g.msisdn, f.escalation = g.escalation,
         f.description = g.description, f.remedy = g.remedy, f.reason = g.reason
  PROVE  EskalasiRealisasi(f, s) = EskalasiRealisasi(g, u)
<1> DEFINE r == RealisasiRuleList(f, s)
           q == RealisasiRuleList(g, u)
<1>1. DOMAIN r = 1..14 /\ DOMAIN q = 1..14
  BY DEF RealisasiRuleList
<1>2. \A i \in 1..14 : (r[i].when <=> q[i].when) /\ r[i].then = q[i].then
  <2>1. (r[1].when <=> q[1].when) /\ r[1].then = q[1].then
    BY DEF RealisasiRuleList, Rule
  <2>2. (r[2].when <=> q[2].when) /\ r[2].then = q[2].then
    BY DEF RealisasiRuleList, Rule
  <2>3. (r[3].when <=> q[3].when) /\ r[3].then = q[3].then
    BY DEF RealisasiRuleList, Rule
  <2>4. (r[4].when <=> q[4].when) /\ r[4].then = q[4].then
    BY DEF RealisasiRuleList, Rule
  <2>5. (r[5].when <=> q[5].when) /\ r[5].then = q[5].then
    BY DEF RealisasiRuleList, Rule
  <2>6. (r[6].when <=> q[6].when) /\ r[6].then = q[6].then
    BY DEF RealisasiRuleList, Rule
  <2>7. (r[7].when <=> q[7].when) /\ r[7].then = q[7].then
    BY DEF RealisasiRuleList, Rule
  <2>8. (r[8].when <=> q[8].when) /\ r[8].then = q[8].then
    BY DEF RealisasiRuleList, Rule
  <2>9. (r[9].when <=> q[9].when) /\ r[9].then = q[9].then
    BY DEF RealisasiRuleList, Rule
  <2>10. (r[10].when <=> q[10].when) /\ r[10].then = q[10].then
    BY DEF RealisasiRuleList, Rule
  <2>11. (r[11].when <=> q[11].when) /\ r[11].then = q[11].then
    BY DEF RealisasiRuleList, Rule
  <2>12. (r[12].when <=> q[12].when) /\ r[12].then = q[12].then
    BY DEF RealisasiRuleList, Rule
  <2>13. (r[13].when <=> q[13].when) /\ r[13].then = q[13].then
    BY DEF RealisasiRuleList, Rule
  <2>14. (r[14].when <=> q[14].when) /\ r[14].then = q[14].then
    BY DEF RealisasiRuleList, Rule
  <2>15. \A i \in 1..14 : i = 1 \/ i = 2 \/ i = 3 \/ i = 4 \/ i = 5 \/ i = 6 \/ i = 7
                          \/ i = 8 \/ i = 9 \/ i = 10 \/ i = 11 \/ i = 12 \/ i = 13 \/ i = 14
    OBVIOUS
  <2> HIDE DEF r, q
  <2>16. QED
    BY <2>1, <2>2, <2>3, <2>4, <2>5, <2>6, <2>7, <2>8, <2>9, <2>10, <2>11, <2>12, <2>13, <2>14, <2>15
<1>3. QED
  BY <1>1, <1>2, FirstAgrees DEF EskalasiRealisasi

LEMMA KeyAgrees ==
  ASSUME NEW f, NEW g, f.category = g.category, f.sub = g.sub, f.detail = g.detail,
         f.iot = "", g.iot = None
  PROVE  CompositeKey(f) = CompositeKey(g)
BY DEF CompositeKey

LEMMA ProductAgrees ==
  ASSUME NEW f, NEW g, f.category = g.category, f.sub = g.sub, f.detail = g.detail,
         f.iot = "", g.iot = None, f.assignee = g.assignee, f.assignee \notin {"", None}
  PROVE  KipProduct(f) = KipProduct(g) /\ DerivedProduct(f) = DerivedProduct(g)
<1>1. CompositeKey(f) = CompositeKey(g) /\ AgentOf(f) = AgentOf(g)
  BY KeyAgrees, AgentAgrees
<1>2. KipProduct(f) = KipProduct(g)
  BY <1>1 DEF KipProduct
<1>3. QED
  BY <1>1, <1>2 DEF DerivedProduct

LEMMA FcrAgrees ==
  ASSUME NEW f, NEW g, NEW channel, f.category = g.category, f.sub = g.sub,
         f.detail = g.detail, f.iot = "", g.iot = None, f.assignee = g.assignee,
         f.assignee \notin {"", None}, f.msisdn = g.msisdn
  PROVE  Fcr(f, channel) = Fcr(g, channel)
<1>1. CompositeKey(f) = CompositeKey(g) /\ AgentOf(f) = AgentOf(g)
      /\ KipProduct(f) = KipProduct(g)
  BY KeyAgrees, AgentAgrees, ProductAgrees
<1>2. f.iot # "-" /\ g.iot # "-"
  BY TicketAssumption
<1>3. FcrOfKip(f) = FcrOfKip(g)
  BY <1>1, <1>2 DEF FcrOfKip
<1>4. QED
  BY <1>1, <1>3 DEF Fcr

-----------------------------------------------------------------------------
(* The columns.                                                            *)

SlaOf(f, timed) == timed /\ CalculateSlaStatus(DerivedProduct(f), f)

LEMMA VerdictIs ==
  ASSUME NEW f, NEW g, NEW timed
  PROVE  /\ DOMAIN Verdict(f, g, timed) = DOMAIN Explains
         /\ Verdict(f, g, timed).validationStatus = ClassifyTicket(f)
         /\ Verdict(f, g, timed).statusTiket = (ClassifyTicket(f) = "Valid")
         /\ Verdict(f, g, timed).channel = DetermineChannel(g)
         /\ Verdict(f, g, timed).product = DerivedProduct(f)
         /\ Verdict(f, g, timed).sla = SlaOf(f, timed)
         /\ Verdict(f, g, timed).fcr = Fcr(f, DetermineChannel(g))
         /\ Verdict(f, g, timed).isFcrRealisasi = (EskalasiRealisasi(f, SlaOf(f, timed)) = None)
         /\ Verdict(f, g, timed).eskalasiRealisasiTarget = EskalasiRealisasi(f, SlaOf(f, timed))
         /\ Verdict(f, g, timed).eskalasi = DetermineEskalasi(f)
         /\ Verdict(f, g, timed).isPareto = (f.company \in Pareto)
         /\ Verdict(f, g, timed).isVip = Has(f.subject, {"vip"})
BY DEF Verdict, SlaOf, Explains

\* What determineChannel is given of the report is what the fields have.
LEMMA SeenIs ==
  ASSUME NEW t, IsTicket(t)
  PROVE  \A name \in {"assignee", "subject", "department", "channel"} :
           [CsvFields(t) EXCEPT !.reporter = None][name] = CsvFields(t)[name]
<1>1. {"assignee", "subject", "department", "channel"} \subseteq DOMAIN CsvFields(t) \ {"reporter"}
  BY FieldsAre DEF BaseFields
<1>2. QED
  BY <1>1

\* Whatever the ticket, its log, the lookup tables and the rules' patterns: in each column
\* the CSV report and the get-list store the same, or the ticket has one of the causes
\* that the column is listed with.
THEOREM ColumnsAgree ==
  ASSUME NEW t, IsTicket(t)
  PROVE  \A column \in DOMAIN Explains :
           \/ CsvVerdict(t)[column] = ApiVerdict(t)[column]
           \/ Cause(t) \intersect Explains[column] # {}
<1> DEFINE
      f == CsvFields(t)
      g == ApiFields(t)
      seen == [f EXCEPT !.reporter = None]
      valid == ClassifyTicket(g) = "Valid"
      Free(column) == Cause(t) \intersect Explains[column] = {}
      Same(column) == CsvVerdict(t)[column] = ApiVerdict(t)[column]
      Custom == "custom field never changed" \notin Cause(t)
      Iot == "IOT" \notin Cause(t)
      Mail == "e-mail address" \notin Cause(t)
      Inbound == "inbound messages" \notin Cause(t)
      Assigned == "no assignee" \notin Cause(t)
<1>1. CsvVerdict(t) = Verdict(f, seen, TRUE) /\ ApiVerdict(t) = Verdict(g, g, valid)
  BY DEF CsvVerdict, ApiVerdict
<1>2. /\ DOMAIN Explains = {"validationStatus", "statusTiket", "channel", "product", "sla", "fcr",
                            "isFcrRealisasi", "eskalasiRealisasiTarget", "eskalasi", "isPareto",
                            "isVip"}
      /\ Free("validationStatus") => Custom /\ Mail /\ Assigned
      /\ Free("statusTiket") => Custom /\ Mail /\ Assigned
      /\ Free("channel") => Assigned
      /\ Free("product") => Custom /\ Iot /\ Assigned
      /\ Free("sla") => Custom /\ Iot /\ Assigned /\ Mail /\ "not valid" \notin Cause(t)
                        /\ "day first" \notin Cause(t)
      /\ Free("fcr") => Custom /\ Iot /\ Assigned
      /\ Free("isFcrRealisasi") => Custom /\ Inbound
      /\ Free("eskalasiRealisasiTarget") => Custom /\ Inbound
      /\ Free("eskalasi") => Custom
      /\ Free("isPareto") => Custom
  BY DEF Explains
<1>3. /\ f.subject = g.subject /\ f.department = g.department /\ f.channel = g.channel
      /\ f.description = g.description /\ f.resolveTime = g.resolveTime
  BY FieldsAgree DEF Agree, Told
<1>4. Custom => /\ f.category = g.category /\ f.sub = g.sub /\ f.detail = g.detail
                /\ f.remedy = g.remedy /\ f.escalation = g.escalation /\ f.reason = g.reason
                /\ f.msisdn = g.msisdn /\ f.company = g.company
  <2>1. {"category", "sub", "detail", "remedy", "escalation", "reason", "msisdn", "company"}
          \subseteq DOMAIN Defaults
    BY DEF Defaults
  <2>2. Custom => \A name \in DOMAIN Defaults : f[name] = g[name]
    BY FieldsAgree DEF Agree
  <2> HIDE DEF f, g, Custom
  <2>3. QED
    BY <2>1, <2>2
<1>5. Assigned => f.assignee = g.assignee /\ f.assignee \notin {"", None}
  BY FieldsAgree DEF Agree
<1>6. /\ Iot => f.iot = "" /\ g.iot = None
      /\ Mail => f.email \notin {"ems", "rpa"}
      /\ g.email \notin {"ems", "rpa"}
      /\ Inbound => ~(f.inbound > 1)
      /\ ~(g.inbound > 1)
      /\ "not valid" \notin Cause(t) => ClassifyTicket(f) = "Valid"
  BY FieldsAgree
<1>7. /\ seen.assignee = f.assignee /\ seen.subject = f.subject
      /\ seen.department = f.department /\ seen.channel = f.channel
  BY SeenIs
<1> DEFINE c == CsvVerdict(t)
           a == ApiVerdict(t)
           timed == TRUE
           slaCsv == SlaOf(f, timed)
           slaApi == SlaOf(g, valid)
<1> HIDE DEF f, g, seen, valid, timed, Custom, Iot, Mail, Inbound, Assigned, Free
<1>8. /\ c.validationStatus = ClassifyTicket(f) /\ c.statusTiket = (ClassifyTicket(f) = "Valid")
       /\ c.channel = DetermineChannel(seen) /\ c.product = DerivedProduct(f)
       /\ c.sla = slaCsv /\ c.fcr = Fcr(f, DetermineChannel(seen))
       /\ c.isFcrRealisasi = (EskalasiRealisasi(f, slaCsv) = None)
       /\ c.eskalasiRealisasiTarget = EskalasiRealisasi(f, slaCsv)
       /\ c.eskalasi = DetermineEskalasi(f) /\ c.isPareto = (f.company \in Pareto)
       /\ c.isVip = Has(f.subject, {"vip"})
  <2>1. c = Verdict(f, seen, timed)
    BY <1>1 DEF timed
  <2> HIDE DEF c
  <2>2. QED
    BY <2>1, VerdictIs
<1>9. /\ a.validationStatus = ClassifyTicket(g) /\ a.statusTiket = (ClassifyTicket(g) = "Valid")
       /\ a.channel = DetermineChannel(g) /\ a.product = DerivedProduct(g)
       /\ a.sla = slaApi /\ a.fcr = Fcr(g, DetermineChannel(g))
       /\ a.isFcrRealisasi = (EskalasiRealisasi(g, slaApi) = None)
       /\ a.eskalasiRealisasiTarget = EskalasiRealisasi(g, slaApi)
       /\ a.eskalasi = DetermineEskalasi(g) /\ a.isPareto = (g.company \in Pareto)
       /\ a.isVip = Has(g.subject, {"vip"})
  <2>1. a = Verdict(g, g, valid)
    BY <1>1
  <2> HIDE DEF a
  <2>2. QED
    BY <2>1, VerdictIs
<1>10. \A column : Same(column) <=> c[column] = a[column]
  OBVIOUS
<1>11. Assigned => DetermineChannel(seen) = DetermineChannel(g)
  BY <1>3, <1>5, <1>7, ChannelAgrees
<1>12. Custom /\ Mail /\ Assigned => ClassifyTicket(f) = ClassifyTicket(g)
  BY <1>3, <1>4, <1>5, <1>6, ClassifyAgrees
<1>13. Custom /\ Iot /\ Assigned =>
         DerivedProduct(f) = DerivedProduct(g) /\ \A channel : Fcr(f, channel) = Fcr(g, channel)
  BY <1>4, <1>5, <1>6, ProductAgrees, FcrAgrees
<1>14. Custom /\ Inbound => EskalasiRealisasi(f, slaCsv) = EskalasiRealisasi(g, slaApi)
  <2> HIDE DEF slaCsv, slaApi
  <2>1. SUFFICES ASSUME Custom, Inbound
                 PROVE  EskalasiRealisasi(f, slaCsv) = EskalasiRealisasi(g, slaApi)
    OBVIOUS
  <2>2. /\ ~(f.inbound > 1) /\ ~(g.inbound > 1)
        /\ f.sub = g.sub /\ f.detail = g.detail /\ f.msisdn = g.msisdn
        /\ f.escalation = g.escalation /\ f.description = g.description
        /\ f.remedy = g.remedy /\ f.reason = g.reason
    BY <1>3, <1>4, <1>6, <2>1
  <2>3. QED
    BY <2>2, RealisasiAgrees
<1>15. Custom => DetermineEskalasi(f) = DetermineEskalasi(g)
  BY <1>4, EskalasiAgrees
<1>16. Free("sla") => slaCsv = slaApi
  <2>1. SUFFICES ASSUME Free("sla") PROVE slaCsv = slaApi
    OBVIOUS
  <2>2. ClassifyTicket(g) = "Valid" /\ DerivedProduct(f) = DerivedProduct(g)
    BY <1>2, <1>6, <1>12, <1>13, <2>1
  <2>3. valid = TRUE
    BY <2>2 DEF valid
  <2>4. f.resolveTime # None => HoursTaken(f) = HoursTaken(g)
    <3>1. "day first" \notin Cause(t)
      BY <1>2, <2>1
    <3>2. f.resolveTime = t.base.resolveTime
      BY FieldsAre DEF BaseFields, f
    <3>3. QED
      BY <3>1, <3>2, HoursAgree DEF f, g
  <2>5. QED
    BY <1>3, <2>2, <2>3, <2>4 DEF SlaOf, timed, CalculateSlaStatus, HoursTaken
<1> HIDE DEF c, a, Same, slaCsv, slaApi
<1>17. Free("validationStatus") => Same("validationStatus")
  BY <1>2, <1>12, <1>8, <1>9, <1>10
<1>18. Free("statusTiket") => Same("statusTiket")
  BY <1>2, <1>12, <1>8, <1>9, <1>10
<1>19. Free("channel") => Same("channel")
  BY <1>2, <1>11, <1>8, <1>9, <1>10
<1>20. Free("product") => Same("product")
  BY <1>2, <1>13, <1>8, <1>9, <1>10
<1>21. Free("sla") => Same("sla")
  BY <1>2, <1>16, <1>8, <1>9, <1>10
<1>22. Free("fcr") => Same("fcr")
  BY <1>2, <1>11, <1>13, <1>8, <1>9, <1>10
<1>23. Free("isFcrRealisasi") => Same("isFcrRealisasi")
  BY <1>2, <1>14, <1>8, <1>9, <1>10
<1>24. Free("eskalasiRealisasiTarget") => Same("eskalasiRealisasiTarget")
  BY <1>2, <1>14, <1>8, <1>9, <1>10
<1>25. Free("eskalasi") => Same("eskalasi")
  BY <1>2, <1>15, <1>8, <1>9, <1>10
<1>26. Free("isPareto") => Same("isPareto")
  BY <1>2, <1>4, <1>8, <1>9, <1>10
<1>27. Same("isVip")
  BY <1>3, <1>8, <1>9, <1>10
<1>28. \A column \in DOMAIN Explains : Free(column) => Same(column)
  BY <1>2, <1>17, <1>18, <1>19, <1>20, <1>21, <1>22, <1>23, <1>24, <1>25, <1>26, <1>27
<1>29. QED
  BY <1>28 DEF Free, Same

-----------------------------------------------------------------------------
(* The specification.                                                      *)

\* What is stored is a verdict on the ticket as it is.
StoredIsVerdict ==
  /\ IsTicket(ticket)
  /\ DOMAIN stored = {"csv", "api"}
  /\ stored.csv \in {None, CsvVerdict(ticket)} /\ stored.api \in {None, ApiVerdict(ticket)}

LEMMA ConcatIs ==
  ASSUME NEW S, NEW s \in Seq(S), NEW t \in Seq(S)
  PROVE  /\ s \o t \in Seq(S) /\ Len(s \o t) = Len(s) + Len(t)
         /\ \A i \in 1..Len(s) : (s \o t)[i] = s[i]
         /\ \A i \in 1..Len(t) : (s \o t)[Len(s) + i] = t[i]
OBVIOUS

LEMMA NewestFirst ==
  ASSUME NEW log, IsLog(log), NEW at \in Nat, NEW name \in CustomFields, NEW to,
         at \in {Newest(log), Newest(log) + 1}, \A i \in Changes(log, name) : log[i].at < at
  PROVE  IsLog(<<Entry(at, name, to)>> \o log)
<1> DEFINE e == Entry(at, name, to)
           S == {log[i] : i \in DOMAIN log} \union {e}
           longer == <<e>> \o log
           first == <<e>>
<1>1. log \in Seq(S) /\ Len(log) \in Nat /\ DOMAIN log = 1..Len(log)
  BY LogPlaces DEF IsLog
<1>2. first \in Seq(S) /\ Len(first) = 1 /\ first[1] = e
  OBVIOUS
<1> HIDE DEF S, first, e
<1> HIDE DEF longer
<1>3. first \o log \in Seq(S) /\ Len(first \o log) = Len(log) + 1
      /\ (first \o log)[1] = e /\ \A i \in 2..(Len(log) + 1) : (first \o log)[i] = log[i - 1]
  <2>0. first \in Seq(S) /\ log \in Seq(S)
    BY <1>1, <1>2
  <2>1. /\ first \o log \in Seq(S) /\ Len(first \o log) = Len(first) + Len(log)
        /\ \A i \in 1..Len(first) : (first \o log)[i] = first[i]
        /\ \A i \in 1..Len(log) : (first \o log)[Len(first) + i] = log[i]
    BY <2>0, ConcatIs
  <2>2. (first \o log)[1] = first[1]
    BY <1>1, <1>2, <2>1
  <2>3. \A i \in 2..(Len(log) + 1) : (first \o log)[i] = log[i - 1]
    <3>1. \A k \in 1..Len(log) : (first \o log)[1 + k] = log[k]
      BY <1>1, <1>2, <2>1
    <3>2. \A i \in 2..(Len(log) + 1) : i - 1 \in 1..Len(log) /\ 1 + (i - 1) = i
      BY <1>1
    <3>3. QED
      BY <3>1, <3>2
  <2>4. QED
    BY <1>1, <1>2, <2>1, <2>2, <2>3
<1>4. longer = first \o log
  BY DEF first, longer
<1>5. /\ DOMAIN longer = 1..(Len(log) + 1) /\ longer[1] = e
      /\ \A i \in DOMAIN longer : i # 1 => i - 1 \in DOMAIN log /\ longer[i] = log[i - 1]
  BY <1>1, <1>3, <1>4
<1>6. longer \in Seq({longer[i] : i \in DOMAIN longer})
  <2>1. longer \in Seq(S) /\ Len(longer) = Len(log) + 1
    BY <1>3, <1>4
  <2>2. \A i \in 1..Len(longer) : longer[i] \in {longer[j] : j \in DOMAIN longer}
    BY <2>1, <1>1, <1>5
  <2>3. longer = [i \in 1..Len(longer) |-> longer[i]] /\ Len(longer) \in Nat
    BY <2>1, <1>1
  <2>4. QED
    BY <2>2, <2>3
<1>7. e.at = at /\ e.name = name
  BY DEF e, Entry
<1>8. \A i \in DOMAIN log : log[i].at \in Nat /\ log[i].name \in CustomFields /\ i \in Nat
  BY <1>1 DEF IsLog
<1>9. \A i \in DOMAIN longer : longer[i].at \in Nat /\ longer[i].name \in CustomFields
  BY <1>5, <1>7, <1>8
<1>10. \A i \in DOMAIN log : log[i].at <= at
  <2>1. SUFFICES ASSUME NEW i \in DOMAIN log PROVE log[i].at <= at
    OBVIOUS
  <2>2. log # <<>> /\ 1 \in DOMAIN log /\ Newest(log) = log[1].at
    BY <1>1 DEF Newest
  <2>3. log[i].at <= log[1].at
    BY <1>1, <1>8, <2>1, <2>2 DEF IsLog
  <2>4. QED
    BY <1>8, <2>2, <2>3
<1>11. \A i, j \in DOMAIN longer :
         i < j => /\ longer[j].at <= longer[i].at
                  /\ longer[j].name = longer[i].name => longer[j].at < longer[i].at
  <2>1. SUFFICES ASSUME NEW i \in DOMAIN longer, NEW j \in DOMAIN longer, i < j
                 PROVE  /\ longer[j].at <= longer[i].at
                        /\ longer[j].name = longer[i].name => longer[j].at < longer[i].at
    OBVIOUS
  <2>2. j # 1 /\ j - 1 \in DOMAIN log /\ longer[j] = log[j - 1]
    BY <1>1, <1>5, <2>1
  <2>3. CASE i = 1
    <3>1. longer[i] = e
      BY <1>5, <2>3
    <3>2. log[j - 1].name = name => log[j - 1].at < at
      BY <2>2 DEF Changes
    <3>3. QED
      BY <1>7, <1>10, <2>2, <3>1, <3>2
  <2>4. CASE i # 1
    <3>1. i - 1 \in DOMAIN log /\ longer[i] = log[i - 1] /\ i - 1 < j - 1
      BY <1>1, <1>5, <2>1, <2>4
    <3>2. QED
      BY <2>2, <3>1 DEF IsLog
  <2>5. QED
    BY <2>3, <2>4
<1>12. IsLog(longer)
  BY <1>6, <1>9, <1>11 DEF IsLog
<1>13. QED
  BY <1>12 DEF longer, e

LEMMA InitStored == Init => StoredIsVerdict
<1>1. SUFFICES ASSUME Init PROVE StoredIsVerdict
  OBVIOUS
<1>2. PICK b \in Bases, c \in Creations, log \in Logs :
        ticket = [base |-> b, created |-> c, log |-> log]
  BY <1>1 DEF Init
<1>3. IsTicket(ticket)
  BY <1>2, TicketAssumption
<1>4. QED
  BY <1>1, <1>3 DEF Init, StoredIsVerdict, NothingStored

LEMMA StepStored == StoredIsVerdict /\ [Next]_vars => StoredIsVerdict'
<1>1. SUFFICES ASSUME StoredIsVerdict, [Next]_vars PROVE StoredIsVerdict'
  OBVIOUS
<1>2. CASE ImportCsv
  <2>1. ticket' = ticket /\ DOMAIN stored' = {"csv", "api"}
        /\ stored'.csv = CsvVerdict(ticket) /\ stored'.api = stored.api
    BY <1>1, <1>2 DEF ImportCsv, StoredIsVerdict
  <2>2. QED
    BY <1>1, <2>1 DEF StoredIsVerdict
<1>3. CASE ImportApi
  <2>1. ticket' = ticket /\ DOMAIN stored' = {"csv", "api"}
        /\ stored'.api = ApiVerdict(ticket) /\ stored'.csv = stored.csv
    BY <1>1, <1>3 DEF ImportApi, StoredIsVerdict
  <2>2. QED
    BY <1>1, <2>1 DEF StoredIsVerdict
<1>4. ASSUME NEW name \in DOMAIN Values, NEW to, Change(name, to)
      PROVE  StoredIsVerdict'
  <2>1. IsTicket(ticket) /\ IsLog(ticket.log) /\ name \in CustomFields
    BY <1>1, TicketAssumption DEF StoredIsVerdict, IsTicket
  <2>2. PICK at \in {Newest(ticket.log), Newest(ticket.log) + 1} :
          /\ \A i \in Changes(ticket.log, name) : ticket.log[i].at < at
          /\ ticket' = [ticket EXCEPT !.log = <<Entry(at, name, to)>> \o @]
    BY <1>4 DEF Change
  <2>3. at \in Nat
    <3>1. Newest(ticket.log) \in Nat
      <4>1. CASE ticket.log = <<>>
        BY <4>1 DEF Newest
      <4>2. CASE ticket.log # <<>>
        <5>1. 1 \in DOMAIN ticket.log
          BY <2>1, <4>2 DEF IsLog
        <5>2. QED
          BY <2>1, <4>2, <5>1 DEF IsLog, Newest
      <4>3. QED
        BY <4>1, <4>2
    <3>2. QED
      BY <2>2, <3>1
  <2>4. IsLog(<<Entry(at, name, to)>> \o ticket.log)
    BY <2>1, <2>2, <2>3, NewestFirst
  <2>5. IsTicket(ticket')
    <3>1. /\ ticket'.base = ticket.base /\ ticket'.created = ticket.created
          /\ ticket'.log = <<Entry(at, name, to)>> \o ticket.log
      BY <1>1, <2>2 DEF StoredIsVerdict
    <3>2. QED
      BY <2>1, <2>4, <3>1 DEF IsTicket
  <2>6. stored' = NothingStored
    BY <1>4 DEF Change
  <2>7. QED
    BY <2>5, <2>6 DEF StoredIsVerdict, NothingStored
<1>5. CASE UNCHANGED vars
  BY <1>1, <1>5 DEF StoredIsVerdict, vars
<1>6. QED
  BY <1>1, <1>2, <1>3, <1>4, <1>5 DEF Next

\* The two paths agree on every column of every ticket, however often its fields change
\* between their imports: PathsAgree for all tables, tickets and logs.
THEOREM PathsAgreeHolds == Spec => []PathsAgree
<1>1. StoredIsVerdict => PathsAgree
  BY ColumnsAgree DEF StoredIsVerdict, PathsAgree
<1>2. QED
  BY <1>1, InitStored, StepStored, PTL DEF Spec
=============================================================================
