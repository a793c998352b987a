------------------------------ MODULE FieldRules ------------------------------
(***************************************************************************)
(* FormRecordsService.validateValues and what it calls, and the laxer      *)
(* reading of values by EboRekapService: functions of the field            *)
(* definitions and of what was sent.                                       *)
(*                                                                         *)
(* A value is what JSON holds, [kind, is].  A text is a word, with blanks  *)
(* around it when it is "padded"; the rules min, max, maxLength and        *)
(* pattern of a field are the set of words that fit them.                  *)
(***************************************************************************)
EXTENDS Naturals, Sequences, FiniteSets

CONSTANTS
  Numeric,  \* the words that Number() reads
  Dates     \* the words that new Date() reads

Text(w) == [kind |-> "text", is |-> w]
Padded(w) == [kind |-> "padded", is |-> w]
Num(w) == [kind |-> "number", is |-> w]
Truth(b) == [kind |-> "boolean", is |-> IF b THEN "true" ELSE "false"]
Iso(w) == [kind |-> "iso", is |-> w]
List(s) == [kind |-> "list", is |-> s]
Rows(s) == [kind |-> "rows", is |-> s]
Refused == [kind |-> "error", is |-> ""]
Passes(v) == v.kind # "error"

IsText(v) == v.kind \in {"text", "padded", "iso"}
IsList(v) == v.kind \in {"list", "rows"}
Blank(v) == (IsText(v) /\ v.is = "") \/ (IsList(v) /\ v.is = <<>>)

\* String(raw), but for the blanks around it.
Word(v) ==
  CASE IsList(v) /\ v.is = <<>>           -> ""
    [] v.kind = "list" /\ v.is # <<>>     -> IF Len(v.is) = 1 THEN v.is[1] ELSE "joined"
    [] v.kind = "rows" /\ v.is # <<>>     -> "[object Object]"
    [] OTHER                              -> v.is
NumberWord(v) == IF v.kind = "boolean" THEN (IF v.is = "true" THEN "1" ELSE "0") ELSE Word(v)
Words(v) == IF v.kind = "list" THEN v.is ELSE <<Word(v)>>

\* A row of a TABLE: every column filled, the blanks around the cells and the cells of
\* other columns dropped.
Complete(field, row) == \A c \in field.columns : c \in DOMAIN row /\ Word(row[c]) # ""
Cleaned(field, row) == [c \in field.columns |-> Text(Word(row[c]))]

Coerce(field, raw) ==
  CASE field.type = "NUMBER" ->
         IF NumberWord(raw) \in Numeric \intersect field.fits THEN Num(NumberWord(raw)) ELSE Refused
    [] field.type = "BOOLEAN" ->
         Truth(<<raw.kind, Word(raw)>> \in
                 {<<"boolean", "true">>, <<"text", "true">>, <<"number", "1">>})
    [] field.type = "DATE" ->
         IF Word(raw) \in Dates THEN Iso(Word(raw)) ELSE Refused
    [] field.type = "SELECT" ->
         IF raw.kind # "padded" /\ Word(raw) \in field.options THEN Text(Word(raw)) ELSE Refused
    [] field.type = "MULTISELECT" ->
         IF raw.kind # "padded" /\ \A n \in DOMAIN Words(raw) : Words(raw)[n] \in field.options
         THEN List(Words(raw))
         ELSE Refused
    [] field.type = "FILE" -> List(Words(raw))
    [] field.type = "TABLE" ->
         IF raw.kind = "rows" /\ \A n \in DOMAIN raw.is : Complete(field, raw.is[n])
         THEN Rows([n \in DOMAIN raw.is |-> Cleaned(field, raw.is[n])])
         ELSE Refused
    [] OTHER ->
         IF Word(raw) \in field.fits THEN Text(Word(raw)) ELSE Refused

-----------------------------------------------------------------------------
(* validateValues(fields, input, allowInactive).                           *)

\* Mutant: an inactive field is never usable.
UsableActive(fields, allowInactive) == {k \in DOMAIN fields : fields[k].active}

Usable(fields, allowInactive) == {k \in DOMAIN fields : allowInactive \/ fields[k].active}
Empty(input, k) == k \notin DOMAIN input \/ Blank(input[k])
Spared(fields, allowInactive, k) == allowInactive /\ ~fields[k].active

Accepts(fields, input, allowInactive) ==
  /\ DOMAIN input \subseteq Usable(fields, allowInactive)
  /\ \A k \in Usable(fields, allowInactive) :
       IF Empty(input, k)
       THEN fields[k].required => Spared(fields, allowInactive, k)
       ELSE Passes(Coerce(fields[k], input[k]))

\* What is stored: a default as it stands, everything else coerced.
Validated(fields, input, allowInactive) ==
  LET usable == Usable(fields, allowInactive)
      spared == {k \in usable \intersect DOMAIN input :
                   Empty(input, k) /\ Spared(fields, allowInactive, k)}
      filled == {k \in usable : Empty(input, k) /\ ~Spared(fields, allowInactive, k)
                                /\ fields[k].default # ""}
      given == {k \in usable : ~Empty(input, k)}
  IN  [k \in spared \union filled \union given |->
         IF k \in spared THEN input[k]
         ELSE IF k \in filled THEN Text(fields[k].default)
         ELSE Coerce(fields[k], input[k])]

\* guessRefNumber; "" is no number.
RefKeys == <<"ticketId", "ticketNumber", "projectId", "documentNumber">>
GuessRefNumber(values) ==
  LET named == {n \in DOMAIN RefKeys : /\ RefKeys[n] \in DOMAIN values
                                       /\ IsText(values[RefKeys[n]])
                                       /\ ~Blank(values[RefKeys[n]])}
  IN  IF named = {} THEN ""
      ELSE Word(values[RefKeys[CHOOSE n \in named : \A m \in named : n <= m]])

\* siapkanNilai: what a rekap says is taken as it is.
Prepared(field, raw) ==
  CASE field.type = "NUMBER" /\ Word(raw) \in Numeric -> Num(Word(raw))
    [] field.type = "MULTISELECT" -> List(<<Word(raw)>>)
    [] OTHER -> Text(Word(raw))
=============================================================================
