------------------------------ MODULE FormRecords ------------------------------
(***************************************************************************)
(* FormsService, FormRecordsService and EboRekapService: a form whose      *)
(* fields an administrator changes while its records are submitted,        *)
(* edited, printed, removed, exported as a rekap and imported from one.    *)
(*                                                                         *)
(* One form key is modelled: the rows of FormDefinition are the forms that *)
(* had it one after the other, each with its FormField rows as a function  *)
(* of their key ([formId, key] is unique).  Sections, labels and the       *)
(* layout of the workbooks are left out.                                   *)
(***************************************************************************)
EXTENDS InFlight, FieldRules, SequencesExt

CONSTANTS
  SeedFields,   \* the fields of the form in SEED_FORMS
  Definitions,  \* what an administrator may define a field to be
  Submissions,  \* SubmitRecordDto: [values, ref]
  Patches,      \* UpdateRecordDto: [values, ref, status]
  Rekaps,       \* files to import: sequences of [values, at]
  ChunkSize     \* UKURAN_POTONGAN (100 in the code)

\* A field has its columns.  A file has no time that the database has yet to give.
Columns == {"type", "required", "active", "options", "default", "fits", "columns"}
ASSUME FormRecordsAssumption ==
  /\ \A d \in Definitions : DOMAIN d = Columns
  /\ \A k \in DOMAIN SeedFields : DOMAIN SeedFields[k] = Columns
  /\ ChunkSize \in Nat \ {0}
  /\ \A file \in Rekaps :
       /\ Len(file) \in Nat
       /\ \A i \in 1..Len(file) : file[i].at = None \/ file[i].at[1] = "given"

VARIABLES
  forms,    \* table FormDefinition
  records,  \* table FormRecord
  story     \* history of each record: what was acknowledged, printed, validated against

formVars == <<forms, records, story>>

CurrentForm == {f \in DOMAIN forms : forms[f].live}
RecordsOf(f) == {n \in DOMAIN records : records[n].live /\ records[n].form = f}
FieldsOf(f) == forms[f].fields
NewForm(fields) == [live |-> TRUE, active |-> TRUE, fields |-> fields]

Row(f, values, ref, status, at) ==
  [live |-> TRUE, form |-> f, values |-> values, ref |-> ref, status |-> status, at |-> at]
\* A record's beginning: no edit acknowledged, never printed.
Born(under) == [said |-> <<>>, printed |-> None, under |-> under, renamed |-> FALSE,
                byHand |-> FALSE, removed |-> FALSE]

\* { ...old, ...new }
Over(new, old) ==
  [k \in DOMAIN new \union DOMAIN old |-> IF k \in DOMAIN new THEN new[k] ELSE old[k]]

\* createdAt: the database's clock, or the timestamp of the file.
Now == <<"now", Len(records) + 1>>
Given(s) == <<"given", s>>

FormsInit ==
  /\ forms = <<NewForm(SeedFields)>>
  /\ records = <<>>
  /\ story = <<>>

-----------------------------------------------------------------------------
(* FormsService.                                                           *)

CreateForm ==
  /\ Once
  /\ CurrentForm = {}
  /\ forms' = Append(forms, NewForm(<<>>))
  /\ UNCHANGED <<records, story>>

\* createField, updateField and deleteField: reads, then one write.
SetFields(f, fields) ==
  /\ Once
  /\ f \in CurrentForm
  /\ forms' = [forms EXCEPT ![f].fields = fields]
  /\ UNCHANGED <<records, story>>

Shaped(d) == d.type \in {"SELECT", "MULTISELECT"} => d.options # {}

CreateField(f, k, d) ==
  k \notin DOMAIN FieldsOf(f) /\ Shaped(d) /\ SetFields(f, Over([x \in {k} |-> d], FieldsOf(f)))

UpdateField(f, k, d) ==
  k \in DOMAIN FieldsOf(f) /\ Shaped(d) /\ SetFields(f, [FieldsOf(f) EXCEPT ![k] = d])

DeleteField(f, k, permanent) ==
  /\ k \in DOMAIN FieldsOf(f)
  /\ SetFields(f, IF permanent
                  THEN Restrict(FieldsOf(f), (DOMAIN FieldsOf(f)) \ {k})
                  ELSE [FieldsOf(f) EXCEPT ![k].active = FALSE])

\* Mutant: the records are not counted.
DeleteFormAlways(r, f) ==
  /\ f \in CurrentForm
  /\ Start(r, [Idle EXCEPT !.op = "deleteForm", !.at = "delete", !.topic = {<<"drop", "form">>}])
  /\ UNCHANGED formVars

\* deleteForm counts the records first.
DeleteForm(r, f) ==
  /\ f \in CurrentForm
  /\ Start(r, [Idle EXCEPT !.op = "deleteForm",
                           !.at = IF RecordsOf(f) # {} THEN "deactivate" ELSE "delete",
                           !.topic = {<<"drop", "form">>}])
  /\ UNCHANGED formVars

Deactivate(r) ==
  /\ Is(r, "deleteForm", "deactivate")
  /\ forms' = [f \in DOMAIN forms |-> IF f \in CurrentForm THEN [forms[f] EXCEPT !.active = FALSE]
                                      ELSE forms[f]]
  /\ Leave(r)
  /\ UNCHANGED <<records, story>>

\* The delete is by key, and cascades to the records.
Delete(r) ==
  /\ Is(r, "deleteForm", "delete")
  /\ forms' = [f \in DOMAIN forms |-> [forms[f] EXCEPT !.live = FALSE]]
  /\ records' = [n \in DOMAIN records |-> [records[n] EXCEPT !.live = FALSE]]
  /\ Leave(r)
  /\ UNCHANGED story

\* seedDefaults: find or create the form, then each of its fields.
SeedDefaults(r) ==
  /\ Start(r, [Idle EXCEPT !.op = "seed", !.at = "field", !.data = DOMAIN SeedFields,
                           !.id = IF CurrentForm = {} THEN Len(forms) + 1
                                  ELSE CHOOSE f \in CurrentForm : TRUE])
  /\ forms' = IF CurrentForm = {} THEN Append(forms, NewForm(<<>>)) ELSE forms
  /\ UNCHANGED <<records, story>>

SeedField(r) ==
  /\ Is(r, "seed", "field")
  /\ LET f == req[r].id
         todo == req[r].data
     IN  \/ /\ todo = {} \/ f \notin CurrentForm
            /\ Leave(r) /\ UNCHANGED forms
         \/ /\ f \in CurrentForm
            /\ \E k \in todo :
                 /\ forms' = [forms EXCEPT ![f].fields =
                                          Over(FieldsOf(f), [x \in {k} |-> SeedFields[k]])]
                 /\ Goto(r, "field", todo \ {k})
  /\ UNCHANGED <<records, story>>

-----------------------------------------------------------------------------
(* FormRecordsService.                                                     *)

\* submit: the form's active fields are read and the values validated.
Submit(r, f, dto) ==
  /\ f \in CurrentForm
  /\ Accepts(FieldsOf(f), dto.values, FALSE)
  /\ LET values == Validated(FieldsOf(f), dto.values, FALSE) IN
       Start(r, [Idle EXCEPT !.op = "submit", !.at = "create", !.id = f,
                             !.topic = {<<"add", "form">>},
                             !.data = [values |-> values, under |-> FieldsOf(f),
                                       ref |-> IF dto.ref = None THEN GuessRefNumber(values)
                                               ELSE dto.ref]])
  /\ UNCHANGED formVars

\* The foreign key refuses a record of a form that is gone.
Create(r) ==
  /\ Is(r, "submit", "create")
  /\ LET q == req[r] IN
       IF q.id \in CurrentForm
       THEN /\ records' = Append(records, Row(q.id, q.data.values, q.data.ref, "submitted", Now))
            /\ story' = Append(story, Born(q.data.under))
       ELSE UNCHANGED <<records, story>>
  /\ Leave(r)
  /\ UNCHANGED forms

\* Mutant: the edit does not reset the status.
StatusKept(record, dto) == IF dto.status # None THEN {dto.status} ELSE {}

\* The columns that update writes: each the set of its new value, or none.
StatusWritten(record, dto) ==
  IF dto.status # None THEN {dto.status}
  ELSE IF dto.values # None /\ record.status = "generated" THEN {"submitted"}
  ELSE {}

RefWritten(merged, dto) ==
  IF dto.ref # None THEN {dto.ref}
  ELSE IF dto.values # None THEN {GuessRefNumber(merged)}
  ELSE {}

\* update: findOne with all the fields, the values merged and validated.
Update(r, n, dto) ==
  LET record == records[n]
      fields == FieldsOf(record.form)
      merged == IF dto.values = None THEN record.values ELSE Over(dto.values, record.values)
  IN  /\ record.live
      /\ dto.values # None => Accepts(fields, merged, TRUE)
      /\ Start(r, [Idle EXCEPT !.op = "update", !.at = "write", !.id = n,
                               !.topic = {<<"edit", n>>},
                               !.data = [values |-> IF dto.values = None THEN {}
                                                    ELSE {Validated(fields, merged, TRUE)},
                                         ref |-> RefWritten(merged, dto),
                                         status |-> StatusWritten(record, dto),
                                         given |-> IF dto.values = None THEN {}
                                                   ELSE DOMAIN dto.values,
                                         under |-> fields]])
      /\ UNCHANGED formVars

Written(old, new) == IF new = {} THEN old ELSE CHOOSE x \in new : TRUE
ValueOf(values, k) ==
  IF k \in DOMAIN values /\ ~Blank(values[k]) THEN values[k] ELSE None

\* Mutant: the merge is left to the write, as a shallow patch that forgets the rest.
WriteGivenOnly(r) ==
  /\ Is(r, "update", "write")
  /\ LET n == req[r].id
         w == req[r].data
         values == Restrict(Written(records[n].values, w.values),
                            w.given \intersect DOMAIN Written(records[n].values, w.values))
     IN  IF records[n].live
         THEN /\ records' = [records EXCEPT ![n].values = values,
                                            ![n].status = Written(@, w.status)]
              /\ story' = [story EXCEPT
                   ![n].said = Over([k \in w.given |-> ValueOf(values, k)], @)]
         ELSE UNCHANGED <<records, story>>
  /\ Leave(r)
  /\ UNCHANGED forms

Write(r) ==
  /\ Is(r, "update", "write")
  /\ LET n == req[r].id
         w == req[r].data
         values == Written(records[n].values, w.values)
     IN  IF records[n].live
         THEN /\ records' = [records EXCEPT ![n].values = values,
                                            ![n].ref = Written(@, w.ref),
                                            ![n].status = Written(@, w.status)]
              /\ story' = [story EXCEPT
                   ![n].said = Over([k \in w.given |-> ValueOf(values, k)], @),
                   ![n].under = IF w.values = {} THEN @ ELSE w.under,
                   ![n].byHand = IF w.status = {} THEN @
                                 ELSE Written(records[n].status, w.status) = "generated",
                   ![n].renamed = @ \/ Written(records[n].ref, w.ref) # records[n].ref]
         ELSE UNCHANGED <<records, story>>
  /\ Leave(r)
  /\ UNCHANGED forms

\* POST :id/export: exportRecord reads the record, then markGenerated.
Generate(r, n) ==
  /\ records[n].live
  /\ Start(r, [Idle EXCEPT !.op = "print", !.at = "mark", !.id = n, !.topic = {<<"print", n>>},
                           !.data = records[n].values])
  /\ UNCHANGED formVars

MarkGenerated(r) ==
  /\ Is(r, "print", "mark")
  /\ LET n == req[r].id IN
       /\ records' = IF records[n].live /\ records[n].status \in {"submitted", "pending"}
                     THEN [records EXCEPT ![n].status = "generated"]
                     ELSE records
       /\ story' = [story EXCEPT ![n].printed = req[r].data, ![n].byHand = FALSE]
  /\ Leave(r)
  /\ UNCHANGED forms

RemoveRecord(n) ==
  /\ Once
  /\ records[n].live
  /\ records' = [records EXCEPT ![n].live = FALSE]
  /\ story' = [story EXCEPT ![n].removed = TRUE]
  /\ UNCHANGED forms

-----------------------------------------------------------------------------
(* EboRekapService.                                                        *)

\* exportRekap: a row of text per record, with its createdAt.  A record that is not of
\* the form leaves a blank row here, which importRekap skips.
Rekap(f) ==
  [n \in DOMAIN records |->
     [values |-> [k \in IF n \in RecordsOf(f) THEN DOMAIN records[n].values ELSE {} |->
                    Text(Word(records[n].values[k]))],
      at |-> records[n].at]]

\* kunciYangSudahAda.
Keys(f) == {<<records[n].ref, records[n].at>> : n \in RecordsOf(f)}
KeyOf(values, at) ==
  <<IF "ticketId" \in DOMAIN values THEN Word(values["ticketId"]) ELSE "", at>>

\* Mutant: what the file itself has given is not remembered.
RememberNothing(seen, key) == seen

Remember(seen, key) == seen \union {key}

\* A row that is blank, or of a key seen before, is skipped.
TakeRow(f, acc, row) ==
  LET filled == {k \in DOMAIN row.values \intersect DOMAIN FieldsOf(f) : ~Blank(row.values[k])}
      values == [k \in filled |-> Prepared(FieldsOf(f)[k], row.values[k])]
      key == KeyOf(values, row.at)
  IN  IF filled = {} \/ key \in acc.seen THEN acc
      ELSE [seen |-> Remember(acc.seen, key),
            rows |-> Append(acc.rows, [values |-> values, at |-> row.at])]

\* The rows to create.
Queue(f, file) ==
  LET taken[i \in 0..Len(file)] ==
        IF i = 0 THEN [seen |-> Keys(f), rows |-> <<>>] ELSE TakeRow(f, taken[i - 1], file[i])
  IN  taken[Len(file)].rows

\* importRekap: the form, then the keys of its records.
Import(r, f, file) ==
  /\ f \in CurrentForm
  /\ Start(r, [Idle EXCEPT !.op = "import", !.at = "chunk", !.id = f,
                           !.topic = {<<"add", "form">>, <<"import", f>>},
                           !.data = Queue(f, file)])
  /\ UNCHANGED formVars

\* createMany, a chunk at a time.
ImportChunk(r) ==
  /\ Is(r, "import", "chunk")
  /\ LET rows == req[r].data
         chunk == SubSeq(rows, 1, IF Len(rows) < ChunkSize THEN Len(rows) ELSE ChunkSize)
     IN  IF rows = <<>> \/ req[r].id \notin CurrentForm
         THEN Leave(r) /\ UNCHANGED <<records, story>>
         ELSE /\ records' = records \o
                   [i \in DOMAIN chunk |->
                      Row(req[r].id, chunk[i].values, KeyOf(chunk[i].values, None)[1], "imported",
                          IF chunk[i].at = None THEN Now ELSE chunk[i].at)]
              /\ story' = story \o [i \in DOMAIN chunk |-> Born(None)]
              /\ Goto(r, "chunk", SubSeq(rows, Len(chunk) + 1, Len(rows)))
  /\ UNCHANGED forms

-----------------------------------------------------------------------------
DefinitionSteps ==
  \/ CreateForm
  \/ \E f \in DOMAIN forms, k \in DOMAIN SeedFields :
       \/ \E d \in Definitions : CreateField(f, k, d) \/ UpdateField(f, k, d)
       \/ \E permanent \in BOOLEAN : DeleteField(f, k, permanent)

RecordSteps(r) ==
  \/ \E f \in DOMAIN forms :
       \/ DeleteForm(r, f)
       \/ \E dto \in Submissions : Submit(r, f, dto)
       \/ \E file \in Rekaps \union {Rekap(f)} : Import(r, f, file)
  \/ \E n \in DOMAIN records : Generate(r, n) \/ \E dto \in Patches : Update(r, n, dto)
  \/ Deactivate(r) \/ Delete(r) \/ SeedDefaults(r) \/ SeedField(r)
  \/ Create(r) \/ Write(r) \/ MarkGenerated(r) \/ ImportChunk(r)
  \/ Fail(r) /\ UNCHANGED formVars

FormsNext ==
  \/ DefinitionSteps
  \/ \E n \in DOMAIN records : RemoveRecord(n)
  \/ \E r \in Requests : RecordSteps(r)

FormsFlight == <<flight, formVars>>
FormsSpec == FlightInit /\ FormsInit /\ [][FormsNext]_FormsFlight

-----------------------------------------------------------------------------
(* Properties.                                                             *)

\* Every column has its type, a record belongs to a form that was, and at most one form
\* has the key.
FormsTypeOK ==
  /\ \A f \in DOMAIN forms : forms[f].live \in BOOLEAN /\ forms[f].active \in BOOLEAN
  /\ Cardinality(CurrentForm) <= 1
  /\ DOMAIN story = DOMAIN records
  /\ \A n \in DOMAIN records :
       /\ records[n].form \in DOMAIN forms
       /\ records[n].live => records[n].form \in CurrentForm
       /\ records[n].status \in
            {"submitted", "generated", "imported"} \union {dto.status : dto \in Patches}

\* "Form dihapus permanen hanya bila belum punya record ... supaya riwayat submission
\* tidak ikut hilang": a record is gone only because it was removed, unless deleteForm
\* had counted before the record came.
NoRecordLost ==
  \A n \in DOMAIN records :
    ~records[n].live => story[n].removed \/ {<<"add", "form">>, <<"drop", "form">>} \in raced

\* An edit that was acknowledged stands until the next edit of that value, although
\* update writes all the values back (what was blanked may take the field's default),
\* unless two edits of the record overlapped.
Defaults ==
  {Text(d.default) : d \in Definitions \union {SeedFields[k] : k \in DOMAIN SeedFields}}
EditsKept ==
  \A n \in DOMAIN records :
    records[n].live /\ {<<"edit", n>>} \notin raced =>
      \A k \in DOMAIN story[n].said :
        \/ ValueOf(records[n].values, k) = story[n].said[k]
        \/ story[n].said[k] = None /\ records[n].values[k] \in Defaults

\* 'generated' says that the document that was handed out shows the record as it is:
\* update takes the status back, whatever happened between, unless an edit and a print
\* of the record overlapped, or the last to set the status was a client that sent
\* 'generated' itself (UpdateRecordDto takes any text), which no document stands behind.
GeneratedIsCurrent ==
  \A n \in DOMAIN records :
    /\ records[n].status = "generated"
    /\ {<<"edit", n>>, <<"print", n>>} \notin raced
    /\ ~story[n].byHand
    => story[n].printed = records[n].values

\* What has happened to the fields since: nothing but deactivations, and additions of
\* fields that are not required; and their defaults are values they accept.
OnlyDeactivated(old, new) ==
  /\ \A k \in DOMAIN old : /\ k \in DOMAIN new
                           /\ new[k] \in {old[k], [old[k] EXCEPT !.active = FALSE]}
                           /\ old[k].default # "" => Passes(Coerce(old[k], Text(old[k].default)))
  /\ \A k \in DOMAIN new : k \notin DOMAIN old => ~new[k].required

\* "Field yang sudah dinonaktifkan tetap diterima saat edit, supaya record lama masih
\* bisa diperbaiki": a record that was validated is accepted again as it stands, however
\* many fields were deactivated or added meanwhile, even between its validation and its
\* writing.
OldRecordsRepairable ==
  \A n \in DOMAIN records :
    LET fields == FieldsOf(records[n].form) IN
      records[n].live /\ story[n].under # None /\ OnlyDeactivated(story[n].under, fields) =>
        Accepts(fields, records[n].values, TRUE)

\* "Kunci idempoten: ID tiket + timestamp": no two records of a form have the same
\* reference number and the same timestamp, whatever is submitted, however often a rekap is
\* imported, and also after an import that failed half-way, unless two imports overlapped or
\* an edit changed the reference number.  So a row is not imported again where the pair that
\* importRekap makes of it, its ticketId and its timestamp, is the pair of the record it came
\* from.  It is not for a record whose reference number is not its ticketId (given by the
\* client, or guessed from another field), nor for a row without a timestamp, which is given
\* the time of the import: those come in again, under another pair.
ImportOnce ==
  \A m, n \in DOMAIN records :
    /\ m # n /\ records[m].live /\ records[n].live
    /\ records[m].form = records[n].form
    /\ records[m].at = records[n].at
    /\ records[m].ref = records[n].ref
    => {<<"import", records[n].form>>} \in raced \/ story[m].renamed \/ story[n].renamed
=============================================================================
