------------------------------ MODULE PortalProofs ------------------------------
(***************************************************************************)
(* Proofs about NewsCache, QaSettings and Portal, for every set of         *)
(* requests, users, queries, lookup tables, pages and uploads.             *)
(*                                                                         *)
(* News: what the users are told of their marks adds up to what is stored, *)
(* which rests on the unique key (UniqueMarks), on what a toggle in flight *)
(* has found, and on counting the answers on their way; searchText is      *)
(* of what is stored, which rests on what an update in flight has read,    *)
(* and on every overlap of two updates being recorded (RewritesRaced);     *)
(* what the cache and the threads of comments hold rests on the keys that  *)
(* readers carry and on the comment that a reply found.                    *)
(*                                                                         *)
(* Settings: a peak of an agent has one tapper, the page survives being    *)
(* saved as it is shown, and the retroactive job runs once and can always  *)
(* start again.  What a save is about to create is apart, whatever the     *)
(* lookup table was when it was planned (PlanFacts); and unless two saves  *)
(* overlapped (SavesRaced), the table is empty between the delete and the  *)
(* create.                                                                 *)
(*                                                                         *)
(* Portal: every behaviour of the portal is one of FormRecords, NewsCache  *)
(* or QaSettings, so what is proved of those holds of the portal.          *)
(***************************************************************************)
EXTENDS Portal, FormProofs

-----------------------------------------------------------------------------
(* NewsCache.                                                              *)

(* The inductive invariant.                                                *)

ArticleRows == [live : BOOLEAN, title : Nat, content : Nat, search : Nat \X Nat, views : Nat]
CommentRows == [live : BOOLEAN, article : Nat, parent : Nat \union {None}]
Marks == {"bookmark", "like"} \X Users \X Nat
MarkRows == [live : BOOLEAN, mark : Marks]

NewsTablesOK ==
  /\ articles \in Seq(ArticleRows)
  /\ comments \in Seq(CommentRows)
  /\ marks \in Seq(MarkRows)

NewsRequestsOK ==
  /\ DOMAIN req = Requests
  /\ \A r \in Requests : DOMAIN req[r] = {"op", "at", "topic", "id", "data"}

\* A like is of a comment that was.
LikeKnown(m) == m[1] = "like" => m[3] \in DOMAIN comments

\* A toggle in flight has found rows of its mark, and has one once it has written.
ToggleOK(q) ==
  /\ q.id \in Marks
  /\ LikeKnown(q.id)
  /\ \/ /\ q.at = "mark"
        /\ q.data \subseteq DOMAIN marks
        /\ \A i \in q.data : marks[i].mark = q.id
     \/ /\ q.at = "answer"
        /\ q.data \in BOOLEAN
        /\ \E i \in DOMAIN marks : marks[i].mark = q.id
TogglesOK == \A r \in Requests : req[r].op = "toggle" => ToggleOK(req[r])

CommentOK(q) == q.at = "insert" /\ q.id \in Nat /\ q.data \in Nat \union {None}
CommentsOK == \A r \in Requests : req[r].op = "comment" => CommentOK(req[r])

Rewrite(n) == <<"rewrite", n>>
Raced(n) == {Rewrite(n)} \in raced

\* An update has read what is stored, until it has written, or was overlapped.
EditOK(q) ==
  \E n \in DOMAIN articles :
    /\ q.id = DetailKey(n)
    /\ q.topic = {Rewrite(n)}
    /\ q.at = "write" =>
         /\ q.data.part \in {"title", "content"}
         /\ q.data.search \in Nat \X Nat
         /\ Raced(n) \/ q.data.search = SearchText(articles[n], q.data.part)
EditsOK == \A r \in Requests : req[r].op = "edit" => EditOK(req[r])

RewritesRaced ==
  \A r, s \in Requests :
    r # s /\ req[r].op = "edit" /\ req[s].op = "edit" /\ req[r].id = req[s].id =>
      Raced(req[r].id[2])

UniqueMarks ==
  \A i, j \in DOMAIN marks :
    marks[i].live /\ marks[j].live /\ marks[i].mark = marks[j].mark => i = j

ToldOK == \A m \in DOMAIN told : told[m] \in [said : Int, unsaid : Int]

NewsInv ==
  /\ NewsTablesOK /\ NewsRequestsOK /\ TogglesOK /\ CommentsOK /\ EditsOK /\ RewritesRaced
  /\ UniqueMarks /\ ToldOK /\ SearchTextFresh

-----------------------------------------------------------------------------
(* Sequences, and the steps of a request.                                  *)

\* A row that is killed stays where it is, and what it says stays.
LEMMA KillFacts ==
  ASSUME NEW RowsIn, NEW table \in Seq(RowsIn), NEW S,
         \A row \in RowsIn : [row EXCEPT !.live = FALSE] \in RowsIn
  PROVE  /\ Kill(table, S) \in Seq(RowsIn)
         /\ DOMAIN Kill(table, S) = DOMAIN table
         /\ \A n \in DOMAIN table :
              Kill(table, S)[n] = IF n \in S THEN [table[n] EXCEPT !.live = FALSE] ELSE table[n]
<1>1. /\ DOMAIN table = 1..Len(table) /\ Len(table) \in Nat
      /\ \A n \in DOMAIN table : table[n] \in RowsIn
  OBVIOUS
<1>2. Kill(table, S) \in [1..Len(table) -> RowsIn]
  BY <1>1 DEF Kill
<1>3. Kill(table, S) \in Seq(RowsIn)
  BY <1>1, <1>2
<1>4. QED
  BY <1>3 DEF Kill

LEMMA AppendFacts ==
  ASSUME NEW RowsIn, NEW table \in Seq(RowsIn), NEW row \in RowsIn
  PROVE  /\ Append(table, row) \in Seq(RowsIn)
         /\ Len(table) + 1 \notin DOMAIN table
         /\ DOMAIN Append(table, row) = (DOMAIN table) \union {Len(table) + 1}
         /\ Append(table, row)[Len(table) + 1] = row
         /\ \A n \in DOMAIN table : Append(table, row)[n] = table[n]
  OBVIOUS

LEMMA GotoFacts ==
  ASSUME NEW r \in Requests, NEW step, NEW locals, NewsRequestsOK, Goto(r, step, locals)
  PROVE  /\ req' = [req EXCEPT ![r] = [req[r] EXCEPT !.at = step, !.data = locals]]
         /\ raced' = raced
  BY DEF Goto, NewsRequestsOK

LEMMA LeaveFacts ==
  ASSUME NEW r, Leave(r)
  PROVE  req' = [req EXCEPT ![r] = Idle] /\ raced' = raced
  BY DEF Leave

LEMMA StartFacts ==
  ASSUME NEW r, NEW q, Start(r, q)
  PROVE  /\ req' = [req EXCEPT ![r] = q]
         /\ raced' = raced \union Overlaps(q.topic)
  BY DEF Start

\* The tables as a request in flight has seen them: rows are added and killed, but keep
\* their mark, their title and their content; but for an update, see WriteOfEdit.
MarksGrow ==
  /\ DOMAIN comments \subseteq DOMAIN comments'
  /\ DOMAIN marks \subseteq DOMAIN marks'
  /\ \A i \in DOMAIN marks : marks'[i].mark = marks[i].mark
ArticlesStayBut(r) ==
  /\ DOMAIN articles \subseteq DOMAIN articles'
  /\ \A n \in DOMAIN articles :
       \/ articles'[n].title = articles[n].title /\ articles'[n].content = articles[n].content
       \/ Raced(n)
       \/ \A s \in Requests \ {r} : ~(req[s].op = "edit" /\ req[s].id = DetailKey(n))

\* What a request becomes is as the invariant says; if it is an update, so are its
\* overlaps with others of its article.
Becomes(r) ==
  /\ DOMAIN req' = Requests
  /\ \A s \in Requests \ {r} : req'[s] = req[s]
  /\ DOMAIN req'[r] = {"op", "at", "topic", "id", "data"}
  /\ req'[r].op = "toggle" => ToggleOK(req[r])'
  /\ req'[r].op = "comment" => CommentOK(req[r])'
  /\ req'[r].op = "edit" =>
       /\ EditOK(req[r])'
       /\ \A s \in Requests \ {r} :
            req[s].op = "edit" /\ req[s].id = req'[r].id => Raced(req[s].id[2])'

RequestInv == NewsRequestsOK /\ TogglesOK /\ CommentsOK /\ EditsOK /\ RewritesRaced

LEMMA RequestsKept ==
  ASSUME RequestInv, MarksGrow, raced \subseteq raced', NEW r \in Requests,
         ArticlesStayBut(r), Becomes(r)
  PROVE  RequestInv'
<1>1. /\ DOMAIN req' = Requests
      /\ \A s \in Requests \ {r} : req'[s] = req[s]
      /\ DOMAIN req'[r] = {"op", "at", "topic", "id", "data"}
  BY DEF Becomes
<1>2. NewsRequestsOK'
  BY <1>1 DEF RequestInv, NewsRequestsOK
<1>3. TogglesOK'
  <2>1. SUFFICES ASSUME NEW s \in Requests \ {r}, req[s].op = "toggle"
                 PROVE  ToggleOK(req[s])'
    BY <1>1 DEF TogglesOK, Becomes
  <2>2. ToggleOK(req[s])
    BY <2>1 DEF RequestInv, TogglesOK
  <2>3. QED
    BY <1>1, <2>2 DEF ToggleOK, LikeKnown, MarksGrow
<1>4. CommentsOK'
  BY <1>1 DEF CommentsOK, CommentOK, Becomes, RequestInv
<1>5. EditsOK'
  <2>1. SUFFICES ASSUME NEW s \in Requests \ {r}, req[s].op = "edit"
                 PROVE  EditOK(req[s])'
    BY <1>1 DEF EditsOK, Becomes
  <2>2. PICK n \in DOMAIN articles :
          /\ req[s].id = DetailKey(n)
          /\ req[s].topic = {Rewrite(n)}
          /\ req[s].at = "write" =>
               /\ req[s].data.part \in {"title", "content"}
               /\ req[s].data.search \in Nat \X Nat
               /\ Raced(n) \/ req[s].data.search = SearchText(articles[n], req[s].data.part)
    BY <2>1 DEF RequestInv, EditsOK, EditOK
  <2>3. n \in DOMAIN articles'
    BY DEF ArticlesStayBut
  <2>4. Raced(n) => Raced(n)'
    BY DEF Raced
  <2>5. \/ articles'[n].title = articles[n].title /\ articles'[n].content = articles[n].content
        \/ Raced(n)
    BY <2>1, <2>2 DEF ArticlesStayBut
  <2>6. Raced(n) \/ SearchText(articles[n], req[s].data.part) = SearchText(articles'[n], req[s].data.part)
    BY <2>5 DEF SearchText
  <2>7. /\ req'[s].id = DetailKey(n)
        /\ req'[s].topic = {Rewrite(n)}
        /\ req'[s].at = "write" =>
               /\ req'[s].data.part \in {"title", "content"}
               /\ req'[s].data.search \in Nat \X Nat
               /\ Raced(n)' \/ req'[s].data.search = SearchText(articles'[n], req'[s].data.part)
    BY <1>1, <2>2, <2>4, <2>6
  <2>8. QED
    BY <2>3, <2>7 DEF EditOK, DetailKey, Rewrite, SearchText, Raced
<1>6. RewritesRaced'
  <2>1. SUFFICES ASSUME NEW s \in Requests, NEW t \in Requests, s # t,
                        req'[s].op = "edit", req'[t].op = "edit", req'[s].id = req'[t].id
                 PROVE  {Rewrite(req'[s].id[2])} \in raced'
    BY DEF RewritesRaced, Raced, Rewrite
  <2>2. CASE s # r /\ t # r
    BY <1>1, <2>1, <2>2 DEF RequestInv, RewritesRaced, Raced, Rewrite
  <2>3. CASE s = r
    BY <1>1, <2>1, <2>3 DEF Becomes, Raced, Rewrite
  <2>4. CASE t = r
    BY <1>1, <2>1, <2>4 DEF Becomes, Raced, Rewrite
  <2>5. QED
    BY <2>2, <2>3, <2>4
<1>7. QED
  BY <1>2, <1>3, <1>4, <1>5, <1>6 DEF RequestInv

\* A step that only moves requests and the cache, and answers.
LEMMA TablesKept ==
  ASSUME NewsTablesOK, UniqueMarks, SearchTextFresh,
         UNCHANGED newsTables, ToldOK', raced \subseteq raced'
  PROVE  (NewsTablesOK /\ UniqueMarks /\ ToldOK /\ SearchTextFresh)'
<1>1. UNCHANGED <<articles, comments, marks>>
  BY DEF newsTables
<1>2. NewsTablesOK' /\ UniqueMarks'
  BY <1>1 DEF NewsTablesOK, UniqueMarks
<1>3. SearchTextFresh'
  BY <1>1 DEF SearchTextFresh
<1>4. QED
  BY <1>2, <1>3

LEMMA ToldKept ==
  ASSUME ToldOK, told' = told
  PROVE  ToldOK'
BY DEF ToldOK

TableInv == NewsTablesOK /\ UniqueMarks /\ ToldOK /\ SearchTextFresh

LEMMA Seen ==
  ASSUME UNCHANGED newsTables, NEW r \in Requests
  PROVE  MarksGrow /\ ArticlesStayBut(r)
BY DEF newsTables, MarksGrow, ArticlesStayBut

LEMMA LeaveBecomes ==
  ASSUME RequestInv, NEW r \in Requests, Leave(r)
  PROVE  Becomes(r) /\ raced \subseteq raced'
<1>1. req' = [req EXCEPT ![r] = Idle] /\ raced' = raced
  BY LeaveFacts
<1>2. req'[r] = Idle
  BY <1>1 DEF RequestInv, NewsRequestsOK
<1>3. req'[r].op = "none" /\ DOMAIN Idle = {"op", "at", "topic", "id", "data"}
  BY <1>2 DEF Idle
<1>4. QED
  BY <1>1, <1>2, <1>3 DEF Becomes, RequestInv, NewsRequestsOK

LEMMA LeaveKeeps ==
  ASSUME NewsInv, NEW r \in Requests, Leave(r), UNCHANGED newsTables, ToldOK'
  PROVE  NewsInv'
<1>1. RequestInv /\ TableInv
  BY DEF NewsInv, RequestInv, TableInv
<1>2. Becomes(r) /\ raced \subseteq raced'
  BY <1>1, LeaveBecomes
<1>3. RequestInv'
  BY <1>1, <1>2, Seen, RequestsKept
<1>4. TableInv'
  BY <1>1, <1>2, TablesKept, ToldKept DEF TableInv
<1>5. QED
  BY <1>3, <1>4 DEF NewsInv, RequestInv, TableInv

\* A request that goes on: what it is about stays.
LEMMA GotoBecomes ==
  ASSUME RequestInv, NEW r \in Requests, NEW step, NEW locals, Goto(r, step, locals),
         req[r].op \notin {"toggle", "comment"}, req[r].op = "edit" => step # "write",
         DOMAIN articles \subseteq DOMAIN articles'
  PROVE  Becomes(r) /\ raced \subseteq raced'
<1>1. /\ req' = [req EXCEPT ![r] = [req[r] EXCEPT !.at = step, !.data = locals]]
      /\ raced' = raced
  BY GotoFacts DEF RequestInv
<1>2. /\ DOMAIN [req[r] EXCEPT !.at = step, !.data = locals] = {"op", "at", "topic", "id", "data"}
      /\ req'[r].op = req[r].op /\ req'[r].id = req[r].id /\ req'[r].topic = req[r].topic
      /\ req'[r].at = step
  BY <1>1 DEF RequestInv, NewsRequestsOK
<1>3. ASSUME req'[r].op = "edit"
      PROVE  EditOK(req[r])'
  <2>1. PICK n \in DOMAIN articles : req[r].id = DetailKey(n) /\ req[r].topic = {Rewrite(n)}
    BY <1>2, <1>3 DEF RequestInv, EditsOK, EditOK
  <2>2. /\ n \in DOMAIN articles' /\ req'[r].id = DetailKey(n) /\ req'[r].topic = {Rewrite(n)}
        /\ req'[r].at # "write"
    BY <1>2, <1>3, <2>1
  <2>3. QED
    BY <2>2 DEF EditOK, DetailKey, Rewrite
<1>4. ASSUME req'[r].op = "edit",
             NEW s \in Requests \ {r}, req[s].op = "edit", req[s].id = req'[r].id
      PROVE  Raced(req[s].id[2])'
  BY <1>1, <1>2, <1>4 DEF RequestInv, RewritesRaced, Raced, Rewrite
<1>5. QED
  BY <1>1, <1>2, <1>3, <1>4 DEF Becomes, RequestInv, NewsRequestsOK

LEMMA GotoKeeps ==
  ASSUME NewsInv, NEW r \in Requests, NEW step, NEW locals, Goto(r, step, locals),
         req[r].op \notin {"toggle", "comment"}, req[r].op = "edit" => step # "write",
         UNCHANGED <<newsTables, told>>
  PROVE  NewsInv'
<1>1. RequestInv /\ TableInv
  BY DEF NewsInv, RequestInv, TableInv
<1>2. DOMAIN articles \subseteq DOMAIN articles'
  BY DEF newsTables
<1>3. Becomes(r) /\ raced \subseteq raced'
  BY <1>1, <1>2, GotoBecomes
<1>4. RequestInv'
  BY <1>1, <1>3, Seen, RequestsKept
<1>5. TableInv'
  BY <1>1, <1>3, TablesKept, ToldKept DEF TableInv
<1>6. QED
  BY <1>4, <1>5 DEF NewsInv, RequestInv, TableInv

LEMMA Indices ==
  ASSUME NewsTablesOK
  PROVE  /\ DOMAIN articles \subseteq Nat /\ DOMAIN comments \subseteq Nat /\ DOMAIN marks \subseteq Nat
         /\ \A n \in DOMAIN articles : articles[n] \in ArticleRows
         /\ \A n \in DOMAIN comments : comments[n] \in CommentRows
         /\ \A n \in DOMAIN marks : marks[n] \in MarkRows
<1>1. DOMAIN articles = 1..Len(articles) /\ DOMAIN comments = 1..Len(comments)
      /\ DOMAIN marks = 1..Len(marks)
  BY DEF NewsTablesOK
<1>2. QED
  BY <1>1 DEF NewsTablesOK

LEMMA RecordedOverlap ==
  ASSUME NEW n, NEW s \in Requests, req[s].topic = {Rewrite(n)}
  PROVE  {Rewrite(n)} \in Overlaps({Rewrite(n)})
<1> DEFINE p == <<Rewrite(n), Rewrite(n)>>
<1>1. Rewrite(n) \in UNION {req[r].topic : r \in Requests}
  OBVIOUS
<1>2. p \in {Rewrite(n)} \X UNION {req[r].topic : r \in Requests}
  BY <1>1
<1>3. p[1][1] = "rewrite" /\ p[2][1] = "rewrite" /\ p[1][2] = n /\ p[2][2] = n
  BY DEF Rewrite
<1>4. {p[1][1], p[2][1]} = {"rewrite"}
  BY <1>3
<1>5. {"rewrite"} \in Clashes
  BY DEF Clashes
<1>6. {p[1][1], p[2][1]} \in Clashes /\ p[1][2] = p[2][2]
  BY <1>3, <1>4, <1>5
<1>7. {p[1], p[2]} \in Overlaps({Rewrite(n)})
  <2> HIDE DEF p
  <2>1. QED
    BY <1>2, <1>6 DEF Overlaps
<1>8. {p[1], p[2]} = {Rewrite(n)}
  OBVIOUS
<1>9. QED
  BY <1>7, <1>8

\* A request that starts, whatever it is about.
LEMMA StartsWell ==
  ASSUME NewsInv, NEW r \in Requests, NEW q, Start(r, q), UNCHANGED <<newsTables, told>>,
         DOMAIN q = {"op", "at", "topic", "id", "data"},
         q.op = "toggle" => ToggleOK(q),
         q.op = "comment" => CommentOK(q),
         q.op = "edit" => EditOK(q)
  PROVE  NewsInv'
<1>1. RequestInv /\ TableInv
  BY DEF NewsInv, RequestInv, TableInv
<1>2. req' = [req EXCEPT ![r] = q] /\ raced' = raced \union Overlaps(q.topic)
  BY StartFacts
<1>3. /\ DOMAIN req' = Requests /\ \A s \in Requests \ {r} : req'[s] = req[s]
      /\ req'[r] = q
  BY <1>1, <1>2 DEF RequestInv, NewsRequestsOK
<1>4. UNCHANGED <<articles, comments, marks>>
  BY DEF newsTables
<1>5. ASSUME req'[r].op = "toggle"
      PROVE  ToggleOK(req[r])'
  BY <1>3, <1>4, <1>5 DEF ToggleOK, LikeKnown
<1>6. ASSUME req'[r].op = "comment"
      PROVE  CommentOK(req[r])'
  BY <1>3, <1>6 DEF CommentOK
<1>7. ASSUME q.op = "edit"
      PROVE  /\ EditOK(req[r])'
             /\ \A s \in Requests \ {r} :
                  req[s].op = "edit" /\ req[s].id = q.id => Raced(req[s].id[2])'
  <2>1. PICK n \in DOMAIN articles :
          /\ q.id = DetailKey(n)
          /\ q.topic = {Rewrite(n)}
          /\ q.at = "write" =>
               /\ q.data.part \in {"title", "content"}
               /\ q.data.search \in Nat \X Nat
               /\ Raced(n) \/ q.data.search = SearchText(articles[n], q.data.part)
    BY <1>7 DEF EditOK
  <2>2. EditOK(req[r])'
    <3>1. Raced(n) => Raced(n)'
      BY <1>2 DEF Raced, Rewrite
    <3>2. QED
      BY <1>3, <1>4, <2>1, <3>1 DEF EditOK, DetailKey, Rewrite, SearchText, Raced
  <2>3. ASSUME NEW s \in Requests \ {r}, req[s].op = "edit", req[s].id = q.id
        PROVE  Raced(req[s].id[2])'
    <3>1. PICK m \in DOMAIN articles : req[s].id = DetailKey(m) /\ req[s].topic = {Rewrite(m)}
      BY <1>1, <2>3 DEF RequestInv, EditsOK, EditOK
    <3>2. m = n /\ req[s].id[2] = n
      BY <2>1, <2>3, <3>1 DEF DetailKey
    <3>3. {Rewrite(n)} \in Overlaps({Rewrite(n)})
      BY <3>1, <3>2, RecordedOverlap
    <3>4. {Rewrite(n)} \in raced'
      BY <1>2, <2>1, <3>3
    <3>5. QED
      BY <1>3, <3>2, <3>4 DEF Raced, Rewrite
  <2>4. QED
    BY <2>2, <2>3
<1>8. Becomes(r)
  BY <1>3, <1>5, <1>6, <1>7 DEF Becomes
<1>9. RequestInv'
  BY <1>1, <1>2, <1>8, Seen, RequestsKept
<1>10. TableInv'
  BY <1>1, <1>2, TablesKept, ToldKept DEF TableInv
<1>11. QED
  BY <1>9, <1>10 DEF NewsInv, RequestInv, TableInv

\* A step of no request in flight.
LEMMA NoneMoves ==
  ASSUME RequestInv, UNCHANGED <<req, raced>>, MarksGrow,
         DOMAIN articles \subseteq DOMAIN articles',
         \A n \in DOMAIN articles : /\ articles'[n].title = articles[n].title
                                    /\ articles'[n].content = articles[n].content
  PROVE  RequestInv'
<1>1. CASE Requests = {}
  BY <1>1 DEF RequestInv, NewsRequestsOK, TogglesOK, CommentsOK, EditsOK, RewritesRaced
<1>2. CASE Requests # {}
  <2>1. PICK r \in Requests : TRUE
    BY <1>2
  <2>2. ArticlesStayBut(r)
    BY DEF ArticlesStayBut
  <2>3. /\ DOMAIN req' = Requests /\ \A s \in Requests : req'[s] = req[s]
        /\ DOMAIN req'[r] = {"op", "at", "topic", "id", "data"}
    BY DEF RequestInv, NewsRequestsOK
  <2>4. req'[r].op = "toggle" => ToggleOK(req[r])'
    BY DEF RequestInv, TogglesOK, ToggleOK, LikeKnown, MarksGrow
  <2>5. req'[r].op = "edit" => EditOK(req[r])'
    <3>1. SUFFICES ASSUME req[r].op = "edit" PROVE EditOK(req[r])'
      OBVIOUS
    <3>2. PICK n \in DOMAIN articles :
            /\ req[r].id = DetailKey(n)
            /\ req[r].topic = {Rewrite(n)}
            /\ req[r].at = "write" =>
                 /\ req[r].data.part \in {"title", "content"}
                 /\ req[r].data.search \in Nat \X Nat
                 /\ Raced(n) \/ req[r].data.search = SearchText(articles[n], req[r].data.part)
      BY <3>1 DEF RequestInv, EditsOK, EditOK
    <3>3. SearchText(articles[n], req[r].data.part) = SearchText(articles'[n], req[r].data.part)
      BY DEF SearchText
    <3>4. n \in DOMAIN articles'
      OBVIOUS
    <3>5. QED
      BY <3>2, <3>3, <3>4 DEF EditOK, DetailKey, Rewrite, SearchText, Raced
  <2>6. ASSUME req'[r].op = "edit",
               NEW s \in Requests \ {r}, req[s].op = "edit", req[s].id = req'[r].id
        PROVE  Raced(req[s].id[2])'
    BY <2>6 DEF RequestInv, RewritesRaced, Raced, Rewrite
  <2>7. Becomes(r)
    BY <2>3, <2>4, <2>5, <2>6 DEF Becomes, RequestInv, CommentsOK, CommentOK
  <2>8. QED
    BY <2>2, <2>7, RequestsKept
<1>3. QED
  BY <1>1, <1>2

-----------------------------------------------------------------------------
(* The steps.                                                              *)

\* Readers and invalidations touch requests and the cache only.
QuietSteps(r) ==
  \/ \E q \in Lists : FindAll(r, q)
  \/ CreateArticle(r)
  \/ \E n \in DOMAIN articles : FindOne(r, n) \/ RemoveArticle(r, n)
  \/ Read(r) \/ Set(r) \/ Track(r) \/ DropDetail(r) \/ DropLists(r) \/ ClearKeys(r)

LEMMA QuietStepsKeep ==
  ASSUME NewsInv, NEW r \in Requests, QuietSteps(r)
  PROVE  NewsInv'
<1>1. UNCHANGED <<newsTables, told>>
  BY DEF QuietSteps, FindAll, CreateArticle, FindOne, RemoveArticle, Read, Set, Track,
         DropDetail, DropLists, ClearKeys, newsVars
<1>2. CASE Leave(r)
  BY <1>1, <1>2, LeaveKeeps, ToldKept DEF NewsInv
<1>3. ASSUME NEW step, NEW locals, Goto(r, step, locals), step # "write" \/ req[r].op = "remove",
             req[r].at \notin {"mark", "answer", "insert"}
      PROVE  NewsInv'
  <2>1. req[r].op \notin {"toggle", "comment"}
    BY <1>3 DEF NewsInv, TogglesOK, ToggleOK, CommentsOK, CommentOK
  <2>2. QED
    BY <1>1, <1>3, <2>1, GotoKeeps
<1>4. ASSUME NEW q, Start(r, q), DOMAIN q = {"op", "at", "topic", "id", "data"},
             q.op \notin {"toggle", "comment", "edit"}
      PROVE  NewsInv'
  BY <1>1, <1>4, StartsWell
<1>5. ASSUME NEW q \in Lists, FindAll(r, q)
      PROVE  NewsInv'
  BY <1>4, <1>5 DEF FindAll, Idle
<1>6. CASE CreateArticle(r)
  BY <1>4, <1>6 DEF CreateArticle, Idle
<1>7. ASSUME NEW n \in DOMAIN articles, FindOne(r, n)
      PROVE  NewsInv'
  BY <1>4, <1>7 DEF FindOne, Idle
<1>8. ASSUME NEW n \in DOMAIN articles, RemoveArticle(r, n)
      PROVE  NewsInv'
  <2> DEFINE q == [Idle EXCEPT !.op = "remove", !.id = DetailKey(n),
                               !.at = IF Cached(DetailKey(n)) THEN "write" ELSE "read"]
  <2>1. Start(r, q)
    BY <1>8 DEF RemoveArticle
  <2>2. DOMAIN q = {"op", "at", "topic", "id", "data"} /\ q.op = "remove"
    BY DEF Idle
  <2>3. QED
    BY <1>4, <2>1, <2>2
<1>9. CASE Read(r)
  BY <1>2, <1>3, <1>9 DEF Read
<1>10. CASE Set(r)
  BY <1>2, <1>3, <1>10 DEF Set
<1>11. CASE Track(r) \/ ClearKeys(r)
  BY <1>2, <1>11 DEF Track, ClearKeys
<1>12. CASE DropDetail(r)
  BY <1>2, <1>3, <1>12 DEF DropDetail
<1>13. CASE DropLists(r)
  BY <1>3, <1>13 DEF DropLists
<1>14. QED
  BY <1>5, <1>6, <1>7, <1>8, <1>9, <1>10, <1>11, <1>12, <1>13 DEF QuietSteps

\* So do expiry and a restart, of the cache and of its keys.
LEMMA CacheStepsKeep ==
  ASSUME NewsInv, NewsRestart \/ \E k \in DOMAIN cache : Expire(k)
  PROVE  NewsInv'
<1>1. UNCHANGED <<newsTables, told>> /\ UNCHANGED <<req, raced>>
  BY DEF NewsRestart, Expire, Once, flight
<1>2. RequestInv /\ TableInv
  BY DEF NewsInv, RequestInv, TableInv
<1>3. RequestInv'
  BY <1>1, <1>2, NoneMoves DEF newsTables, MarksGrow
<1>4. TableInv'
  BY <1>1, <1>2, TablesKept, ToldKept DEF TableInv
<1>5. QED
  BY <1>3, <1>4 DEF NewsInv, RequestInv, TableInv

LEMMA UpdateArticleKeeps ==
  ASSUME NewsInv, NEW r \in Requests, NEW n \in DOMAIN articles, NEW part \in {"title", "content"},
         UpdateArticle(r, n, part)
  PROVE  NewsInv'
<1> DEFINE q == [Idle EXCEPT !.op = "edit", !.at = "write", !.id = DetailKey(n),
                             !.topic = {Rewrite(n)},
                             !.data = [part |-> part, search |-> SearchText(articles[n], part)]]
<1>1. Start(r, q) /\ UNCHANGED <<newsTables, told>>
  BY DEF UpdateArticle, Rewrite, newsVars
<1>2. SearchText(articles[n], part) \in Nat \X Nat
  BY Indices DEF SearchText, ArticleRows, NewsInv
<1>3. /\ q.op = "edit" /\ q.at = "write" /\ q.id = DetailKey(n) /\ q.topic = {Rewrite(n)}
      /\ q.data.part = part /\ q.data.search = SearchText(articles[n], part)
      /\ DOMAIN q = {"op", "at", "topic", "id", "data"}
  BY DEF Idle
<1> HIDE DEF q
<1>4. EditOK(q)
  BY <1>2, <1>3 DEF EditOK
<1>5. QED
  BY <1>1, <1>3, <1>4, StartsWell

LEMMA ToggleKeeps ==
  ASSUME NewsInv, NEW r \in Requests, NEW kind \in {"bookmark", "like"}, NEW u \in Users, NEW n,
         Toggle(r, kind, u, n)
  PROVE  NewsInv'
<1> DEFINE m == Mark(kind, u, n)
           q == [Idle EXCEPT !.op = "toggle", !.at = "mark", !.id = m, !.data = RowsOfMark(m)]
<1>1. Start(r, q) /\ UNCHANGED <<newsTables, told>>
  BY DEF Toggle, newsVars
<1>2. m \in Marks /\ LikeKnown(m)
  BY Indices DEF Toggle, Mark, Marks, LikeKnown, Live, NewsInv
<1>3. RowsOfMark(m) \subseteq DOMAIN marks /\ \A i \in RowsOfMark(m) : marks[i].mark = m
  BY DEF RowsOfMark, Live
<1>4. /\ q.op = "toggle" /\ q.at = "mark" /\ q.id = m /\ q.data = RowsOfMark(m)
      /\ DOMAIN q = {"op", "at", "topic", "id", "data"}
  BY DEF Idle
<1> HIDE DEF q, m
<1>5. ToggleOK(q)
  BY <1>2, <1>3, <1>4 DEF ToggleOK
<1>6. QED
  BY <1>1, <1>4, <1>5, StartsWell

LEMMA AddCommentKeeps ==
  ASSUME NewsInv, NEW r \in Requests, NEW n \in DOMAIN articles,
         NEW parent \in (DOMAIN comments) \union {None}, AddComment(r, n, parent)
  PROVE  NewsInv'
<1> DEFINE above == IF parent = None THEN None ELSE TopOf(parent)
           q == [Idle EXCEPT !.op = "comment", !.at = "insert", !.id = n, !.data = above]
<1>1. Start(r, q) /\ UNCHANGED <<newsTables, told>>
  BY DEF AddComment, newsVars
<1>2. n \in Nat /\ above \in Nat \union {None}
  <2>1. parent # None => parent \in Nat /\ comments[parent].parent \in Nat \union {None}
    BY Indices DEF CommentRows, NewsInv
  <2>2. QED
    BY <2>1, Indices DEF TopOf, NewsInv
<1>3. /\ q.op = "comment" /\ q.at = "insert" /\ q.id = n /\ q.data = above
      /\ DOMAIN q = {"op", "at", "topic", "id", "data"}
  BY DEF Idle
<1> HIDE DEF q, above
<1>4. CommentOK(q)
  BY <1>2, <1>3 DEF CommentOK
<1>5. QED
  BY <1>1, <1>3, <1>4, StartsWell

LEMMA ArticlesChange ==
  ASSUME TableInv, UNCHANGED <<comments, marks, told>>,
         articles' \in Seq(ArticleRows), SearchTextFresh'
  PROVE  TableInv'
<1>1. NewsTablesOK' /\ UniqueMarks' /\ ToldOK'
  BY ToldKept DEF TableInv, NewsTablesOK, UniqueMarks
<1>2. QED
  BY <1>1 DEF TableInv

LEMMA WriteOfCreate ==
  ASSUME NewsInv, NEW r \in Requests, WriteArticle(r), req[r].op = "create"
  PROVE  NewsInv'
<1> DEFINE new == [live |-> TRUE, title |-> 0, content |-> 0, search |-> <<0, 0>>, views |-> 0]
<1>1. RequestInv /\ TableInv
  BY DEF NewsInv, RequestInv, TableInv
<1>2. articles' = Append(articles, new) /\ Goto(r, "lists", None) /\ UNCHANGED <<comments, marks, told>>
  BY DEF WriteArticle
<1>3. new \in ArticleRows /\ articles \in Seq(ArticleRows)
  BY <1>1 DEF ArticleRows, TableInv, NewsTablesOK
<1>4. /\ articles' \in Seq(ArticleRows)
      /\ DOMAIN articles' = (DOMAIN articles) \union {Len(articles) + 1}
      /\ articles'[Len(articles) + 1] = new
      /\ \A n \in DOMAIN articles : articles'[n] = articles[n]
  <2> HIDE DEF new
  <2>1. QED
    BY <1>2, <1>3, AppendFacts
<1>5. MarksGrow /\ ArticlesStayBut(r)
  BY <1>2, <1>4 DEF MarksGrow, ArticlesStayBut
<1>6. Becomes(r) /\ raced' = raced
  BY <1>1, <1>2, <1>4, GotoBecomes DEF Goto
<1>7. SearchTextFresh'
  <2>1. new.search = <<new.title, new.content>>
    OBVIOUS
  <2>2. QED
    BY <1>1, <1>4, <1>6, <2>1 DEF SearchTextFresh, TableInv
<1>8. QED
  BY <1>1, <1>2, <1>4, <1>5, <1>6, <1>7, RequestsKept, ArticlesChange DEF NewsInv, RequestInv, TableInv

\* What the update has read is what is stored, unless it was overlapped.
LEMMA WriteOfEdit ==
  ASSUME NewsInv, NEW r \in Requests, WriteArticle(r), req[r].op = "edit"
  PROVE  NewsInv'
<1>1. RequestInv /\ TableInv
  BY DEF NewsInv, RequestInv, TableInv
<1>2. PICK n \in DOMAIN articles :
        /\ req[r].id = DetailKey(n)
        /\ req[r].data.part \in {"title", "content"}
        /\ req[r].data.search \in Nat \X Nat
        /\ Raced(n) \/ req[r].data.search = SearchText(articles[n], req[r].data.part)
  BY <1>1 DEF RequestInv, EditsOK, EditOK, WriteArticle
<1> DEFINE d == req[r].data
           new == [articles[n] EXCEPT
                     !.search = d.search,
                     !.title = IF d.part = "title" THEN d.search[1] ELSE articles[n].title,
                     !.content = IF d.part = "content" THEN d.search[2] ELSE articles[n].content]
<1>3. articles' = [articles EXCEPT ![n] = new] /\ Goto(r, "detail", None) /\ UNCHANGED <<comments, marks, told>>
  BY <1>2 DEF WriteArticle, DetailKey
<1>4. articles[n] \in ArticleRows /\ articles \in Seq(ArticleRows)
  BY <1>1, Indices DEF TableInv, NewsTablesOK
<1>5. /\ new \in ArticleRows
      /\ new.search = d.search
      /\ new.title = IF d.part = "title" THEN d.search[1] ELSE articles[n].title
      /\ new.content = IF d.part = "content" THEN d.search[2] ELSE articles[n].content
  BY <1>2, <1>4 DEF ArticleRows
<1> HIDE DEF new, d
<1>6. /\ articles' \in Seq(ArticleRows) /\ DOMAIN articles' = DOMAIN articles
      /\ articles'[n] = new
      /\ \A k \in DOMAIN articles : k # n => articles'[k] = articles[k]
  BY <1>3, <1>4, <1>5
<1>7. ASSUME NEW s \in Requests \ {r}, req[s].op = "edit", req[s].id = DetailKey(n)
      PROVE  Raced(n)
  <2>1. Raced(req[r].id[2])
    BY <1>1, <1>2, <1>7 DEF RequestInv, RewritesRaced
  <2>2. QED
    BY <1>2, <2>1 DEF DetailKey
<1>8. MarksGrow /\ ArticlesStayBut(r)
  BY <1>3, <1>6, <1>7 DEF MarksGrow, ArticlesStayBut
<1>9. Becomes(r) /\ raced' = raced
  <2>1. Goto(r, "detail", None) /\ req[r].op \notin {"toggle", "comment"} /\ "detail" # "write"
        /\ DOMAIN articles \subseteq DOMAIN articles'
    BY <1>3, <1>6
  <2>2. Becomes(r)
    BY <1>1, <2>1, GotoBecomes
  <2>3. QED
    BY <2>1, <2>2 DEF Goto
<1>10. Raced(n) \/ new.search = <<new.title, new.content>>
  BY <1>2, <1>5 DEF SearchText, d
<1>11. SearchTextFresh'
  <2>1. SUFFICES ASSUME NEW k \in DOMAIN articles', {<<"rewrite", k>>} \notin raced
                 PROVE  articles'[k].search = <<articles'[k].title, articles'[k].content>>
    BY <1>9 DEF SearchTextFresh
  <2>2. CASE k = n
    BY <1>6, <1>10, <2>1, <2>2 DEF Raced, Rewrite
  <2>3. CASE k # n
    BY <1>1, <1>6, <2>1, <2>3 DEF TableInv, SearchTextFresh
  <2>4. QED
    BY <2>2, <2>3
<1>12. QED
  BY <1>1, <1>3, <1>6, <1>8, <1>9, <1>11, RequestsKept, ArticlesChange
     DEF NewsInv, RequestInv, TableInv

LEMMA WriteOfRemove ==
  ASSUME NewsInv, NEW r \in Requests, WriteArticle(r), req[r].op = "remove"
  PROVE  NewsInv'
<1>1. RequestInv /\ TableInv
  BY DEF NewsInv, RequestInv, TableInv
<1>2. articles' = Kill(articles, {req[r].id[2]}) /\ Goto(r, "detail", None)
      /\ UNCHANGED <<comments, marks, told>>
  BY DEF WriteArticle
<1>3. articles \in Seq(ArticleRows) /\ \A row \in ArticleRows : [row EXCEPT !.live = FALSE] \in ArticleRows
  BY <1>1 DEF ArticleRows, TableInv, NewsTablesOK
<1>4. /\ articles' \in Seq(ArticleRows) /\ DOMAIN articles' = DOMAIN articles
      /\ \A n \in DOMAIN articles : articles'[n] = articles[n] \/ articles'[n] = [articles[n] EXCEPT !.live = FALSE]
  <2> DEFINE S == {req[r].id[2]}
  <2> HIDE DEF S
  <2>1. /\ Kill(articles, S) \in Seq(ArticleRows)
        /\ DOMAIN Kill(articles, S) = DOMAIN articles
        /\ \A n \in DOMAIN articles :
             Kill(articles, S)[n] = IF n \in S THEN [articles[n] EXCEPT !.live = FALSE] ELSE articles[n]
    BY <1>3, KillFacts
  <2>2. articles' = Kill(articles, S)
    BY <1>2 DEF S
  <2>3. QED
    BY <2>1, <2>2
<1>5. \A n \in DOMAIN articles : /\ articles'[n].title = articles[n].title
                                 /\ articles'[n].content = articles[n].content
                                 /\ articles'[n].search = articles[n].search
  BY <1>1, <1>4, Indices DEF ArticleRows, TableInv
<1>6. MarksGrow /\ ArticlesStayBut(r)
  BY <1>2, <1>4, <1>5 DEF MarksGrow, ArticlesStayBut
<1>7. Becomes(r) /\ raced' = raced
  BY <1>1, <1>2, <1>4, GotoBecomes DEF Goto
<1>8. SearchTextFresh'
  BY <1>1, <1>4, <1>5, <1>7 DEF SearchTextFresh, TableInv
<1>9. QED
  BY <1>1, <1>2, <1>4, <1>6, <1>7, <1>8, RequestsKept, ArticlesChange
     DEF NewsInv, RequestInv, TableInv

LEMMA IncrementViewKeeps ==
  ASSUME NewsInv, NEW r \in Requests, NEW n \in DOMAIN articles, IncrementView(r, n)
  PROVE  NewsInv'
<1> DEFINE q == [Idle EXCEPT !.op = "view", !.at = "detail", !.id = DetailKey(n)]
           new == [articles[n] EXCEPT !.views = articles[n].views + 1]
<1>1. RequestInv /\ TableInv
  BY DEF NewsInv, RequestInv, TableInv
<1>2. articles' = [articles EXCEPT ![n] = new] /\ Start(r, q) /\ UNCHANGED <<comments, marks, told>>
  BY DEF IncrementView
<1>3. articles[n] \in ArticleRows /\ articles \in Seq(ArticleRows)
  BY <1>1, Indices DEF TableInv, NewsTablesOK
<1>4. new \in ArticleRows /\ new.title = articles[n].title /\ new.content = articles[n].content
      /\ new.search = articles[n].search
  <2>1. articles[n].views + 1 \in Nat
    BY <1>3 DEF ArticleRows
  <2> DEFINE v == articles[n].views + 1
             row == articles[n]
  <2>2. v \in Nat /\ row \in ArticleRows
    BY <1>3, <2>1
  <2> HIDE DEF v, row
  <2>3. /\ [row EXCEPT !.views = v] \in ArticleRows
        /\ [row EXCEPT !.views = v].title = row.title
        /\ [row EXCEPT !.views = v].content = row.content
        /\ [row EXCEPT !.views = v].search = row.search
    BY <2>2 DEF ArticleRows
  <2>4. QED
    BY <2>3 DEF v, row
<1>5. DOMAIN q = {"op", "at", "topic", "id", "data"} /\ q.op = "view" /\ q.topic = {}
  BY DEF Idle
<1> HIDE DEF q, new
<1>6. /\ articles' \in Seq(ArticleRows) /\ DOMAIN articles' = DOMAIN articles
      /\ \A k \in DOMAIN articles : /\ articles'[k].title = articles[k].title
                                    /\ articles'[k].content = articles[k].content
                                    /\ articles'[k].search = articles[k].search
  BY <1>2, <1>3, <1>4
<1>7. req' = [req EXCEPT ![r] = q] /\ raced \subseteq raced'
  BY <1>2, StartFacts
<1>8. /\ DOMAIN req' = Requests /\ \A s \in Requests \ {r} : req'[s] = req[s]
      /\ req'[r] = q
  BY <1>1, <1>7 DEF RequestInv, NewsRequestsOK
<1>9. Becomes(r)
  BY <1>5, <1>8 DEF Becomes
<1>10. MarksGrow /\ ArticlesStayBut(r)
  BY <1>2, <1>6 DEF MarksGrow, ArticlesStayBut
<1>11. SearchTextFresh'
  BY <1>1, <1>6, <1>7 DEF SearchTextFresh, TableInv
<1>12. QED
  BY <1>1, <1>2, <1>6, <1>7, <1>9, <1>10, <1>11, RequestsKept, ArticlesChange
     DEF NewsInv, RequestInv, TableInv

-----------------------------------------------------------------------------
(* Marks and comments.                                                     *)

LEMMA KillMarks ==
  ASSUME NewsTablesOK, NEW S
  PROVE  /\ Kill(marks, S) \in Seq(MarkRows)
         /\ DOMAIN Kill(marks, S) = DOMAIN marks
         /\ \A i \in DOMAIN marks :
              /\ Kill(marks, S)[i].mark = marks[i].mark
              /\ Kill(marks, S)[i].live = (marks[i].live /\ i \notin S)
<1>1. marks \in Seq(MarkRows) /\ \A row \in MarkRows : [row EXCEPT !.live = FALSE] \in MarkRows
  BY DEF NewsTablesOK, MarkRows
<1>2. /\ Kill(marks, S) \in Seq(MarkRows)
      /\ DOMAIN Kill(marks, S) = DOMAIN marks
      /\ \A i \in DOMAIN marks :
           Kill(marks, S)[i] = IF i \in S THEN [marks[i] EXCEPT !.live = FALSE] ELSE marks[i]
  BY <1>1, KillFacts
<1>3. ASSUME NEW i \in DOMAIN marks
      PROVE  /\ Kill(marks, S)[i].mark = marks[i].mark
             /\ Kill(marks, S)[i].live = (marks[i].live /\ i \notin S)
  <2>1. marks[i] \in MarkRows
    BY Indices
  <2>2. CASE i \in S
    BY <1>2, <2>1, <2>2 DEF MarkRows
  <2>3. CASE i \notin S
    BY <1>2, <2>1, <2>3 DEF MarkRows
  <2>4. QED
    BY <2>2, <2>3
<1>4. QED
  BY <1>2, <1>3

LEMMA KillComments ==
  ASSUME NewsTablesOK, NEW S
  PROVE  /\ Kill(comments, S) \in Seq(CommentRows)
         /\ DOMAIN Kill(comments, S) = DOMAIN comments
         /\ \A c \in DOMAIN comments :
              /\ Kill(comments, S)[c].parent = comments[c].parent
              /\ Kill(comments, S)[c].live = (comments[c].live /\ c \notin S)
<1>1. /\ comments \in Seq(CommentRows)
      /\ \A row \in CommentRows : [row EXCEPT !.live = FALSE] \in CommentRows
  BY DEF NewsTablesOK, CommentRows
<1>2. /\ Kill(comments, S) \in Seq(CommentRows)
      /\ DOMAIN Kill(comments, S) = DOMAIN comments
      /\ \A c \in DOMAIN comments :
           Kill(comments, S)[c] = IF c \in S THEN [comments[c] EXCEPT !.live = FALSE] ELSE comments[c]
  BY <1>1, KillFacts
<1>3. ASSUME NEW c \in DOMAIN comments
      PROVE  /\ Kill(comments, S)[c].parent = comments[c].parent
             /\ Kill(comments, S)[c].live = (comments[c].live /\ c \notin S)
  <2>1. comments[c] \in CommentRows
    BY Indices
  <2>2. CASE c \in S
    BY <1>2, <2>1, <2>2 DEF CommentRows
  <2>3. CASE c \notin S
    BY <1>2, <2>1, <2>3 DEF CommentRows
  <2>4. QED
    BY <2>2, <2>3
<1>4. QED
  BY <1>2, <1>3

LEMMA MarksChange ==
  ASSUME TableInv, UNCHANGED articles, raced' = raced,
         marks' \in Seq(MarkRows), comments' \in Seq(CommentRows),
         UniqueMarks', ToldOK'
  PROVE  TableInv'
<1>1. SearchTextFresh'
  BY DEF TableInv, SearchTextFresh
<1>2. QED
  BY <1>1 DEF TableInv, NewsTablesOK

\* What was found is deleted: by the unique key nothing else has that mark.
LEMMA DeleteMark ==
  ASSUME TableInv, NEW m \in Marks, NEW found,
         \A i \in found : marks[i].mark = m,
         found # {}, found \subseteq Live(marks),
         marks' = Kill(marks, found),
         UNCHANGED <<articles, comments, told, raced>>
  PROVE  /\ TableInv' /\ MarksGrow
         /\ RowsOfMark(m) # {} /\ RowsOfMark(m)' = {}
         /\ \A x \in Marks : x # m => RowsOfMark(x)' = RowsOfMark(x)
<1>1. /\ marks' \in Seq(MarkRows)
      /\ DOMAIN marks' = DOMAIN marks
      /\ \A i \in DOMAIN marks :
           /\ marks'[i].mark = marks[i].mark
           /\ marks'[i].live = (marks[i].live /\ i \notin found)
  BY KillMarks DEF TableInv
<1>2. UniqueMarks'
  BY <1>1 DEF TableInv, UniqueMarks
<1>3. PICK j \in found : j \in Live(marks) /\ marks[j].mark = m
  OBVIOUS
<1>4. RowsOfMark(m) # {}
  BY <1>3 DEF RowsOfMark
<1>5. RowsOfMark(m)' = {}
  <2>1. ASSUME NEW i \in DOMAIN marks, marks[i].live, marks[i].mark = m
        PROVE  i \in found
    BY <1>3, <2>1 DEF TableInv, UniqueMarks, Live
  <2>2. QED
    BY <1>1, <2>1 DEF RowsOfMark, Live
<1>6. ASSUME NEW x \in Marks, x # m
      PROVE  RowsOfMark(x)' = RowsOfMark(x)
  BY <1>1, <1>6 DEF RowsOfMark, Live
<1>7. MarksGrow
  BY <1>1 DEF MarksGrow
<1>8. QED
  BY <1>1, <1>2, <1>4, <1>5, <1>6, <1>7, MarksChange, ToldKept DEF TableInv, NewsTablesOK

\* A mark is created where there was none.
LEMMA CreateMark ==
  ASSUME TableInv, NEW m \in Marks, Unique(m),
         marks' = Append(marks, [live |-> TRUE, mark |-> m]),
         UNCHANGED <<articles, comments, told, raced>>
  PROVE  /\ TableInv' /\ MarksGrow
         /\ RowsOfMark(m) = {} /\ RowsOfMark(m)' # {}
         /\ \A x \in Marks : x # m => RowsOfMark(x)' = RowsOfMark(x)
<1> DEFINE new == [live |-> TRUE, mark |-> m]
           last == Len(marks) + 1
<1>1. marks \in Seq(MarkRows) /\ new \in MarkRows /\ new.live = TRUE /\ new.mark = m
  BY DEF TableInv, NewsTablesOK, MarkRows
<1>2. /\ marks' \in Seq(MarkRows)
      /\ last \notin DOMAIN marks
      /\ DOMAIN marks' = (DOMAIN marks) \union {last}
      /\ marks'[last] = new
      /\ \A i \in DOMAIN marks : marks'[i] = marks[i]
  <2> HIDE DEF new
  <2>1. marks' = Append(marks, new)
    BY DEF new
  <2>2. QED
    BY <1>1, <2>1, AppendFacts
<1> HIDE DEF new, last
<1>3. \A i \in DOMAIN marks : marks[i].live => marks[i].mark # m
  BY DEF Unique, RowsOfMark, Live
<1>4. UniqueMarks'
  BY <1>1, <1>2, <1>3 DEF TableInv, UniqueMarks
<1>5. RowsOfMark(m) = {} /\ last \in RowsOfMark(m)'
  BY <1>1, <1>2 DEF RowsOfMark, Live, Unique
<1>6. ASSUME NEW x \in Marks, x # m
      PROVE  RowsOfMark(x)' = RowsOfMark(x)
  BY <1>1, <1>2, <1>6 DEF RowsOfMark, Live
<1>7. MarksGrow
  BY <1>2 DEF MarksGrow
<1>8. QED
  BY <1>2, <1>4, <1>5, <1>6, <1>7, MarksChange, ToldKept DEF TableInv, NewsTablesOK

\* A write of a toggle: refused, a mark gone that was there, or one that was not.
MarkSet(m, b) ==
  /\ (RowsOfMark(m) = {}) = b /\ (RowsOfMark(m) = {})' = ~b
  /\ \A x \in Marks : x # m => RowsOfMark(x)' = RowsOfMark(x)

LEMMA WriteMarkIs ==
  ASSUME NewsInv, NEW r \in Requests, WriteMark(r)
  PROVE  \E m :
           /\ m = req[r].id /\ TableInv' /\ MarksGrow
           /\ \/ Leave(r) /\ UNCHANGED <<newsTables, told>>
              \/ \E b \in BOOLEAN :
                   /\ Goto(r, "answer", b) /\ MarkSet(m, b)
                   /\ \E i \in DOMAIN marks' : marks'[i].mark = m
<1> PICK m : m = req[r].id
  OBVIOUS
<1> DEFINE found == req[r].data
<1>1. RequestInv /\ TableInv
  BY DEF NewsInv, RequestInv, TableInv
<1>2. req[r].at = "mark" /\ ToggleOK(req[r])
  BY <1>1 DEF RequestInv, TogglesOK, WriteMark, Is
<1>3. m \in Marks /\ \A i \in found : marks[i].mark = m
  BY <1>2 DEF ToggleOK
<1>4. \/ /\ found # {} /\ found \subseteq Live(marks) /\ marks' = Kill(marks, found)
         /\ Goto(r, "answer", FALSE)
      \/ /\ Unique(m) /\ marks' = Append(marks, [live |-> TRUE, mark |-> m])
         /\ Goto(r, "answer", TRUE)
      \/ UNCHANGED marks /\ Leave(r)
  BY DEF WriteMark
<1>5. UNCHANGED <<articles, comments, told>> /\ raced' = raced
  BY <1>4 DEF WriteMark, Goto, Leave
<1> HIDE DEF found
<1>6. CASE found # {} /\ found \subseteq Live(marks) /\ marks' = Kill(marks, found)
           /\ Goto(r, "answer", FALSE)
  <2>1. /\ TableInv' /\ MarksGrow
        /\ RowsOfMark(m) # {} /\ RowsOfMark(m)' = {}
        /\ \A x \in Marks : x # m => RowsOfMark(x)' = RowsOfMark(x)
    BY <1>1, <1>3, <1>5, <1>6, DeleteMark
  <2>2. MarkSet(m, FALSE)
    BY <2>1 DEF MarkSet
  <2>3. PICK i \in DOMAIN marks : marks[i].mark = m
    BY <2>1 DEF RowsOfMark, Live
  <2>4. i \in DOMAIN marks' /\ marks'[i].mark = m
    BY <2>1, <2>3 DEF MarksGrow
  <2>5. QED
    BY <1>6, <2>1, <2>2, <2>4
<1>7. CASE Unique(m) /\ marks' = Append(marks, [live |-> TRUE, mark |-> m])
           /\ Goto(r, "answer", TRUE)
  <2>1. /\ TableInv' /\ MarksGrow
        /\ RowsOfMark(m) = {} /\ RowsOfMark(m)' # {}
        /\ \A x \in Marks : x # m => RowsOfMark(x)' = RowsOfMark(x)
    BY <1>1, <1>3, <1>5, <1>7, CreateMark
  <2>2. MarkSet(m, TRUE)
    BY <2>1 DEF MarkSet
  <2>3. PICK i \in DOMAIN marks' : marks'[i].mark = m
    BY <2>1 DEF RowsOfMark, Live
  <2>4. QED
    BY <1>7, <2>1, <2>2, <2>3
<1>8. CASE UNCHANGED marks /\ Leave(r)
  <2>1. UNCHANGED <<newsTables, told>>
    BY <1>5, <1>8 DEF newsTables
  <2>2. QED
    BY <1>1, <1>5, <1>8, <2>1, TablesKept, ToldKept, Seen DEF TableInv
<1>9. QED
  BY <1>4, <1>6, <1>7, <1>8

LEMMA WriteMarkKeeps ==
  ASSUME NewsInv, NEW r \in Requests, WriteMark(r)
  PROVE  NewsInv'
<1>1. RequestInv /\ ToggleOK(req[r]) /\ UNCHANGED <<articles, comments>>
  BY DEF NewsInv, RequestInv, TogglesOK, WriteMark, Is
<1>2. /\ TableInv' /\ MarksGrow
      /\ \/ Leave(r)
         \/ \E b \in BOOLEAN :
              Goto(r, "answer", b) /\ \E i \in DOMAIN marks' : marks'[i].mark = req[r].id
  BY WriteMarkIs
<1>3. ArticlesStayBut(r)
  BY <1>1 DEF ArticlesStayBut
<1>4. Becomes(r) /\ raced \subseteq raced'
  <2>1. CASE Leave(r)
    BY <1>1, <2>1, LeaveBecomes
  <2>2. ASSUME NEW b \in BOOLEAN, Goto(r, "answer", b), NEW i \in DOMAIN marks',
               marks'[i].mark = req[r].id
        PROVE  Becomes(r) /\ raced \subseteq raced'
    <3>1. /\ req' = [req EXCEPT ![r] = [req[r] EXCEPT !.at = "answer", !.data = b]]
          /\ raced' = raced
      BY <1>1, <2>2, GotoFacts DEF RequestInv
    <3>2. /\ DOMAIN req' = Requests /\ \A s \in Requests \ {r} : req'[s] = req[s]
          /\ DOMAIN req'[r] = {"op", "at", "topic", "id", "data"}
          /\ req'[r].op = "toggle" /\ req'[r].id = req[r].id
          /\ req'[r].at = "answer" /\ req'[r].data = b
      BY <1>1, <3>1 DEF RequestInv, NewsRequestsOK, WriteMark, Is
    <3>3. ToggleOK(req[r])'
      BY <1>1, <1>2, <2>2, <3>2 DEF ToggleOK, LikeKnown, MarksGrow
    <3>4. QED
      BY <3>1, <3>2, <3>3 DEF Becomes
  <2>3. QED
    BY <1>2, <2>1, <2>2
<1>5. RequestInv'
  BY <1>1, <1>2, <1>3, <1>4, RequestsKept
<1>6. QED
  BY <1>2, <1>5 DEF NewsInv, RequestInv, TableInv

\* What an answer, or its loss, adds to what is told.
LEMMA TellFacts ==
  ASSUME NEW m, NEW what, Tell(m, what)
  PROVE  /\ DOMAIN told' = {m} \union DOMAIN told
         /\ told'[m] = what
         /\ \A x \in DOMAIN told : x # m => told'[x] = told[x]
  BY DEF Tell

Answered(m) == ToldOf(m).said + ToldOf(m).unsaid

LEMMA ToldOfFacts ==
  ASSUME ToldOK, NEW m
  PROVE  ToldOf(m) \in [said : Int, unsaid : Int] /\ Answered(m) \in Int
<1>1. ToldOf(m) \in [said : Int, unsaid : Int]
  BY DEF ToldOf, ToldOK
<1>2. QED
  BY <1>1 DEF Answered

\* A toggle that ends after its write has its sign counted, said or not.
Ends(r) ==
  /\ Is(r, "toggle", "answer") /\ Leave(r) /\ UNCHANGED newsTables
  /\ LET old == ToldOf(req[r].id)
         sign == Sign(req[r].data)
     IN  \/ Tell(req[r].id, [old EXCEPT !.said = old.said + sign])
         \/ Tell(req[r].id, [old EXCEPT !.unsaid = old.unsaid + sign])

LEMMA EndsTold ==
  ASSUME NewsInv, NEW r \in Requests, Ends(r), NEW m, m = req[r].id
  PROVE  /\ ToldOK'
         /\ Answered(m)' = Answered(m) + Sign(req[r].data)
         /\ \A x : x # m => Answered(x)' = Answered(x)
         /\ DOMAIN told' = {m} \union DOMAIN told
<1> DEFINE old == ToldOf(m)
           sign == Sign(req[r].data)
<1>1. ToldOK /\ ToggleOK(req[r]) /\ req[r].at = "answer"
  BY DEF NewsInv, TogglesOK, Ends, Is
<1>2. old \in [said : Int, unsaid : Int] /\ Answered(m) = old.said + old.unsaid
  BY <1>1, ToldOfFacts DEF Answered
<1>3. sign \in Int
  BY <1>1 DEF Sign, ToggleOK
<1>4. PICK what :
        /\ Tell(m, what)
        /\ \/ what = [old EXCEPT !.said = old.said + sign]
           \/ what = [old EXCEPT !.unsaid = old.unsaid + sign]
  BY DEF Ends
<1> HIDE DEF old, sign
<1>5. /\ what \in [said : Int, unsaid : Int]
      /\ what.said + what.unsaid = old.said + old.unsaid + sign
  BY <1>2, <1>3, <1>4
<1>6. /\ DOMAIN told' = {m} \union DOMAIN told
      /\ told'[m] = what
      /\ \A x \in DOMAIN told : x # m => told'[x] = told[x]
  <2>1. Tell(m, what)
    BY <1>4
  <2>2. QED
    BY <2>1, TellFacts
<1>7. ToldOK'
  BY <1>1, <1>5, <1>6 DEF ToldOK
<1>8. Answered(m)' = Answered(m) + sign
  <2>1. Answered(m)' = what.said + what.unsaid
    BY <1>6 DEF Answered, ToldOf
  <2>2. QED
    BY <1>2, <1>5, <2>1
<1>9. ASSUME NEW x, x # m
      PROVE  Answered(x)' = Answered(x)
  BY <1>6, <1>9 DEF Answered, ToldOf
<1>10. QED
  BY <1>6, <1>7, <1>8, <1>9 DEF sign

LEMMA NewsFailIs ==
  ASSUME NEW r, NewsFail(r)
  PROVE  Ends(r) \/ (~Is(r, "toggle", "answer") /\ Leave(r) /\ UNCHANGED <<newsTables, told>>)
BY DEF NewsFail, Fail, Ends, newsTables

LEMMA AnswerMarkIs ==
  ASSUME NEW r, AnswerMark(r)
  PROVE  Ends(r)
BY DEF AnswerMark, Ends

LEMMA EndKeeps ==
  ASSUME NewsInv, NEW r \in Requests, AnswerMark(r) \/ NewsFail(r)
  PROVE  NewsInv'
<1>1. CASE Ends(r)
  BY <1>1, EndsTold, LeaveKeeps DEF Ends
<1>2. CASE Leave(r) /\ UNCHANGED <<newsTables, told>>
  BY <1>2, LeaveKeeps, ToldKept DEF NewsInv
<1>3. QED
  BY <1>1, <1>2, NewsFailIs, AnswerMarkIs

LEMMA InsertCommentKeeps ==
  ASSUME NewsInv, NEW r \in Requests, InsertComment(r)
  PROVE  NewsInv'
<1>1. RequestInv /\ TableInv
  BY DEF NewsInv, RequestInv, TableInv
<1>2. Leave(r) /\ UNCHANGED <<articles, marks, told>>
  BY DEF InsertComment
<1>3. Becomes(r) /\ raced' = raced
  BY <1>1, <1>2, LeaveBecomes, LeaveFacts
<1> DEFINE new == [live |-> TRUE, article |-> req[r].id, parent |-> req[r].data]
<1>4. new \in CommentRows /\ comments \in Seq(CommentRows)
  BY <1>1 DEF RequestInv, CommentsOK, CommentOK, InsertComment, Is, CommentRows, TableInv, NewsTablesOK
<1>5. comments' = comments \/ comments' = Append(comments, new)
  BY DEF InsertComment
<1> HIDE DEF new
<1>6. /\ comments' \in Seq(CommentRows)
      /\ DOMAIN comments \subseteq DOMAIN comments'
      /\ \A c \in DOMAIN comments : comments'[c] = comments[c]
  BY <1>4, <1>5, AppendFacts
<1>7. UniqueMarks' /\ ToldOK'
  BY <1>1, <1>2, ToldKept DEF TableInv, UniqueMarks
<1>9. TableInv'
  BY <1>1, <1>2, <1>3, <1>6, <1>7, MarksChange DEF TableInv, NewsTablesOK
<1>10. MarksGrow /\ ArticlesStayBut(r)
  BY <1>2, <1>6 DEF MarksGrow, ArticlesStayBut
<1>11. RequestInv'
  BY <1>1, <1>3, <1>10, RequestsKept
<1>12. QED
  BY <1>9, <1>11 DEF NewsInv, RequestInv, TableInv

\* The likes that go are of the comments that go.
LEMMA RemoveCommentKeeps ==
  ASSUME NewsInv, NEW c \in DOMAIN comments, RemoveComment(c)
  PROVE  NewsInv'
<1>1. RequestInv /\ TableInv
  BY DEF NewsInv, RequestInv, TableInv
<1> DEFINE gone == {c} \union {d \in Live(comments) : comments[d].parent = c}
           likes == {i \in Live(marks) : marks[i].mark[1] = "like" /\ marks[i].mark[3] \in gone}
<1>2. /\ comments' = Kill(comments, gone) /\ marks' = Kill(marks, likes)
      /\ UNCHANGED <<articles, told, req, raced>>
  BY DEF RemoveComment, Once
<1>3. \A i \in likes : marks[i].mark[1] = "like" /\ marks[i].mark[3] \in gone
  OBVIOUS
<1> HIDE DEF gone, likes
<1>4. /\ marks' \in Seq(MarkRows)
      /\ DOMAIN marks' = DOMAIN marks
      /\ \A i \in DOMAIN marks :
           /\ marks'[i].mark = marks[i].mark
           /\ marks'[i].live = (marks[i].live /\ i \notin likes)
  BY <1>1, <1>2, KillMarks DEF TableInv
<1>5. /\ comments' \in Seq(CommentRows)
      /\ DOMAIN comments' = DOMAIN comments
      /\ \A d \in DOMAIN comments : comments'[d].live => comments[d].live /\ d \notin gone
  BY <1>1, <1>2, KillComments DEF TableInv
<1>6. UniqueMarks' /\ ToldOK'
  <2>1. UniqueMarks'
    BY <1>1, <1>4 DEF TableInv, UniqueMarks
  <2>2. ToldOK'
    BY <1>1, <1>2, ToldKept DEF TableInv
  <2>3. QED
    BY <2>1, <2>2
<1>8. TableInv'
  BY <1>1, <1>2, <1>4, <1>5, <1>6, MarksChange
<1>9. RequestInv'
  BY <1>1, <1>2, <1>4, <1>5, NoneMoves DEF MarksGrow
<1>10. QED
  BY <1>8, <1>9 DEF NewsInv, RequestInv, TableInv

-----------------------------------------------------------------------------
(* The theorems.                                                           *)

LEMMA NewsStarts ==
  ASSUME FlightInit, NewsInit
  PROVE  NewsInv
<1>1. DOMAIN req = Requests /\ \A r \in Requests : req[r] = Idle
  BY DEF FlightInit
<1>2. Idle.op = "none" /\ DOMAIN Idle = {"op", "at", "topic", "id", "data"}
  BY DEF Idle
<1>3. RequestInv
  BY <1>1, <1>2 DEF RequestInv, NewsRequestsOK, TogglesOK, CommentsOK, EditsOK, RewritesRaced
<1> DEFINE new == [live |-> TRUE, title |-> 0, content |-> 0, search |-> <<0, 0>>, views |-> 0]
<1>4. articles = <<new>> /\ comments = <<>> /\ marks = <<>> /\ told = <<>>
  BY DEF NewsInit
<1>5. new \in ArticleRows /\ new.search = <<new.title, new.content>>
  BY DEF ArticleRows
<1> HIDE DEF new
<1>6. NewsTablesOK
  BY <1>4, <1>5 DEF NewsTablesOK
<1>7. DOMAIN marks = {} /\ DOMAIN told = {} /\ \A n \in DOMAIN articles : articles[n] = new
  BY <1>4
<1>8. UniqueMarks /\ ToldOK /\ SearchTextFresh
  BY <1>5, <1>7 DEF UniqueMarks, ToldOK, SearchTextFresh
<1>9. QED
  BY <1>3, <1>6, <1>8 DEF NewsInv, RequestInv

LEMMA StepsKeep ==
  ASSUME NewsInv, NEW r \in Requests, NewsSteps(r)
  PROVE  NewsInv'
<1>1. CASE QuietSteps(r)
  BY <1>1, QuietStepsKeep
<1>2. ASSUME NEW n \in DOMAIN articles, IncrementView(r, n)
      PROVE  NewsInv'
  BY <1>2, IncrementViewKeeps
<1>3. ASSUME NEW n \in DOMAIN articles, NEW part \in {"title", "content"}, UpdateArticle(r, n, part)
      PROVE  NewsInv'
  BY <1>3, UpdateArticleKeeps
<1>4. ASSUME NEW n, NEW u \in Users, Toggle(r, "bookmark", u, n) \/ Toggle(r, "like", u, n)
      PROVE  NewsInv'
  BY <1>4, ToggleKeeps
<1>5. ASSUME NEW n \in DOMAIN articles, NEW parent \in (DOMAIN comments) \union {None},
             AddComment(r, n, parent)
      PROVE  NewsInv'
  BY <1>5, AddCommentKeeps
<1>6. CASE WriteArticle(r)
  <2>1. req[r].op \in {"create", "edit", "remove"}
    BY <1>6 DEF WriteArticle
  <2>2. QED
    BY <1>6, <2>1, WriteOfCreate, WriteOfEdit, WriteOfRemove
<1>7. CASE WriteMark(r) \/ AnswerMark(r) \/ NewsFail(r)
  BY <1>7, WriteMarkKeeps, EndKeeps
<1>8. CASE InsertComment(r)
  BY <1>8, InsertCommentKeeps
<1>9. QED
  BY <1>1, <1>2, <1>3, <1>4, <1>5, <1>6, <1>7, <1>8 DEF NewsSteps, QuietSteps

LEMMA NewsInvKept ==
  ASSUME NewsInv, [NewsNext]_NewsFlight
  PROVE  NewsInv'
<1>1. CASE \E r \in Requests : NewsSteps(r)
  BY <1>1, StepsKeep
<1>2. CASE \E c \in DOMAIN comments : RemoveComment(c)
  BY <1>2, RemoveCommentKeeps
<1>3. CASE NewsRestart \/ \E k \in DOMAIN cache : Expire(k)
  BY <1>3, CacheStepsKeep
<1>4. CASE UNCHANGED NewsFlight
  <2>1. UNCHANGED <<newsTables, told>> /\ UNCHANGED <<req, raced>>
    BY <1>4 DEF NewsFlight, flight, newsVars
  <2>2. RequestInv /\ TableInv
    BY DEF NewsInv, RequestInv, TableInv
  <2>3. RequestInv'
    BY <2>1, <2>2, NoneMoves DEF newsTables, MarksGrow
  <2>4. TableInv'
    BY <2>1, <2>2, TablesKept, ToldKept DEF TableInv
  <2>5. QED
    BY <2>3, <2>4 DEF NewsInv, RequestInv, TableInv
<1>5. QED
  BY <1>1, <1>2, <1>3, <1>4 DEF NewsNext

LEMMA NewsInvHolds == NewsSpec => []NewsInv
<1>1. FlightInit /\ NewsInit => NewsInv
  BY NewsStarts
<1>2. NewsInv /\ [NewsNext]_NewsFlight => NewsInv'
  BY NewsInvKept
<1>3. QED
  BY <1>1, <1>2, PTL DEF NewsSpec

\* NewsService.update: unless two updates of an article overlapped, its searchText is of
\* the title and the content stored beside it.
THEOREM SearchTextFreshHolds == NewsSpec => []SearchTextFresh
<1>1. NewsInv => SearchTextFresh
  BY DEF NewsInv
<1>2. QED
  BY <1>1, NewsInvHolds, PTL

-----------------------------------------------------------------------------
(* The types: what the cache and its keys hold, and how comments nest.     *)

CacheKeysOK == \A k \in DOMAIN cache : k[1] \in {"list", "detail"}
ListKeysOK == listKeys \subseteq {ListKey(q) : q \in Lists}

\* A reader or a removal has the key of a list, which is tracked, or of an article.
FindOK(q) ==
  q.op \in {"find", "remove"} =>
    \/ \E l \in Lists : q.op = "find" /\ q.id = ListKey(l)
    \/ q.id[1] = "detail" /\ q.at # "track"
FindsOK == \A r \in Requests : FindOK(req[r])

CacheInv == CacheKeysOK /\ ListKeysOK /\ FindsOK

\* A reply is of a comment that is there and is no reply itself.
ThreadsOK ==
  \A c \in Live(comments) :
    comments[c].parent # None => /\ comments[c].parent \in Live(comments)
                                 /\ comments[comments[c].parent].parent = None

\* A comment on its way has found the one it replies to, which may be gone meanwhile.
ReplyOK(q) ==
  q.op = "comment" /\ q.data # None =>
    q.data \in DOMAIN comments /\ comments[q.data].parent = None
RepliesOK == \A r \in Requests : ReplyOK(req[r])

ThreadInv == ThreadsOK /\ RepliesOK

ToldMarked == DOMAIN told \subseteq {marks[i].mark : i \in DOMAIN marks}

LEMMA NewsTypeIs == NewsTypeOK <=> CacheKeysOK /\ ListKeysOK /\ ThreadsOK /\ ToldMarked
  BY DEF NewsTypeOK, CacheKeysOK, ListKeysOK, ThreadsOK, ToldMarked

\* Every step of a request is a start, a step on, or its end.
LEMMA NewsStepIs ==
  ASSUME NewsRequestsOK, NEW r \in Requests, NewsSteps(r)
  PROVE  \/ \E q : Start(r, q)
         \/ \E step, locals : Goto(r, step, locals)
         \/ Leave(r)
<1>1. ASSUME NEW q \in Lists, FindAll(r, q)
      PROVE  \E p : Start(r, p)
  BY <1>1 DEF FindAll
<1>2. CASE CreateArticle(r)
  BY <1>2 DEF CreateArticle
<1>3. ASSUME NEW n, FindOne(r, n) \/ RemoveArticle(r, n) \/ IncrementView(r, n)
      PROVE  \E p : Start(r, p)
  BY <1>3 DEF FindOne, RemoveArticle, IncrementView
<1>4. ASSUME NEW n, NEW part, UpdateArticle(r, n, part)
      PROVE  \E p : Start(r, p)
  BY <1>4 DEF UpdateArticle
<1>5. ASSUME NEW kind, NEW u, NEW n, Toggle(r, kind, u, n)
      PROVE  \E p : Start(r, p)
  BY <1>5 DEF Toggle
<1>6. ASSUME NEW n, NEW parent, AddComment(r, n, parent)
      PROVE  \E p : Start(r, p)
  BY <1>6 DEF AddComment
<1>7. CASE Read(r) \/ Set(r) \/ DropDetail(r)
  BY <1>7 DEF Read, Set, DropDetail
<1>8. CASE WriteArticle(r) \/ DropLists(r)
  BY <1>8 DEF WriteArticle, DropLists
<1>9. CASE Track(r) \/ ClearKeys(r) \/ AnswerMark(r) \/ InsertComment(r) \/ NewsFail(r)
  BY <1>9 DEF Track, ClearKeys, AnswerMark, InsertComment, NewsFail, Fail
<1>10. CASE WriteMark(r)
  BY <1>10 DEF WriteMark
<1>11. QED
  BY <1>1, <1>2, <1>3, <1>4, <1>5, <1>6, <1>7, <1>8, <1>9, <1>10 DEF NewsSteps

LEMMA OneMoves ==
  ASSUME NewsRequestsOK, NEW r \in Requests, NewsSteps(r)
  PROVE  \A s \in Requests \ {r} : req'[s] = req[s]
<1>1. ASSUME NEW q, req' = [req EXCEPT ![r] = q]
      PROVE  \A s \in Requests \ {r} : req'[s] = req[s]
  BY <1>1 DEF NewsRequestsOK
<1>2. QED
  BY <1>1, NewsStepIs, StartFacts, GotoFacts, LeaveFacts

\* What a request is after its step.
LEMMA StartedIs ==
  ASSUME NewsRequestsOK, NEW r \in Requests, NEW q, Start(r, q)
  PROVE  req'[r] = q
BY StartFacts DEF NewsRequestsOK

LEMMA GoneIs ==
  ASSUME NewsRequestsOK, NEW r \in Requests, Leave(r)
  PROVE  req'[r].op = "none"
<1>1. req'[r] = Idle
  BY LeaveFacts DEF NewsRequestsOK
<1>2. QED
  BY <1>1 DEF Idle

LEMMA OnIs ==
  ASSUME NewsRequestsOK, NEW r \in Requests, NEW step, NEW locals, Goto(r, step, locals)
  PROVE  /\ req'[r].op = req[r].op /\ req'[r].id = req[r].id
         /\ req'[r].at = step /\ req'[r].data = locals
<1>1. req' = [req EXCEPT ![r] = [req[r] EXCEPT !.at = step, !.data = locals]]
  BY GotoFacts
<1>2. QED
  BY <1>1 DEF NewsRequestsOK

-----------------------------------------------------------------------------
(* The cache and its keys.                                                 *)

\* A start of another kind, a step on and an end leave what a reader knows.
LEMMA FindStays ==
  ASSUME NewsRequestsOK, FindsOK, NEW r \in Requests,
         \/ \E q : Start(r, q) /\ FindOK(q)
         \/ \E step, locals : Goto(r, step, locals) /\ step # "track"
         \/ Leave(r)
  PROVE  FindOK(req'[r])
<1>1. ASSUME NEW q, Start(r, q), FindOK(q)
      PROVE  FindOK(req'[r])
  BY <1>1, StartedIs
<1>2. ASSUME NEW step, NEW locals, Goto(r, step, locals), step # "track"
      PROVE  FindOK(req'[r])
  <2>1. FindOK(req[r])
    BY DEF FindsOK
  <2>2. QED
    BY <1>2, <2>1, OnIs DEF FindOK
<1>3. CASE Leave(r)
  BY <1>3, GoneIs DEF FindOK
<1>4. QED
  BY <1>1, <1>2, <1>3

LEMMA CacheStep ==
  ASSUME NewsRequestsOK, CacheInv, NEW r \in Requests, NewsSteps(r)
  PROVE  FindOK(req'[r]) /\ CacheKeysOK' /\ ListKeysOK'
<1> DEFINE Quiet == UNCHANGED <<cache, listKeys>>
<1>1. /\ CacheKeysOK /\ ListKeysOK /\ FindsOK
      /\ FindOK(req[r])
  BY DEF CacheInv, FindsOK
<1>2. Quiet => CacheKeysOK' /\ ListKeysOK'
  BY <1>1 DEF CacheKeysOK, ListKeysOK
<1>3. ASSUME NEW q, Start(r, q), FindOK(q), Quiet
      PROVE  FindOK(req'[r]) /\ CacheKeysOK' /\ ListKeysOK'
  BY <1>1, <1>2, <1>3, FindStays
<1>4. \A q : q.op \notin {"find", "remove"} => FindOK(q)
  BY DEF FindOK
<1>5. ASSUME NEW l \in Lists, FindAll(r, l)
      PROVE  FindOK(req'[r]) /\ CacheKeysOK' /\ ListKeysOK'
  <2> DEFINE q == [Idle EXCEPT !.op = "find", !.at = "read", !.id = ListKey(l)]
  <2>1. Start(r, q) /\ Quiet
    BY <1>5 DEF FindAll, newsVars
  <2>2. q.op = "find" /\ q.id = ListKey(l)
    BY DEF Idle
  <2>3. FindOK(q)
    BY <2>2 DEF FindOK
  <2>4. QED
    BY <1>3, <2>1, <2>3
<1>6. ASSUME NEW n, FindOne(r, n)
      PROVE  FindOK(req'[r]) /\ CacheKeysOK' /\ ListKeysOK'
  <2> DEFINE q == [Idle EXCEPT !.op = "find", !.at = "read", !.id = DetailKey(n)]
  <2>1. Start(r, q) /\ Quiet
    BY <1>6 DEF FindOne, newsVars
  <2>2. q.at = "read" /\ q.id[1] = "detail"
    BY DEF Idle, DetailKey
  <2>3. FindOK(q)
    BY <2>2 DEF FindOK
  <2>4. QED
    BY <1>3, <2>1, <2>3
<1>7. ASSUME NEW n, RemoveArticle(r, n)
      PROVE  FindOK(req'[r]) /\ CacheKeysOK' /\ ListKeysOK'
  <2> DEFINE q == [Idle EXCEPT !.op = "remove", !.id = DetailKey(n),
                               !.at = IF Cached(DetailKey(n)) THEN "write" ELSE "read"]
  <2>1. Start(r, q) /\ Quiet
    BY <1>7 DEF RemoveArticle, newsVars
  <2>2. q.at # "track" /\ q.id[1] = "detail"
    BY DEF Idle, DetailKey
  <2>3. FindOK(q)
    BY <2>2 DEF FindOK
  <2>4. QED
    BY <1>3, <2>1, <2>3
<1>8. CASE CreateArticle(r)
  <2> DEFINE q == [Idle EXCEPT !.op = "create", !.at = "write"]
  <2>1. Start(r, q) /\ Quiet
    BY <1>8 DEF CreateArticle, newsVars
  <2>2. q.op = "create"
    BY DEF Idle
  <2>3. QED
    BY <1>3, <1>4, <2>1, <2>2
<1>9. ASSUME NEW n, IncrementView(r, n)
      PROVE  FindOK(req'[r]) /\ CacheKeysOK' /\ ListKeysOK'
  <2> DEFINE q == [Idle EXCEPT !.op = "view", !.at = "detail", !.id = DetailKey(n)]
  <2>1. Start(r, q) /\ Quiet
    BY <1>9 DEF IncrementView
  <2>2. q.op = "view"
    BY DEF Idle
  <2>3. QED
    BY <1>3, <1>4, <2>1, <2>2
<1>10. ASSUME NEW n, NEW part, UpdateArticle(r, n, part)
       PROVE  FindOK(req'[r]) /\ CacheKeysOK' /\ ListKeysOK'
  <2> DEFINE q == [Idle EXCEPT !.op = "edit", !.at = "write", !.id = DetailKey(n),
                               !.topic = {<<"rewrite", n>>},
                               !.data = [part |-> part, search |-> SearchText(articles[n], part)]]
  <2>1. Start(r, q) /\ Quiet
    BY <1>10 DEF UpdateArticle, newsVars
  <2>2. q.op = "edit"
    BY DEF Idle
  <2>3. QED
    BY <1>3, <1>4, <2>1, <2>2
<1>11. ASSUME NEW kind, NEW u, NEW n, Toggle(r, kind, u, n)
       PROVE  FindOK(req'[r]) /\ CacheKeysOK' /\ ListKeysOK'
  <2> DEFINE q == [Idle EXCEPT !.op = "toggle", !.at = "mark", !.id = Mark(kind, u, n),
                               !.data = RowsOfMark(Mark(kind, u, n))]
  <2>1. Start(r, q) /\ Quiet
    BY <1>11 DEF Toggle, newsVars
  <2>2. q.op = "toggle"
    BY DEF Idle
  <2>3. QED
    BY <1>3, <1>4, <2>1, <2>2
<1>12. ASSUME NEW n, NEW parent, AddComment(r, n, parent)
       PROVE  FindOK(req'[r]) /\ CacheKeysOK' /\ ListKeysOK'
  <2> DEFINE q == [Idle EXCEPT !.op = "comment", !.at = "insert", !.id = n,
                               !.data = IF parent = None THEN None ELSE TopOf(parent)]
  <2>1. Start(r, q) /\ Quiet
    BY <1>12 DEF AddComment, newsVars
  <2>2. q.op = "comment"
    BY DEF Idle
  <2>3. QED
    BY <1>3, <1>4, <2>1, <2>2
<1>13. CASE Read(r)
  <2>1. FindOK(req'[r])
    BY <1>1, <1>13, FindStays DEF Read
  <2>2. QED
    BY <1>2, <1>13, <2>1 DEF Read, newsVars
<1>14. CASE Set(r)
  <2>1. cache' = WithKey(req[r].id, req[r].data) /\ listKeys' = listKeys
    BY <1>14 DEF Set
  <2>2. DOMAIN cache' = (DOMAIN cache) \union {req[r].id}
    BY <2>1 DEF WithKey
  <2>3. req[r].id[1] \in {"list", "detail"}
    BY <1>1, <1>14 DEF Set, FindOK, ListKey
  <2>4. CacheKeysOK' /\ ListKeysOK'
    BY <1>1, <2>1, <2>2, <2>3 DEF CacheKeysOK, ListKeysOK
  <2>5. CASE Goto(r, "track", None) /\ req[r].op # "remove" /\ req[r].id[1] = "list"
    <3>1. PICK l \in Lists : req[r].op = "find" /\ req[r].id = ListKey(l)
      BY <1>1, <1>14, <2>5 DEF Set, FindOK
    <3>2. req'[r].op = "find" /\ req'[r].id = ListKey(l)
      BY <2>5, <3>1, OnIs
    <3>3. QED
      BY <2>4, <3>2 DEF FindOK
  <2>6. CASE Goto(r, "write", None) \/ Leave(r)
    BY <1>1, <2>4, <2>6, FindStays
  <2>7. QED
    BY <1>14, <2>5, <2>6 DEF Set
<1>15. CASE Track(r)
  <2>1. PICK l \in Lists : req[r].id = ListKey(l)
    BY <1>1, <1>15 DEF Track, Is, FindOK
  <2>2. ListKeysOK' /\ CacheKeysOK'
    BY <1>1, <1>15, <2>1 DEF Track, ListKeysOK, CacheKeysOK
  <2>3. QED
    BY <1>1, <1>15, <2>2, FindStays DEF Track
<1>16. CASE WriteArticle(r)
  <2>1. FindOK(req'[r])
    BY <1>1, <1>16, FindStays DEF WriteArticle
  <2>2. QED
    BY <1>2, <1>16, <2>1 DEF WriteArticle
<1>17. CASE DropDetail(r)
  <2>1. FindOK(req'[r])
    BY <1>1, <1>17, FindStays DEF DropDetail
  <2>2. QED
    BY <1>1, <1>17, <2>1 DEF DropDetail, DropKeys, CacheKeysOK, ListKeysOK
<1>18. CASE DropLists(r)
  <2>1. FindOK(req'[r])
    BY <1>1, <1>18, FindStays DEF DropLists
  <2>2. QED
    BY <1>1, <1>18, <2>1 DEF DropLists, DropKeys, CacheKeysOK, ListKeysOK
<1>19. CASE ClearKeys(r)
  <2>1. FindOK(req'[r])
    BY <1>1, <1>19, FindStays DEF ClearKeys
  <2>2. QED
    BY <1>1, <1>19, <2>1 DEF ClearKeys, CacheKeysOK, ListKeysOK
<1>20. CASE WriteMark(r) \/ AnswerMark(r) \/ InsertComment(r)
  <2>1. Quiet
    BY <1>20 DEF WriteMark, AnswerMark, InsertComment
  <2>2. Leave(r) \/ \E step, locals : Goto(r, step, locals) /\ step # "track"
    <3>1. CASE WriteMark(r)
      <4>1. Leave(r) \/ \E locals : Goto(r, "answer", locals)
        BY <3>1 DEF WriteMark
      <4>2. CASE Leave(r)
        BY <4>2
      <4>3. ASSUME NEW locals, Goto(r, "answer", locals)
            PROVE  \E step, l : Goto(r, step, l) /\ step # "track"
        BY <4>3
      <4>4. QED
        BY <4>1, <4>2, <4>3
    <3>2. CASE AnswerMark(r) \/ InsertComment(r)
      BY <3>2 DEF AnswerMark, InsertComment
    <3>3. QED
      BY <1>20, <3>1, <3>2
  <2>3. QED
    BY <1>1, <1>2, <2>1, <2>2, FindStays
<1>21. CASE NewsFail(r)
  <2>1. Leave(r) /\ Quiet
    BY <1>21 DEF NewsFail, Fail
  <2>2. QED
    BY <1>1, <1>2, <2>1, FindStays
<1>22. QED
  BY <1>5, <1>6, <1>7, <1>8, <1>9, <1>10, <1>11, <1>12, <1>13, <1>14, <1>15, <1>16, <1>17,
     <1>18, <1>19, <1>20, <1>21 DEF NewsSteps

LEMMA CacheInvKept ==
  ASSUME NewsRequestsOK, CacheInv, [NewsNext]_NewsFlight
  PROVE  CacheInv'
<1>1. ASSUME NEW r \in Requests, NewsSteps(r)
      PROVE  CacheInv'
  <2>1. FindOK(req'[r]) /\ CacheKeysOK' /\ ListKeysOK'
    BY <1>1, CacheStep
  <2>2. \A s \in Requests \ {r} : req'[s] = req[s]
    BY <1>1, OneMoves
  <2>3. FindsOK'
    BY <2>1, <2>2 DEF CacheInv, FindsOK, FindOK
  <2>4. QED
    BY <2>1, <2>3 DEF CacheInv
<1>2. CASE \E c \in DOMAIN comments : RemoveComment(c)
  <2>1. UNCHANGED <<req, cache, listKeys>>
    BY <1>2 DEF RemoveComment, Once
  <2>2. QED
    BY <2>1 DEF CacheInv, CacheKeysOK, ListKeysOK, FindsOK, FindOK
<1>3. CASE \E k \in DOMAIN cache : Expire(k)
  <2>1. UNCHANGED <<req, listKeys>> /\ \E k : cache' = DropKeys({k})
    BY <1>3 DEF Expire, flight
  <2>2. QED
    BY <2>1 DEF DropKeys, CacheInv, CacheKeysOK, ListKeysOK, FindsOK, FindOK
<1>4. CASE NewsRestart
  <2>1. UNCHANGED <<req, cache>> /\ listKeys' = {}
    BY <1>4 DEF NewsRestart, Once
  <2>2. QED
    BY <2>1 DEF CacheInv, CacheKeysOK, ListKeysOK, FindsOK, FindOK
<1>5. CASE UNCHANGED NewsFlight
  <2>1. UNCHANGED <<req, cache, listKeys>>
    BY <1>5 DEF NewsFlight, flight, newsVars
  <2>2. QED
    BY <2>1 DEF CacheInv, CacheKeysOK, ListKeysOK, FindsOK, FindOK
<1>6. QED
  BY <1>1, <1>2, <1>3, <1>4, <1>5 DEF NewsNext

-----------------------------------------------------------------------------
(* How comments nest.  null is the id of no comment.                       *)

\* Comments are added and killed; who replies to whom stays.
ParentsStay ==
  /\ DOMAIN comments \subseteq DOMAIN comments'
  /\ \A c \in DOMAIN comments : comments'[c].parent = comments[c].parent

LEMMA ReplyStays ==
  ASSUME ParentsStay, NEW q, ReplyOK(q)
  PROVE  q.op = "comment" /\ q.data # None =>
           q.data \in DOMAIN comments' /\ comments'[q.data].parent = None
BY DEF ParentsStay, ReplyOK

LEMMA RepliesStay ==
  ASSUME NewsRequestsOK, RepliesOK, ParentsStay, NEW r \in Requests,
         \A s \in Requests \ {r} : req'[s] = req[s],
         req'[r].op = "comment" /\ req'[r].data # None =>
           req'[r].data \in DOMAIN comments' /\ comments'[req'[r].data].parent = None
  PROVE  RepliesOK'
<1>1. SUFFICES ASSUME NEW s \in Requests, req'[s].op = "comment", req'[s].data # None
               PROVE  req'[s].data \in DOMAIN comments' /\ comments'[req'[s].data].parent = None
  BY DEF RepliesOK, ReplyOK
<1>2. CASE s = r
  BY <1>1, <1>2
<1>3. CASE s # r
  <2>1. ReplyOK(req[s]) /\ req'[s] = req[s]
    BY <1>3 DEF RepliesOK
  <2>2. QED
    BY <1>1, <2>1, ReplyStays
<1>4. QED
  BY <1>2, <1>3

\* A comment under way replies to a comment that is no reply.
LEMMA AddCommentThread ==
  ASSUME NewsInv, ThreadInv, NEW r \in Requests, NEW n,
         NEW parent \in (DOMAIN comments) \union {None}, AddComment(r, n, parent)
  PROVE  ReplyOK(req'[r]) /\ comments' = comments
<1> DEFINE above == IF parent = None THEN None ELSE TopOf(parent)
           q == [Idle EXCEPT !.op = "comment", !.at = "insert", !.id = n, !.data = above]
<1>1. Start(r, q) /\ comments' = comments /\ (parent # None => comments[parent].live)
  BY DEF AddComment, newsVars, newsTables
<1>2. q.data = above /\ req'[r] = q
  <2>1. req'[r] = q
    BY <1>1, StartedIs DEF NewsInv
  <2>2. q.data = above
    BY DEF Idle
  <2>3. QED
    BY <2>1, <2>2
<1>3. above # None => above \in DOMAIN comments /\ comments[above].parent = None
  <2>1. CASE parent # None /\ comments[parent].parent # None
    <3>1. parent \in Live(comments)
      BY <1>1, <2>1 DEF Live
    <3>2. /\ comments[parent].parent \in Live(comments)
          /\ comments[comments[parent].parent].parent = None
      BY <2>1, <3>1 DEF ThreadInv, ThreadsOK
    <3>3. QED
      BY <2>1, <3>2 DEF TopOf, Live
  <2>2. CASE parent # None /\ comments[parent].parent = None
    BY <2>2 DEF TopOf
  <2>3. QED
    BY <2>1, <2>2
<1> HIDE DEF above, q
<1>4. QED
  BY <1>1, <1>2, <1>3 DEF ReplyOK

\* The foreign key: a reply is inserted only under a comment that is there.
LEMMA InsertCommentThread ==
  ASSUME NewsInv, ThreadInv, NEW r \in Requests, InsertComment(r)
  PROVE  ThreadsOK' /\ ParentsStay
<1> DEFINE d == req[r].data
           new == [live |-> TRUE, article |-> req[r].id, parent |-> d]
<1>1. /\ comments \in Seq(CommentRows) /\ new \in CommentRows
      /\ ReplyOK(req[r]) /\ req[r].op = "comment"
  BY DEF NewsInv, NewsTablesOK, CommentsOK, CommentOK, InsertComment, Is, CommentRows,
         ThreadInv, RepliesOK
<1>2. CASE comments' = comments
  BY <1>2 DEF ThreadInv, ThreadsOK, ParentsStay, Live
<1>3. CASE comments' = Append(comments, new) /\ (d = None \/ d \in Live(comments))
  <2>1. new.live = TRUE /\ new.parent = d
    OBVIOUS
  <2> HIDE DEF new
  <2> DEFINE last == Len(comments) + 1
  <2>2. /\ last \notin DOMAIN comments
        /\ DOMAIN comments' = (DOMAIN comments) \union {last}
        /\ comments'[last] = new
        /\ \A c \in DOMAIN comments : comments'[c] = comments[c]
    BY <1>1, <1>3, AppendFacts
  <2> HIDE DEF last
  <2>3. ParentsStay
    BY <2>2 DEF ParentsStay
  <2>4. Live(comments) \subseteq Live(comments')
    BY <2>2 DEF Live
  <2>5. ASSUME NEW c \in Live(comments'), comments'[c].parent # None
        PROVE  /\ comments'[c].parent \in Live(comments')
               /\ comments'[comments'[c].parent].parent = None
    <3>1. CASE c = last
      <4>1. d \in Live(comments) /\ d # None
        BY <1>3, <2>1, <2>2, <2>5, <3>1
      <4>2. d \in DOMAIN comments /\ comments[d].parent = None
        BY <1>1, <4>1 DEF ReplyOK
      <4>3. QED
        BY <2>1, <2>2, <2>4, <3>1, <4>1, <4>2
    <3>2. CASE c # last
      <4>1. c \in Live(comments) /\ comments'[c] = comments[c]
        BY <2>2, <2>5, <3>2 DEF Live
      <4>2. /\ comments[c].parent \in Live(comments)
            /\ comments[comments[c].parent].parent = None
        BY <2>5, <4>1 DEF ThreadInv, ThreadsOK
      <4>3. QED
        BY <2>2, <2>4, <4>1, <4>2 DEF Live
    <3>3. QED
      BY <3>1, <3>2
  <2>6. QED
    BY <2>3, <2>5 DEF ThreadsOK
<1>4. QED
  BY <1>2, <1>3 DEF InsertComment

\* The replies to a comment go with it: what stays and replies, replies to what stays.
LEMMA RemoveCommentThread ==
  ASSUME NewsInv, ThreadInv, None \notin Nat, NEW c \in DOMAIN comments, RemoveComment(c)
  PROVE  ThreadsOK' /\ ParentsStay
<1> DEFINE gone == {c} \union {d \in Live(comments) : comments[d].parent = c}
<1>1. comments' = Kill(comments, gone)
  BY DEF RemoveComment
<1>2. NewsTablesOK
  BY DEF NewsInv
<1>3. /\ DOMAIN comments' = DOMAIN comments
      /\ \A d \in DOMAIN comments :
           /\ comments'[d].parent = comments[d].parent
           /\ comments'[d].live = (comments[d].live /\ d \notin gone)
  <2> HIDE DEF gone
  <2>1. QED
    BY <1>1, <1>2, KillComments
<1>4. c # None
  BY <1>2, Indices
<1>5. ParentsStay
  BY <1>3 DEF ParentsStay
<1>6. ASSUME NEW d \in Live(comments'), comments'[d].parent # None
      PROVE  /\ comments'[d].parent \in Live(comments')
             /\ comments'[comments'[d].parent].parent = None
  <2> DEFINE p == comments[d].parent
  <2>1. d \in Live(comments) /\ d \notin gone /\ comments'[d].parent = p
    <3> HIDE DEF gone
    <3>1. QED
      BY <1>3, <1>6 DEF Live
  <2>2. p # None
    BY <1>6, <2>1
  <2>3. p \in Live(comments) /\ comments[p].parent = None
    BY <2>1, <2>2 DEF ThreadInv, ThreadsOK
  <2>4. p # c
    BY <2>1
  <2>5. p \notin gone
    BY <1>4, <2>3, <2>4
  <2> HIDE DEF gone, p
  <2>6. QED
    BY <1>3, <2>1, <2>3, <2>5 DEF Live
<1>7. QED
  BY <1>5, <1>6 DEF ThreadsOK

\* Every other step leaves the comments, and its request is none that comments, or ended.
LEMMA ThreadStep ==
  ASSUME NewsInv, ThreadInv, NEW r \in Requests, NewsSteps(r)
  PROVE  ThreadInv'
<1> DEFINE Quiet == comments' = comments /\ (req'[r].op = "comment" => req'[r].data = None)
<1>1. NewsRequestsOK /\ RepliesOK /\ ThreadsOK /\ \A s \in Requests \ {r} : req'[s] = req[s]
  BY OneMoves DEF NewsInv, ThreadInv
<1>2. CASE Quiet
  <2>1. ThreadsOK' /\ ParentsStay
    BY <1>1, <1>2 DEF ThreadsOK, ParentsStay, Live
  <2>2. RepliesOK'
    BY <1>1, <1>2, <2>1, RepliesStay
  <2>3. QED
    BY <2>1, <2>2 DEF ThreadInv
<1>3. ASSUME NEW q, Start(r, q), q.op # "comment", comments' = comments
      PROVE  Quiet
  BY <1>1, <1>3, StartedIs
<1>4. ASSUME NEW step, NEW locals, Goto(r, step, locals), comments' = comments,
             req[r].op # "comment" \/ locals = None
      PROVE  Quiet
  BY <1>1, <1>4, OnIs
<1>5. ASSUME Leave(r), comments' = comments
      PROVE  Quiet
  BY <1>1, <1>5, GoneIs
<1> HIDE DEF Quiet
<1>6. ASSUME NEW q \in Lists, FindAll(r, q)
      PROVE  Quiet
  BY <1>3, <1>6 DEF FindAll, newsVars, newsTables, Idle
<1>7. CASE CreateArticle(r)
  BY <1>2, <1>3, <1>7 DEF CreateArticle, newsVars, newsTables, Idle
<1>8. ASSUME NEW n, FindOne(r, n)
      PROVE  Quiet
  BY <1>3, <1>8 DEF FindOne, newsVars, newsTables, Idle
<1>9. ASSUME NEW n, RemoveArticle(r, n)
      PROVE  Quiet
  <2> DEFINE q == [Idle EXCEPT !.op = "remove", !.id = DetailKey(n),
                               !.at = IF Cached(DetailKey(n)) THEN "write" ELSE "read"]
  <2>1. Start(r, q) /\ comments' = comments
    BY <1>9 DEF RemoveArticle, newsVars, newsTables
  <2>2. q.op = "remove"
    BY DEF Idle
  <2>3. QED
    BY <1>3, <2>1, <2>2
<1>10. ASSUME NEW n, IncrementView(r, n)
       PROVE  Quiet
  BY <1>3, <1>10 DEF IncrementView, Idle
<1>11. ASSUME NEW n, NEW part, UpdateArticle(r, n, part)
       PROVE  Quiet
  BY <1>3, <1>11 DEF UpdateArticle, newsVars, newsTables, Idle
<1>12. ASSUME NEW kind, NEW u, NEW n, Toggle(r, kind, u, n)
       PROVE  Quiet
  BY <1>3, <1>12 DEF Toggle, newsVars, newsTables, Idle
<1>13. CASE Read(r)
  BY <1>2, <1>4, <1>5, <1>13 DEF Read, newsVars, newsTables
<1>14. CASE Set(r)
  BY <1>2, <1>4, <1>5, <1>14 DEF Set, newsTables
<1>15. CASE Track(r) \/ ClearKeys(r)
  BY <1>2, <1>5, <1>15 DEF Track, ClearKeys, newsTables
<1>16. CASE WriteArticle(r)
  BY <1>2, <1>4, <1>16 DEF WriteArticle
<1>17. CASE DropDetail(r) \/ DropLists(r)
  BY <1>2, <1>4, <1>5, <1>17 DEF DropDetail, DropLists, newsTables
<1>18. CASE WriteMark(r) \/ AnswerMark(r)
  BY <1>2, <1>4, <1>5, <1>18 DEF WriteMark, AnswerMark, newsTables, Is
<1>19. CASE NewsFail(r)
  BY <1>2, <1>5, <1>19 DEF NewsFail, Fail, newsTables
<1>20. ASSUME NEW n \in DOMAIN articles, NEW parent \in (DOMAIN comments) \union {None},
              AddComment(r, n, parent)
       PROVE  ThreadInv'
  <2>1. ReplyOK(req'[r]) /\ comments' = comments
    BY <1>20, AddCommentThread
  <2>2. ThreadsOK' /\ ParentsStay
    BY <1>1, <2>1 DEF ThreadsOK, ParentsStay, Live
  <2>3. RepliesOK'
    BY <1>1, <2>1, <2>2, RepliesStay DEF ReplyOK
  <2>4. QED
    BY <2>2, <2>3 DEF ThreadInv
<1>21. CASE InsertComment(r)
  <2>1. ThreadsOK' /\ ParentsStay
    BY <1>21, InsertCommentThread
  <2>2. req'[r].op = "none"
    BY <1>1, <1>21, GoneIs DEF InsertComment
  <2>3. RepliesOK'
    BY <1>1, <2>1, <2>2, RepliesStay
  <2>4. QED
    BY <2>1, <2>3 DEF ThreadInv
<1>22. QED
  BY <1>2, <1>6, <1>7, <1>8, <1>9, <1>10, <1>11, <1>12, <1>13, <1>14, <1>15, <1>16, <1>17,
     <1>18, <1>19, <1>20, <1>21 DEF NewsSteps

LEMMA ThreadInvKept ==
  ASSUME NewsInv, ThreadInv, None \notin Nat, [NewsNext]_NewsFlight
  PROVE  ThreadInv'
<1>1. CASE \E r \in Requests : NewsSteps(r)
  BY <1>1, ThreadStep
<1>2. ASSUME NEW c \in DOMAIN comments, RemoveComment(c)
      PROVE  ThreadInv'
  <2>1. ThreadsOK' /\ ParentsStay /\ req' = req
    BY <1>2, RemoveCommentThread DEF RemoveComment, Once
  <2>2. RepliesOK'
    BY <2>1, ReplyStays DEF ThreadInv, RepliesOK, ReplyOK
  <2>3. QED
    BY <2>1, <2>2 DEF ThreadInv
<1>3. CASE UNCHANGED <<req, comments>>
  BY <1>3 DEF ThreadInv, ThreadsOK, RepliesOK, ReplyOK, Live
<1>4. CASE \E k \in DOMAIN cache : Expire(k)
  BY <1>3, <1>4 DEF Expire, flight, newsTables
<1>5. CASE NewsRestart
  BY <1>3, <1>5 DEF NewsRestart, Once, newsTables
<1>6. CASE UNCHANGED NewsFlight
  BY <1>3, <1>6 DEF NewsFlight, flight, newsVars, newsTables
<1>7. QED
  BY <1>1, <1>2, <1>4, <1>5, <1>6 DEF NewsNext

-----------------------------------------------------------------------------
(* A mark that a toggle answered has a row, live or not.                   *)

LEMMA ToldMarkedStays ==
  ASSUME ToldMarked, told' = told, DOMAIN marks \subseteq DOMAIN marks',
         \A i \in DOMAIN marks : marks'[i].mark = marks[i].mark
  PROVE  ToldMarked'
<1>1. \A i \in DOMAIN marks : marks[i].mark \in {marks'[j].mark : j \in DOMAIN marks'}
  OBVIOUS
<1>2. QED
  BY <1>1 DEF ToldMarked

LEMMA EndsMarked ==
  ASSUME NewsInv, ToldMarked, NEW r \in Requests, Ends(r)
  PROVE  ToldMarked'
<1>1. ToggleOK(req[r]) /\ req[r].at = "answer" /\ marks' = marks
  BY DEF NewsInv, TogglesOK, Ends, Is, newsTables
<1>2. PICK i \in DOMAIN marks : marks[i].mark = req[r].id
  BY <1>1 DEF ToggleOK
<1>3. DOMAIN told' = {req[r].id} \union DOMAIN told
  BY EndsTold
<1>4. QED
  BY <1>1, <1>2, <1>3 DEF ToldMarked

LEMMA ToldMarkedKept ==
  ASSUME NewsInv, ToldMarked, [NewsNext]_NewsFlight
  PROVE  ToldMarked'
<1>1. CASE UNCHANGED <<marks, told>>
  BY <1>1, ToldMarkedStays
<1>2. ASSUME NEW r \in Requests, NewsSteps(r)
      PROVE  ToldMarked'
  <2>1. WriteMark(r) \/ AnswerMark(r) \/ NewsFail(r) \/ UNCHANGED <<marks, told>>
    BY <1>2 DEF NewsSteps, FindAll, CreateArticle, FindOne, RemoveArticle, IncrementView,
                UpdateArticle, Toggle, AddComment, Read, Set, Track, WriteArticle, DropDetail,
                DropLists, ClearKeys, InsertComment, newsVars, newsTables
  <2>2. CASE WriteMark(r)
    BY <2>2, WriteMarkIs, ToldMarkedStays DEF MarksGrow, WriteMark
  <2>3. CASE AnswerMark(r) \/ NewsFail(r)
    BY <1>1, <2>3, EndsMarked, AnswerMarkIs, NewsFailIs DEF newsTables
  <2>4. QED
    BY <1>1, <2>1, <2>2, <2>3
<1>3. ASSUME NEW c \in DOMAIN comments, RemoveComment(c)
      PROVE  ToldMarked'
  <2>1. told' = told /\ \E S : marks' = Kill(marks, S)
    BY <1>3 DEF RemoveComment
  <2>2. NewsTablesOK
    BY DEF NewsInv
  <2>3. QED
    BY <2>1, <2>2, KillMarks, ToldMarkedStays
<1>4. CASE NewsRestart \/ \E k \in DOMAIN cache : Expire(k)
  BY <1>1, <1>4 DEF NewsRestart, Expire, newsTables
<1>5. CASE UNCHANGED NewsFlight
  BY <1>1, <1>5 DEF NewsFlight, newsVars, newsTables
<1>6. QED
  BY <1>2, <1>3, <1>4, <1>5 DEF NewsNext

\* NewsService and CommentService: whatever requests overlap, fail or are cut by a restart,
\* the cache holds keys of lists and of articles, the keys to invalidate are of lists, a
\* reply that is there is of a comment that is there and is no reply, and an answered mark
\* has its row.
THEOREM NewsTypeCorrect == None \notin Nat => (NewsSpec => []NewsTypeOK)
<1> DEFINE Inv == CacheInv /\ ThreadInv /\ ToldMarked
<1>1. SUFFICES ASSUME None \notin Nat
               PROVE  NewsSpec => []NewsTypeOK
  OBVIOUS
<1>2. FlightInit /\ NewsInit => Inv
  <2>1. SUFFICES ASSUME FlightInit, NewsInit
                 PROVE  Inv
    OBVIOUS
  <2>2. \A r \in Requests : req[r].op = "none"
    BY <2>1 DEF FlightInit, Idle
  <2>3. FindsOK /\ RepliesOK
    BY <2>2 DEF FindsOK, FindOK, RepliesOK, ReplyOK
  <2>4. DOMAIN cache = {} /\ listKeys = {} /\ DOMAIN comments = {} /\ DOMAIN told = {}
    BY <2>1 DEF NewsInit
  <2>5. CacheKeysOK /\ ListKeysOK /\ ThreadsOK /\ ToldMarked
    BY <2>4 DEF CacheKeysOK, ListKeysOK, ThreadsOK, ToldMarked, Live
  <2>6. QED
    BY <2>3, <2>5 DEF CacheInv, ThreadInv
<1>3. NewsInv /\ Inv /\ [NewsNext]_NewsFlight => Inv'
  <2>1. SUFFICES ASSUME NewsInv, Inv, [NewsNext]_NewsFlight
                 PROVE  Inv'
    OBVIOUS
  <2>2. NewsRequestsOK
    BY <2>1 DEF NewsInv
  <2>3. QED
    BY <1>1, <2>1, <2>2, CacheInvKept, ThreadInvKept, ToldMarkedKept
<1>4. Inv => NewsTypeOK
  BY NewsTypeIs DEF CacheInv, ThreadInv
<1> HIDE DEF Inv
<1>5. QED
  BY <1>1, <1>2, <1>3, <1>4, NewsInvHolds, PTL DEF NewsSpec

-----------------------------------------------------------------------------
(* What the users were told of their marks.                                *)

Answers(q) == q.op = "toggle" /\ q.at = "answer"

\* The comment of a like is gone.
Gone(m) == m[1] = "like" /\ m[3] \in DOMAIN comments /\ ~comments[m[3]].live

\* The toggles that wrote add up to how the mark stands.
Balance(m) == Answered(m) + Cardinality(ToBeTold(m, TRUE)) - Cardinality(ToBeTold(m, FALSE))
Balanced(m) == Balance(m) = IF RowsOfMark(m) = {} THEN 0 ELSE 1
LedgerOK == \A m \in Marks : Gone(m) \/ Balanced(m)

\* What an answer moves from one part of a balance to another.
LEMMA Moved ==
  ASSUME NEW s \in Int, NEW t \in Nat, NEW f \in Nat
  PROVE  /\ s + (t + 1) - f = (s + t - f) + 1
         /\ s + t - (f + 1) = (s + t - f) - 1
         /\ s + 1 + (t - 1) - f = s + t - f
         /\ s + (-1) + t - (f - 1) = s + t - f
  OBVIOUS

LEMMA ToBeToldFinite ==
  ASSUME NEW m, NEW b
  PROVE  IsFiniteSet(ToBeTold(m, b)) /\ Cardinality(ToBeTold(m, b)) \in Nat
<1>1. ToBeTold(m, b) \subseteq Requests
  BY DEF ToBeTold
<1>2. QED
  BY <1>1, InFlightAssumption, FS_Subset, FS_CardinalityType

\* A step of r, which owes no answer before it or after it, changes none of the sets.
LEMMA SameToBeTold ==
  ASSUME NEW r \in Requests, \A s \in Requests \ {r} : req'[s] = req[s],
         ~Answers(req[r]), ~Answers(req'[r])
  PROVE  \A m, b : ToBeTold(m, b)' = ToBeTold(m, b)
BY DEF ToBeTold, Answers, Is

\* One that comes to owe an answer, or no longer does, is of one of them.
LEMMA OneMoreToBeTold ==
  ASSUME NEW r \in Requests, \A s \in Requests \ {r} : req'[s] = req[s],
         ~Answers(req[r]), Answers(req'[r]), NEW x, x = req'[r].id, NEW c, c = req'[r].data
  PROVE  /\ r \notin ToBeTold(x, c)
         /\ ToBeTold(x, c)' = ToBeTold(x, c) \union {r}
         /\ \A m, b : m # x \/ b # c => ToBeTold(m, b)' = ToBeTold(m, b)
BY DEF ToBeTold, Answers, Is

LEMMA OneLessToBeTold ==
  ASSUME NEW r \in Requests, \A s \in Requests \ {r} : req'[s] = req[s],
         Answers(req[r]), ~Answers(req'[r]), NEW x, x = req[r].id, NEW c, c = req[r].data
  PROVE  /\ r \in ToBeTold(x, c)
         /\ ToBeTold(x, c)' = ToBeTold(x, c) \ {r}
         /\ \A m, b : m # x \/ b # c => ToBeTold(m, b)' = ToBeTold(m, b)
BY DEF ToBeTold, Answers, Is

\* A comment that is gone stays gone.
LEMMA GoneStays ==
  ASSUME NewsInv, [NewsNext]_NewsFlight, NEW m, Gone(m)
  PROVE  Gone(m)'
<1>1. NewsTablesOK /\ comments \in Seq(CommentRows)
  BY DEF NewsInv, NewsTablesOK
<1>2. CASE comments' = comments
  BY <1>2 DEF Gone
<1>3. ASSUME NEW new, comments' = Append(comments, new)
      PROVE  Gone(m)'
  <2>1. DOMAIN comments \subseteq DOMAIN comments' /\ \A c \in DOMAIN comments : comments'[c] = comments[c]
    BY <1>1, <1>3
  <2>2. QED
    BY <2>1 DEF Gone
<1>4. ASSUME NEW S, comments' = Kill(comments, S)
      PROVE  Gone(m)'
  <2>1. /\ DOMAIN comments' = DOMAIN comments
        /\ \A c \in DOMAIN comments : comments'[c].live = (comments[c].live /\ c \notin S)
    BY <1>1, <1>4, KillComments
  <2>2. QED
    BY <2>1 DEF Gone
<1>5. ASSUME NEW r \in Requests, NewsSteps(r)
      PROVE  Gone(m)'
  <2>1. InsertComment(r) \/ comments' = comments
    BY <1>5 DEF NewsSteps, FindAll, CreateArticle, FindOne, RemoveArticle, IncrementView,
                UpdateArticle, Toggle, AddComment, Read, Set, Track, WriteArticle, DropDetail,
                DropLists, ClearKeys, WriteMark, AnswerMark, NewsFail, newsVars, newsTables
  <2>2. CASE InsertComment(r)
    BY <1>2, <1>3, <2>2 DEF InsertComment
  <2>3. QED
    BY <1>2, <2>1, <2>2
<1>6. CASE \E c \in DOMAIN comments : RemoveComment(c)
  BY <1>4, <1>6 DEF RemoveComment
<1>7. CASE NewsRestart \/ (\E k \in DOMAIN cache : Expire(k)) \/ UNCHANGED NewsFlight
  BY <1>2, <1>7 DEF NewsRestart, Expire, NewsFlight, newsVars, newsTables
<1>8. QED
  BY <1>5, <1>6, <1>7 DEF NewsNext

\* Nothing is told, set or owed: the balance of every mark stays.
LEMMA QuietLedger ==
  ASSUME LedgerOK, told' = told, \A m, b : ToBeTold(m, b)' = ToBeTold(m, b),
         \A m : Gone(m) => Gone(m)',
         \A m \in Marks : Gone(m)' \/ RowsOfMark(m)' = RowsOfMark(m)
  PROVE  LedgerOK'
<1>1. SUFFICES ASSUME NEW m \in Marks, ~Gone(m)'
               PROVE  Balanced(m)'
  BY DEF LedgerOK
<1>2. Balanced(m) /\ RowsOfMark(m)' = RowsOfMark(m)
  BY <1>1 DEF LedgerOK
<1>3. Balance(m)' = Balance(m)
  BY DEF Balance, Answered, ToldOf
<1>4. QED
  BY <1>2, <1>3 DEF Balanced

\* A step of a request that neither writes a mark nor ends after one.
LEMMA QuietStep ==
  ASSUME NewsInv, NEW r \in Requests, NewsSteps(r), ~WriteMark(r), ~Ends(r)
  PROVE  told' = told /\ marks' = marks /\ ~Answers(req[r]) /\ ~Answers(req'[r])
<1> DEFINE Quiet == told' = told /\ marks' = marks /\ ~Answers(req[r]) /\ ~Answers(req'[r])
<1>1. NewsRequestsOK
  BY DEF NewsInv
<1>2. ASSUME NEW q, Start(r, q), q.op # "toggle" \/ q.at # "answer", told' = told, marks' = marks
      PROVE  Quiet
  <2>1. req[r] = Idle /\ Idle.op = "none"
    BY <1>2 DEF Start, Idle
  <2>2. QED
    BY <1>1, <1>2, <2>1, StartedIs DEF Answers
<1>3. ASSUME NEW step, NEW locals, Goto(r, step, locals), req[r].at # "answer", step # "answer",
             told' = told, marks' = marks
      PROVE  Quiet
  BY <1>1, <1>3, OnIs DEF Answers
<1>4. ASSUME Leave(r), ~Is(r, "toggle", "answer"), told' = told, marks' = marks
      PROVE  Quiet
  BY <1>1, <1>4, GoneIs DEF Answers, Is
<1> SUFFICES Quiet
  OBVIOUS
<1> HIDE DEF Quiet
<1>5. ASSUME NEW q \in Lists, FindAll(r, q)
      PROVE  Quiet
  BY <1>2, <1>5 DEF FindAll, newsVars, newsTables, Idle
<1>6. CASE CreateArticle(r)
  BY <1>2, <1>6 DEF CreateArticle, newsVars, newsTables, Idle
<1>7. ASSUME NEW n, FindOne(r, n)
      PROVE  Quiet
  BY <1>2, <1>7 DEF FindOne, newsVars, newsTables, Idle
<1>8. ASSUME NEW n, RemoveArticle(r, n)
      PROVE  Quiet
  <2> DEFINE q == [Idle EXCEPT !.op = "remove", !.id = DetailKey(n),
                               !.at = IF Cached(DetailKey(n)) THEN "write" ELSE "read"]
  <2>1. Start(r, q) /\ told' = told /\ marks' = marks
    BY <1>8 DEF RemoveArticle, newsVars, newsTables
  <2>2. q.op = "remove"
    BY DEF Idle
  <2>3. QED
    BY <1>2, <2>1, <2>2
<1>9. ASSUME NEW n, IncrementView(r, n)
      PROVE  Quiet
  BY <1>2, <1>9 DEF IncrementView, Idle
<1>10. ASSUME NEW n, NEW part, UpdateArticle(r, n, part)
       PROVE  Quiet
  BY <1>2, <1>10 DEF UpdateArticle, newsVars, newsTables, Idle
<1>11. ASSUME NEW kind, NEW u, NEW n, Toggle(r, kind, u, n)
       PROVE  Quiet
  BY <1>2, <1>11 DEF Toggle, newsVars, newsTables, Idle
<1>12. ASSUME NEW n, NEW parent, AddComment(r, n, parent)
       PROVE  Quiet
  <2> DEFINE q == [Idle EXCEPT !.op = "comment", !.at = "insert", !.id = n,
                               !.data = IF parent = None THEN None ELSE TopOf(parent)]
  <2>1. Start(r, q) /\ told' = told /\ marks' = marks
    BY <1>12 DEF AddComment, newsVars, newsTables
  <2>2. q.op = "comment"
    BY DEF Idle
  <2>3. QED
    BY <1>2, <2>1, <2>2
<1>13. CASE Read(r)
  BY <1>3, <1>4, <1>13 DEF Read, newsVars, newsTables, Is
<1>14. CASE Set(r)
  BY <1>3, <1>4, <1>14 DEF Set, newsTables, Is
<1>15. CASE Track(r) \/ ClearKeys(r)
  BY <1>4, <1>15 DEF Track, ClearKeys, newsTables, Is
<1>16. CASE WriteArticle(r)
  BY <1>3, <1>16 DEF WriteArticle
<1>17. CASE DropDetail(r) \/ DropLists(r)
  BY <1>3, <1>4, <1>17 DEF DropDetail, DropLists, newsTables, Is
<1>18. CASE InsertComment(r)
  BY <1>4, <1>18 DEF InsertComment, Is
<1>19. CASE AnswerMark(r) \/ NewsFail(r)
  <2>1. Leave(r) /\ ~Is(r, "toggle", "answer") /\ UNCHANGED <<newsTables, told>>
    BY <1>19, AnswerMarkIs, NewsFailIs
  <2>2. QED
    BY <1>4, <2>1 DEF newsTables
<1>20. QED
  BY <1>5, <1>6, <1>7, <1>8, <1>9, <1>10, <1>11, <1>12, <1>13, <1>14, <1>15, <1>16, <1>17,
     <1>18, <1>19 DEF NewsSteps, Quiet

\* A write turns the mark over, and owes its user the answer that says so.
LEMMA WriteLedger ==
  ASSUME NewsInv, LedgerOK, NEW r \in Requests, WriteMark(r)
  PROVE  LedgerOK'
<1>1. NewsRequestsOK /\ ToldOK /\ ~Answers(req[r]) /\ req[r].op = "toggle"
  BY DEF NewsInv, WriteMark, Is, Answers
<1>2. \A s \in Requests \ {r} : req'[s] = req[s]
  BY <1>1, OneMoves DEF NewsSteps
<1>3. \A m : Gone(m) <=> Gone(m)'
  BY DEF WriteMark, Gone
<1>4. CASE Leave(r) /\ UNCHANGED <<newsTables, told>>
  <2>1. ~Answers(req'[r])
    BY <1>1, <1>4, GoneIs DEF Answers
  <2>2. \A m, b : ToBeTold(m, b)' = ToBeTold(m, b)
    BY <1>1, <1>2, <2>1, SameToBeTold
  <2>3. \A m \in Marks : RowsOfMark(m)' = RowsOfMark(m)
    BY <1>4 DEF RowsOfMark, Live, newsTables
  <2>4. QED
    BY <1>3, <1>4, <2>2, <2>3, QuietLedger
<1>5. ASSUME NEW x, x = req[r].id, NEW b \in BOOLEAN, Goto(r, "answer", b), MarkSet(x, b)
      PROVE  LedgerOK'
  <2>1. Answers(req'[r]) /\ req'[r].id = x /\ req'[r].data = b /\ told' = told
    BY <1>1, <1>5, OnIs DEF Answers, WriteMark
  <2>2. /\ r \notin ToBeTold(x, b)
        /\ ToBeTold(x, b)' = ToBeTold(x, b) \union {r}
        /\ \A m, c : m # x \/ c # b => ToBeTold(m, c)' = ToBeTold(m, c)
    BY <1>1, <1>2, <2>1, OneMoreToBeTold
  <2>3. \A m : Answered(m)' = Answered(m) /\ Answered(m) \in Int
    BY <1>1, <2>1, ToldOfFacts DEF Answered, ToldOf
  <2>4. Cardinality(ToBeTold(x, b)') = Cardinality(ToBeTold(x, b)) + 1
    BY <2>2, ToBeToldFinite, FS_AddElement
  <2>5. (RowsOfMark(x) = {}) = b /\ (RowsOfMark(x) = {})' = ~b
    BY <1>5 DEF MarkSet
  <2>6. SUFFICES ASSUME NEW m \in Marks, ~Gone(m)
                 PROVE  Balanced(m)'
    BY <1>3 DEF LedgerOK
  <2>7. Balanced(m)
    BY <2>6 DEF LedgerOK
  <2>8. CASE m # x
    <3>1. RowsOfMark(m)' = RowsOfMark(m)
      BY <1>5, <2>8 DEF MarkSet
    <3>2. Balance(m)' = Balance(m)
      BY <2>2, <2>3, <2>8 DEF Balance
    <3>3. QED
      BY <2>7, <3>1, <3>2 DEF Balanced
  <2>9. CASE m = x
    <3>1. PICK s \in Int, t \in Nat, f \in Nat :
             /\ s = Answered(x)
             /\ t = Cardinality(ToBeTold(x, TRUE)) /\ f = Cardinality(ToBeTold(x, FALSE))
      BY <2>3, ToBeToldFinite
    <3>2. CASE b = TRUE
      <4>1. Balance(x) = s + t - f /\ Balance(x)' = s + (t + 1) - f
        BY <2>2, <2>3, <2>4, <3>1, <3>2 DEF Balance
      <4>2. Balance(x) = 0
        BY <2>5, <2>7, <2>9, <3>2 DEF Balanced
      <4>3. Balance(x)' = Balance(x) + 1
        <5>1. s + (t + 1) - f = (s + t - f) + 1
          BY Moved
        <5>2. QED
          BY <4>1, <5>1
      <4>4. QED
        BY <2>5, <2>9, <3>2, <4>2, <4>3 DEF Balanced
    <3>3. CASE b = FALSE
      <4>1. Balance(x) = s + t - f /\ Balance(x)' = s + t - (f + 1)
        BY <2>2, <2>3, <2>4, <3>1, <3>3 DEF Balance
      <4>2. Balance(x) = 1
        BY <2>5, <2>7, <2>9, <3>3 DEF Balanced
      <4>3. Balance(x)' = Balance(x) - 1
        <5>1. s + t - (f + 1) = (s + t - f) - 1
          BY Moved
        <5>2. QED
          BY <4>1, <5>1
      <4>4. QED
        BY <2>5, <2>9, <3>3, <4>2, <4>3 DEF Balanced
    <3>4. QED
      BY <3>2, <3>3
  <2>10. QED
    BY <2>8, <2>9
<1>6. QED
  BY <1>4, <1>5, WriteMarkIs

\* What was owed is said, or will never be.
LEMMA EndLedger ==
  ASSUME NewsInv, LedgerOK, NEW r \in Requests, Ends(r), NewsSteps(r)
  PROVE  LedgerOK'
<1> PICK x, b : x = req[r].id /\ b = req[r].data
  OBVIOUS
<1>1. NewsRequestsOK /\ ToldOK /\ Answers(req[r]) /\ b \in BOOLEAN
  BY DEF NewsInv, Ends, Is, Answers, TogglesOK, ToggleOK
<1>2. \A s \in Requests \ {r} : req'[s] = req[s]
  BY <1>1, OneMoves
<1>3. ~Answers(req'[r])
  BY <1>1, GoneIs DEF Answers, Ends
<1>4. /\ Answered(x)' = Answered(x) + Sign(b)
      /\ \A m : m # x => Answered(m)' = Answered(m)
  BY EndsTold
<1>5. /\ r \in ToBeTold(x, b)
      /\ ToBeTold(x, b)' = ToBeTold(x, b) \ {r}
      /\ \A m, c : m # x \/ c # b => ToBeTold(m, c)' = ToBeTold(m, c)
  BY <1>1, <1>2, <1>3, OneLessToBeTold
<1>6. \A m : (Gone(m) <=> Gone(m)') /\ RowsOfMark(m)' = RowsOfMark(m)
  BY DEF Ends, newsTables, Gone, RowsOfMark, Live
<1>7. Cardinality(ToBeTold(x, b)') = Cardinality(ToBeTold(x, b)) - 1
  BY <1>5, ToBeToldFinite, FS_RemoveElement
<1>8. SUFFICES ASSUME NEW m \in Marks, ~Gone(m)
               PROVE  Balanced(m)'
  BY <1>6 DEF LedgerOK
<1>9. Balance(m)' = Balance(m)
  <2>1. CASE m # x
    BY <1>4, <1>5, <2>1 DEF Balance
  <2>2. CASE m = x
    <3>1. PICK s \in Int, t \in Nat, f \in Nat :
             /\ s = Answered(x)
             /\ t = Cardinality(ToBeTold(x, TRUE)) /\ f = Cardinality(ToBeTold(x, FALSE))
      BY <1>1, ToldOfFacts, ToBeToldFinite
    <3>2. CASE b = TRUE
      <4>1. Balance(x) = s + t - f /\ Balance(x)' = s + 1 + (t - 1) - f
        BY <1>4, <1>5, <1>7, <3>1, <3>2 DEF Balance, Sign
      <4>2. s + 1 + (t - 1) - f = s + t - f
        BY Moved
      <4>3. QED
        BY <2>2, <4>1, <4>2
    <3>3. CASE b = FALSE
      <4>1. Balance(x) = s + t - f /\ Balance(x)' = s + (-1) + t - (f - 1)
        BY <1>4, <1>5, <1>7, <3>1, <3>3 DEF Balance, Sign
      <4>2. s + (-1) + t - (f - 1) = s + t - f
        BY Moved
      <4>3. QED
        BY <2>2, <4>1, <4>2
    <3>4. QED
      BY <1>1, <3>2, <3>3
  <2>3. QED
    BY <2>1, <2>2
<1>10. Balanced(m)
  BY <1>8 DEF LedgerOK
<1>11. QED
  BY <1>6, <1>9, <1>10 DEF Balanced

\* The likes that go are of comments that go.
LEMMA RemoveLedger ==
  ASSUME NewsInv, LedgerOK, NEW c \in DOMAIN comments, RemoveComment(c)
  PROVE  LedgerOK'
<1> DEFINE gone == {c} \union {d \in Live(comments) : comments[d].parent = c}
           likes == {i \in Live(marks) : marks[i].mark[1] = "like" /\ marks[i].mark[3] \in gone}
<1>1. /\ comments' = Kill(comments, gone) /\ marks' = Kill(marks, likes)
      /\ told' = told /\ req' = req
  BY DEF RemoveComment, Once
<1>2. /\ \A i \in likes : marks[i].mark[1] = "like" /\ marks[i].mark[3] \in gone
      /\ gone \subseteq DOMAIN comments
  BY DEF Live
<1> HIDE DEF gone, likes
<1>3. /\ DOMAIN marks' = DOMAIN marks
      /\ \A i \in DOMAIN marks :
           /\ marks'[i].mark = marks[i].mark
           /\ marks'[i].live = (marks[i].live /\ i \notin likes)
  BY <1>1, KillMarks DEF NewsInv
<1>4. /\ DOMAIN comments' = DOMAIN comments
      /\ \A d \in DOMAIN comments : comments'[d].live = (comments[d].live /\ d \notin gone)
  BY <1>1, KillComments DEF NewsInv
<1>5. ASSUME NEW m \in Marks, ~Gone(m)'
      PROVE  RowsOfMark(m)' = RowsOfMark(m)
  <2>1. \A i \in likes : marks[i].mark # m
    BY <1>2, <1>4, <1>5 DEF Gone
  <2>2. QED
    BY <1>3, <2>1 DEF RowsOfMark, Live
<1>6. \A m : Gone(m) => Gone(m)'
  BY <1>4 DEF Gone
<1>7. \A m, b : ToBeTold(m, b)' = ToBeTold(m, b)
  BY <1>1 DEF ToBeTold, Is
<1>8. QED
  BY <1>1, <1>5, <1>6, <1>7, QuietLedger

LEMMA LedgerKept ==
  ASSUME NewsInv, LedgerOK, [NewsNext]_NewsFlight
  PROVE  LedgerOK'
<1>1. NewsRequestsOK /\ \A m : Gone(m) => Gone(m)'
  BY GoneStays DEF NewsInv
<1>2. ASSUME NEW r \in Requests, NewsSteps(r)
      PROVE  LedgerOK'
  <2>1. CASE WriteMark(r)
    BY <2>1, WriteLedger
  <2>2. CASE Ends(r)
    BY <1>2, <2>2, EndLedger
  <2>3. CASE ~WriteMark(r) /\ ~Ends(r)
    <3>1. told' = told /\ marks' = marks /\ ~Answers(req[r]) /\ ~Answers(req'[r])
      BY <1>2, <2>3, QuietStep
    <3>2. \A m, b : ToBeTold(m, b)' = ToBeTold(m, b)
      BY <1>1, <1>2, <3>1, OneMoves, SameToBeTold
    <3>3. \A m : RowsOfMark(m)' = RowsOfMark(m)
      BY <3>1 DEF RowsOfMark, Live
    <3>4. QED
      BY <1>1, <3>1, <3>2, <3>3, QuietLedger
  <2>4. QED
    BY <2>1, <2>2, <2>3
<1>3. CASE \E c \in DOMAIN comments : RemoveComment(c)
  BY <1>3, RemoveLedger
<1>4. CASE NewsRestart \/ (\E k \in DOMAIN cache : Expire(k)) \/ UNCHANGED NewsFlight
  <2>1. told' = told /\ marks' = marks /\ req' = req
    BY <1>4 DEF NewsRestart, Expire, Once, NewsFlight, newsVars, newsTables, flight
  <2>2. \A m, b : ToBeTold(m, b)' = ToBeTold(m, b)
    BY <2>1 DEF ToBeTold, Is
  <2>3. \A m : RowsOfMark(m)' = RowsOfMark(m)
    BY <2>1 DEF RowsOfMark, Live
  <2>4. QED
    BY <1>1, <2>1, <2>2, <2>3, QuietLedger
<1>5. QED
  BY <1>2, <1>3, <1>4 DEF NewsNext

LEMMA LedgerStarts ==
  ASSUME FlightInit, NewsInit
  PROVE  LedgerOK
<1>1. SUFFICES ASSUME NEW m \in Marks
               PROVE  Balanced(m)
  BY DEF LedgerOK
<1>2. told = <<>> /\ marks = <<>> /\ \A r \in Requests : req[r].op = "none"
  BY DEF NewsInit, FlightInit, Idle
<1>3. Answered(m) = 0
  <2>1. m \notin DOMAIN told
    BY <1>2
  <2>2. QED
    BY <2>1 DEF Answered, ToldOf
<1>4. RowsOfMark(m) = {}
  BY <1>2 DEF RowsOfMark, Live
<1>5. ToBeTold(m, TRUE) = {} /\ ToBeTold(m, FALSE) = {}
  BY <1>2 DEF ToBeTold, Is
<1>6. Balance(m) = 0
  <2>1. Cardinality(ToBeTold(m, TRUE)) = 0 /\ Cardinality(ToBeTold(m, FALSE)) = 0
    BY <1>5, FS_EmptySet
  <2>2. Balance(m) = 0 + 0 - 0
    BY <1>3, <2>1 DEF Balance
  <2>3. QED
    BY <2>2
<1>7. QED
  BY <1>4, <1>6 DEF Balanced

\* toggleBookmark and toggleLike: however many clicks overlap, whichever calls fail, are
\* refused or are cut between the write and the answer, and whatever is commented and
\* removed meanwhile, what the user of a mark was told, is to be told and was never told
\* adds up to whether its row is there.
THEOREM TogglesAsAnsweredHolds == NewsSpec => []TogglesAsAnswered
<1>1. NewsInv /\ LedgerOK => TogglesAsAnswered
  <2>1. SUFFICES ASSUME NewsInv, LedgerOK, NEW i \in DOMAIN marks,
                        marks[i].mark[1] = "bookmark" \/ marks[i].mark[3] \in Live(comments)
                 PROVE  Balanced(marks[i].mark)
    BY DEF TogglesAsAnswered, Balanced, Balance, Answered
  <2>2. marks[i].mark \in Marks
    BY <2>1, Indices DEF NewsInv, MarkRows
  <2>3. ~Gone(marks[i].mark)
    BY <2>1 DEF Gone, Live
  <2>4. QED
    BY <2>1, <2>2, <2>3 DEF LedgerOK
<1>2. FlightInit /\ NewsInit => LedgerOK
  BY LedgerStarts
<1>3. NewsInv /\ LedgerOK /\ [NewsNext]_NewsFlight => LedgerOK'
  BY LedgerKept
<1>4. QED
  BY <1>1, <1>2, <1>3, NewsInvHolds, PTL DEF NewsSpec

-----------------------------------------------------------------------------
(* QaSettings.                                                             *)

(* Lists.                                                                  *)

LEMMA SequenceIs ==
  ASSUME NEW s, IsSequence(s)
  PROVE  /\ Len(s) \in Nat
         /\ DOMAIN s = 1..Len(s)
         /\ s = [i \in 1..Len(s) |-> s[i]]
  BY DEF IsSequence

LEMMA ListOf ==
  ASSUME NEW n \in Nat, NEW f, f = [i \in 1..n |-> f[i]]
  PROVE  IsSequence(f) /\ Len(f) = n
<1>1. DOMAIN f = 1..n
  OBVIOUS
<1>2. \A i \in 1..n : f[i] \in Range(f)
  BY <1>1 DEF Range
<1>3. f \in [1..n -> Range(f)]
  BY <1>2
<1>4. QED
  BY <1>3 DEF IsSequence

LEMMA JoinedIs ==
  ASSUME NEW s, NEW t, IsSequence(s), IsSequence(t)
  PROVE  /\ IsSequence(s \o t)
         /\ Len(s \o t) = Len(s) + Len(t)
         /\ \A i \in 1..Len(s) : (s \o t)[i] = s[i]
         /\ \A i \in 1..Len(t) : (s \o t)[Len(s) + i] = t[i]
         /\ \A k \in 1..Len(s \o t) :
              k \in 1..Len(s) \/ \E i \in 1..Len(t) : k = Len(s) + i
<1> DEFINE S == Range(s) \union Range(t)
<1>1. s \in Seq(S) /\ t \in Seq(S)
  <2>1. /\ Len(s) \in Nat /\ DOMAIN s = 1..Len(s) /\ s = [i \in 1..Len(s) |-> s[i]]
        /\ Len(t) \in Nat /\ DOMAIN t = 1..Len(t) /\ t = [i \in 1..Len(t) |-> t[i]]
    BY SequenceIs
  <2>2. /\ \A i \in 1..Len(s) : s[i] \in S
        /\ \A i \in 1..Len(t) : t[i] \in S
    BY <2>1 DEF Range
  <2> HIDE DEF S
  <2>3. s \in [1..Len(s) -> S] /\ t \in [1..Len(t) -> S]
    BY <2>1, <2>2
  <2>4. QED
    BY <2>1, <2>3
<1> HIDE DEF S
<1>2. /\ Len(s \o t) = Len(s) + Len(t)
      /\ s \o t \in Seq(S)
      /\ \A i \in 1..Len(s) : (s \o t)[i] = s[i]
      /\ \A i \in 1..Len(t) : (s \o t)[Len(s) + i] = t[i]
  BY <1>1
<1>3. Len(s) \in Nat /\ Len(t) \in Nat
  BY <1>1
<1>4. s \o t = [i \in 1..(Len(s) + Len(t)) |-> (s \o t)[i]]
  <2> DEFINE u == s \o t
  <2>1. u \in Seq(S) /\ Len(u) = Len(s) + Len(t)
    BY <1>2
  <2> HIDE DEF u
  <2>2. u = [i \in 1..Len(u) |-> u[i]]
    BY <2>1
  <2>3. QED
    BY <2>1, <2>2 DEF u
<1>5. \A k \in 1..Len(s \o t) : k \in 1..Len(s) \/ (k - Len(s) \in 1..Len(t) /\ k = Len(s) + (k - Len(s)))
  BY <1>2, <1>3
<1>6. QED
  BY <1>2, <1>3, <1>4, <1>5, ListOf

LEMMA EmptyIs == IsSequence(<<>>) /\ Len(<<>>) = 0 /\ DOMAIN <<>> = {}
  BY DEF IsSequence

LEMMA LeastOf ==
  ASSUME NEW S, S \subseteq Nat, S # {}
  PROVE  \E x \in S : \A y \in S : x <= y
<1>1. PICK R : IsWellFoundedOn(R, Nat) /\ \A m, n \in Nat : m < n => <<m, n>> \in R
  BY NatWellFounded
<1>2. PICK x \in S : \A y \in S : ~ (<<y, x>> \in R)
  <2>1. IsWellFoundedOn(R, Nat)
    BY <1>1
  <2>2. QED
    BY <2>1, WFMin
<1>3. \A y \in S : ~(y < x)
  BY <1>1, <1>2
<1>4. \A y \in S : x <= y
  BY <1>3
<1>5. QED
  BY <1>4

LEMMA GreatestOf ==
  ASSUME NEW n \in Nat, NEW S, S \subseteq 1..n, S # {}
  PROVE  \E x \in S : \A y \in S : x >= y
<1> DEFINE T == {n - x : x \in S}
<1>1. T \subseteq Nat /\ T # {}
  <2>1. \A x \in S : x \in Nat /\ x <= n /\ n - x \in Nat
    OBVIOUS
  <2>2. PICK x \in S : TRUE
    OBVIOUS
  <2>3. n - x \in T
    OBVIOUS
  <2>4. QED
    BY <2>1, <2>3
<1>2. PICK d \in T : \A e \in T : d <= e
  <2> HIDE DEF T
  <2>1. QED
    BY <1>1, LeastOf
<1>3. PICK x \in S : d = n - x
  BY <1>2
<1>4. \A y \in S : n - x <= n - y
  BY <1>2, <1>3
<1>5. \A y \in S : x >= y
  BY <1>4
<1>6. QED
  BY <1>5

\* Min and Max of a set of places are in it.
LEMMA MinMaxIn ==
  ASSUME NEW n \in Nat, NEW S, S \subseteq 1..n, S # {}
  PROVE  Min(S) \in S /\ Max(S) \in S
<1>1. \E x \in S : \A y \in S : x <= y
  <2>1. S \subseteq Nat
    OBVIOUS
  <2>2. QED
    BY <2>1, LeastOf
<1>2. \E x \in S : \A y \in S : x >= y
  BY GreatestOf
<1>3. QED
  BY <1>1, <1>2 DEF Min, Max

\* Induction up to a number, over a set.
LEMMA UpToAll ==
  ASSUME NEW L \in Nat, NEW S, 0 \in S, \A i \in 0..(L - 1) : i \in S => i + 1 \in S
  PROVE  0..L \subseteq S
<1> DEFINE T == (0..L) \ S
<1>1. T \subseteq Nat
  OBVIOUS
<1>2. SUFFICES ASSUME T # {} PROVE FALSE
  OBVIOUS
<1>3. PICK n \in T : \A m \in T : n <= m
  BY <1>1, <1>2, LeastOf
<1>4. n \in 0..L /\ n \notin S /\ n # 0
  OBVIOUS
<1>5. n - 1 \in 0..(L - 1) /\ n - 1 \in 0..L /\ (n - 1) + 1 = n /\ ~(n <= n - 1)
  BY <1>4
<1>6. n - 1 \notin S
  BY <1>4, <1>5
<1>7. n - 1 \in T
  BY <1>5, <1>6
<1>8. QED
  BY <1>3, <1>5, <1>7

-----------------------------------------------------------------------------
(* The order of a list.                                                    *)

\* The order has every place once, whatever the weights.
LEMMA OrderedFacts ==
  ASSUME NEW S, S \subseteq Nat, IsFiniteSet(S),
         NEW weight, \A i \in S : weight[i] \in Nat
  PROVE  LET order == Ordered(S, weight) IN
           /\ Cardinality(S) \in Nat
           /\ order \in [1..Cardinality(S) -> S]
           /\ \A i \in S : \E k \in 1..Cardinality(S) : order[k] = i
           /\ \A k, l \in 1..Cardinality(S) : order[k] = order[l] => k = l
<1> DEFINE N == Cardinality(S)
           Before(i) == UpTo(S, weight, i)
           place == [i \in S |-> Cardinality(Before(i))]
           order == Ordered(S, weight)
<1>1. N \in Nat
  BY FS_CardinalityType
<1>2. \A i \in S : /\ Before(i) \subseteq S
                   /\ i \in Before(i)
                   /\ IsFiniteSet(Before(i))
                   /\ Cardinality(Before(i)) \in Nat
                   /\ Cardinality(Before(i)) <= N
                   /\ Cardinality(Before(i)) # 0
  <2>1. SUFFICES ASSUME NEW i \in S
                 PROVE  /\ Before(i) \subseteq S
                        /\ i \in Before(i)
                        /\ IsFiniteSet(Before(i))
                        /\ Cardinality(Before(i)) \in Nat
                        /\ Cardinality(Before(i)) <= N
                        /\ Cardinality(Before(i)) # 0
    OBVIOUS
  <2>2. Before(i) \subseteq S
    BY DEF UpTo
  <2>3. i \in Before(i)
    <3>1. i \in Nat /\ i <= i /\ weight[i] = weight[i]
      OBVIOUS
    <3>2. QED
      BY <3>1 DEF UpTo
  <2> HIDE DEF Before
  <2>4. IsFiniteSet(Before(i)) /\ Cardinality(Before(i)) <= N
    BY <2>2, FS_Subset
  <2>5. Cardinality(Before(i)) \in Nat
    BY <2>4, FS_CardinalityType
  <2>6. Cardinality(Before(i)) # 0
    BY <2>3, <2>4, FS_EmptySet
  <2>7. QED
    BY <2>2, <2>3, <2>4, <2>5, <2>6
<1>3. \A i, j \in S : Before(i) \subseteq Before(j) /\ j \notin Before(i)
                        => Cardinality(Before(i)) # Cardinality(Before(j))
  <2> HIDE DEF Before
  <2>1. SUFFICES ASSUME NEW i \in S, NEW j \in S, Before(i) \subseteq Before(j),
                        j \notin Before(i), Cardinality(Before(i)) = Cardinality(Before(j))
                 PROVE  FALSE
    OBVIOUS
  <2>2. IsFiniteSet(Before(j)) /\ j \in Before(j)
    BY <1>2
  <2>3. Before(i) = Before(j)
    BY <2>1, <2>2, FS_Subset
  <2>4. QED
    BY <2>1, <2>2, <2>3
<1>4. \A i, j \in S :
        i # j => \/ Before(i) \subseteq Before(j) /\ j \notin Before(i)
                 \/ Before(j) \subseteq Before(i) /\ i \notin Before(j)
  <2>1. \A i, k \in S : k \in Before(i) <=> weight[k] < weight[i] \/ (weight[k] = weight[i] /\ k <= i)
    BY DEF UpTo
  <2>2. \A i \in S : Before(i) \subseteq S /\ i \in Nat /\ weight[i] \in Nat
    BY <1>2
  <2> HIDE DEF Before
  <2>3. ASSUME NEW i \in S, NEW j \in S, i # j,
               weight[i] < weight[j] \/ (weight[i] = weight[j] /\ i <= j)
        PROVE  Before(i) \subseteq Before(j) /\ j \notin Before(i)
    <3>1. \A k \in S : k \in Before(i) => k \in Before(j)
      BY <2>1, <2>2, <2>3
    <3>2. j \notin Before(i)
      BY <2>1, <2>2, <2>3
    <3>3. QED
      BY <2>2, <3>1, <3>2
  <2>4. \A i, j \in S : \/ weight[i] < weight[j] \/ (weight[i] = weight[j] /\ i <= j)
                       \/ weight[j] < weight[i] \/ (weight[j] = weight[i] /\ j <= i)
    BY <2>2
  <2>5. QED
    BY <2>3, <2>4
<1>5. place \in [S -> 1..N]
  <2> HIDE DEF Before
  <2>1. \A i \in S : Cardinality(Before(i)) \in 1..N
    BY <1>1, <1>2
  <2>2. QED
    BY <2>1
<1>6. \A i, j \in S : place[i] = place[j] => i = j
  <2> HIDE DEF Before
  <2>1. QED
    BY <1>3, <1>4
<1>7. \A k \in 1..N : \E i \in S : place[i] = k
  <2> HIDE DEF place
  <2>1. place \in Injection(S, 1..N)
    BY <1>5, <1>6 DEF Injection, IsInjective
  <2>2. IsFiniteSet(1..N) /\ Cardinality(1..N) = N
    <3> HIDE DEF N
    <3>1. 1 \in Int /\ N \in Int
      BY <1>1
    <3>2. IsFiniteSet(1..N) /\ Cardinality(1..N) = IF 1 > N THEN 0 ELSE N - 1 + 1
      BY <3>1, FS_Interval
    <3>3. QED
      BY <1>1, <3>2
  <2>3. place \in Surjection(S, 1..N)
    BY <2>1, <2>2, FS_Injection
  <2>4. QED
    BY <2>3 DEF Surjection
<1>8. \A k \in 1..N : order[k] \in S /\ place[order[k]] = k
  <2>1. SUFFICES ASSUME NEW k \in 1..N PROVE order[k] \in S /\ place[order[k]] = k
    OBVIOUS
  <2>2. order[k] = CHOOSE i \in S : k = Cardinality(UpTo(S, weight, i))
    BY DEF Ordered
  <2>3. PICK i \in S : k = Cardinality(UpTo(S, weight, i))
    BY <1>7
  <2> HIDE DEF order
  <2>4. order[k] \in S /\ k = Cardinality(UpTo(S, weight, order[k]))
    BY <2>2, <2>3
  <2>5. QED
    BY <2>4
<1>9. DOMAIN order = 1..N /\ order = [k \in 1..N |-> order[k]]
  BY DEF Ordered
<1> HIDE DEF place, order, Before
<1>10. order \in [1..N -> S]
  BY <1>8, <1>9
<1>11. \A k, l \in 1..N : order[k] = order[l] => k = l
  BY <1>8
<1>12. \A i \in S : \E k \in 1..N : order[k] = i
  <2>1. SUFFICES ASSUME NEW i \in S PROVE \E k \in 1..N : order[k] = i
    OBVIOUS
  <2>2. place[i] \in 1..N
    BY <1>5
  <2>3. order[place[i]] \in S /\ place[order[place[i]]] = place[i]
    BY <1>8, <2>2
  <2>4. order[place[i]] = i
    BY <1>6, <2>3
  <2>5. QED
    BY <2>2, <2>4
<1>13. QED
  BY <1>1, <1>10, <1>11, <1>12 DEF order

\* part has the rows at the places in S, each place once.
Selection(part, rows, S) ==
  /\ IsSequence(part)
  /\ \A i \in S : \E k \in 1..Len(part) : part[k] = rows[i]
  /\ \A k \in 1..Len(part) : \E i \in S : part[k] = rows[i]
  /\ \A k, l \in 1..Len(part) :
       k # l => \E i, j \in S : i # j /\ part[k] = rows[i] /\ part[l] = rows[j]

LEMMA RearrangedFacts ==
  ASSUME NEW rows, IsSequence(rows), NEW S \in SUBSET DOMAIN rows,
         NEW weight, \A i \in S : weight[i] \in Nat
  PROVE  Selection(Rearranged(rows, Ordered(S, weight)), rows, S)
<1> DEFINE order == Ordered(S, weight)
           N == Cardinality(S)
           part == Rearranged(rows, order)
<1>1. S \subseteq Nat /\ IsFiniteSet(S)
  <2>1. DOMAIN rows = 1..Len(rows) /\ Len(rows) \in Nat
    BY SequenceIs
  <2>2. 1 \in Int /\ Len(rows) \in Int
    BY <2>1
  <2>3. IsFiniteSet(1..Len(rows))
    BY <2>2, FS_Interval
  <2>4. QED
    BY <2>1, <2>3, FS_Subset
<1>2. /\ N \in Nat
      /\ order \in [1..N -> S]
      /\ \A i \in S : \E k \in 1..N : order[k] = i
      /\ \A k, l \in 1..N : order[k] = order[l] => k = l
  BY <1>1, OrderedFacts
<1> HIDE DEF order, N
<1>3. part = [k \in 1..N |-> rows[order[k]]]
  BY <1>2 DEF Rearranged
<1>4. \A k \in 1..N : part[k] = rows[order[k]] /\ order[k] \in S
  BY <1>2, <1>3
<1>5. part = [k \in 1..N |-> part[k]]
  BY <1>3
<1> HIDE DEF part
<1>6. IsSequence(part) /\ Len(part) = N
  BY <1>2, <1>5, ListOf
<1>7. \A i \in S : \E k \in 1..Len(part) : part[k] = rows[i]
  BY <1>2, <1>4, <1>6
<1>8. \A k, l \in 1..Len(part) :
        k # l => \E i, j \in S : i # j /\ part[k] = rows[i] /\ part[l] = rows[j]
  BY <1>2, <1>4, <1>6
<1>9. QED
  BY <1>4, <1>6, <1>7, <1>8 DEF part, order, Selection

LEMMA RowsAtFacts ==
  ASSUME NEW rows, IsSequence(rows), NEW S \in SUBSET DOMAIN rows
  PROVE  Selection(RowsAt(rows, S), rows, S)
<1> DEFINE weight == [i \in S |-> 0]
<1>1. \A i \in S : weight[i] \in Nat
  OBVIOUS
<1>2. RowsAt(rows, S) = Rearranged(rows, Ordered(S, weight))
  BY DEF RowsAt
<1> HIDE DEF weight
<1>3. Selection(Rearranged(rows, Ordered(S, weight)), rows, S)
  BY <1>1, RearrangedFacts
<1>4. QED
  BY <1>2, <1>3

LEMMA ByNameFacts ==
  ASSUME NEW rows, IsSequence(rows)
  PROVE  Selection(ByName(rows), rows, DOMAIN rows)
<1> DEFINE S == DOMAIN rows
           Earlier(i) == {j \in S : NameBefore(rows[j].name, rows[i].name)}
           weight == [i \in S |-> Cardinality(Earlier(i))]
<1>1. IsFiniteSet(S)
  <2>1. S = 1..Len(rows) /\ 1 \in Int /\ Len(rows) \in Int
    BY SequenceIs
  <2>2. QED
    BY <2>1, FS_Interval
<1>2. \A i \in S : weight[i] \in Nat
  <2>1. SUFFICES ASSUME NEW i \in S PROVE Cardinality(Earlier(i)) \in Nat
    OBVIOUS
  <2>2. Earlier(i) \subseteq S
    OBVIOUS
  <2> HIDE DEF Earlier
  <2>3. IsFiniteSet(Earlier(i))
    BY <1>1, <2>2, FS_Subset
  <2>4. QED
    BY <2>3, FS_CardinalityType
<1>3. ByName(rows) = Rearranged(rows, Ordered(S, weight))
  BY DEF ByName
<1>4. S \in SUBSET DOMAIN rows
  OBVIOUS
<1> HIDE DEF weight, S
<1>5. Selection(Rearranged(rows, Ordered(S, weight)), rows, S)
  BY <1>2, <1>4, RearrangedFacts
<1>6. QED
  BY <1>3, <1>5 DEF S

-----------------------------------------------------------------------------
(* The plan of a save.                                                     *)

LEMMA AppendedIs ==
  ASSUME NEW s, IsSequence(s), NEW e
  PROVE  /\ IsSequence(Append(s, e))
         /\ Len(Append(s, e)) = Len(s) + 1
         /\ \A i \in 1..Len(s) : Append(s, e)[i] = s[i]
         /\ Append(s, e)[Len(s) + 1] = e
         /\ Range(Append(s, e)) = Range(s) \union {e}
<1> DEFINE S == Range(s) \union {e}
           t == Append(s, e)
<1>1. s \in Seq(S) /\ Len(s) \in Nat /\ DOMAIN s = 1..Len(s)
  <2>1. /\ Len(s) \in Nat /\ DOMAIN s = 1..Len(s) /\ s = [i \in 1..Len(s) |-> s[i]]
    BY SequenceIs
  <2>2. \A i \in 1..Len(s) : s[i] \in S
    BY <2>1 DEF Range
  <2> HIDE DEF S
  <2>3. s \in [1..Len(s) -> S]
    BY <2>1, <2>2
  <2>4. QED
    BY <2>1, <2>3
<1>2. e \in S
  OBVIOUS
<1> HIDE DEF S
<1>3. /\ t \in Seq(S)
      /\ Len(t) = Len(s) + 1
      /\ \A i \in 1..Len(s) : t[i] = s[i]
      /\ t[Len(s) + 1] = e
  BY <1>1, <1>2
<1> HIDE DEF t
<1>4. Len(t) \in Nat /\ DOMAIN t = 1..Len(t) /\ t = [i \in 1..Len(t) |-> t[i]]
  BY <1>1, <1>3
<1>5. IsSequence(t)
  BY <1>4, ListOf
<1>6. 1..Len(t) = (1..Len(s)) \union {Len(s) + 1}
  BY <1>1, <1>3
<1>7. Range(t) = Range(s) \union {e}
  BY <1>1, <1>3, <1>4, <1>6 DEF Range
<1>8. QED
  BY <1>3, <1>5, <1>7 DEF t

\* The agent matcher knows a name of the table as itself, and others by one of its names.
LEMMA CanonicalFacts ==
  ASSUME NEW ls, IsSequence(ls), NEW name
  PROVE  /\ name \in NamesIn(ls) => Canonical(ls, name) = name
         /\ Canonical(ls, name) = name \/ Canonical(ls, name) \in NamesIn(ls)
<1> DEFINE similar == {i \in Ids(ls) : SmartMatch(name, ls[i].name)}
<1>1. Len(ls) \in Nat /\ Ids(ls) \subseteq 1..Len(ls)
  BY SequenceIs DEF Ids
<1>2. \A n \in NamesIn(ls) : Max(IdsOf(ls, n)) \in Ids(ls) /\ ls[Max(IdsOf(ls, n))].name = n
  <2>1. SUFFICES ASSUME NEW n \in NamesIn(ls)
                 PROVE  Max(IdsOf(ls, n)) \in Ids(ls) /\ ls[Max(IdsOf(ls, n))].name = n
    OBVIOUS
  <2>2. IdsOf(ls, n) # {} /\ IdsOf(ls, n) \subseteq 1..Len(ls)
    BY <1>1 DEF IdsOf, NamesIn
  <2>3. Max(IdsOf(ls, n)) \in IdsOf(ls, n)
    BY <1>1, <2>2, MinMaxIn
  <2>4. QED
    BY <2>3 DEF IdsOf
<1>3. CASE name \in NamesIn(ls)
  <2>1. FindAgentMatch(ls, name) = Max(IdsOf(ls, name))
    BY <1>3 DEF FindAgentMatch
  <2>2. QED
    BY <1>2, <1>3, <2>1 DEF Canonical
<1>4. CASE name \notin NamesIn(ls) /\ similar = {}
  BY <1>4 DEF FindAgentMatch, Canonical
<1>5. CASE name \notin NamesIn(ls) /\ similar # {}
  <2>1. similar \subseteq 1..Len(ls)
    BY <1>1
  <2>2. Min(similar) \in similar
    <3> HIDE DEF similar
    <3>1. QED
      BY <1>1, <1>5, <2>1, MinMaxIn
  <2>3. ls[Min(similar)].name \in NamesIn(ls)
    BY <2>2 DEF NamesIn
  <2>4. FindAgentMatch(ls, name) = Max(IdsOf(ls, ls[Min(similar)].name))
    BY <1>5 DEF FindAgentMatch
  <2>5. ls[FindAgentMatch(ls, name)].name \in NamesIn(ls)
    <3> HIDE DEF similar
    <3>1. QED
      BY <1>2, <2>3, <2>4
  <2>6. QED
    BY <1>5, <2>5 DEF Canonical
<1>6. QED
  BY <1>3, <1>4, <1>5

\* No peak of an agent has two tappers, and no tapper of an agent two rows.
TargetsApart(table) ==
  \A i, j \in DOMAIN table :
    /\ i # j /\ OfAgent(table[i]) /\ OfAgent(table[j]) /\ table[i].name = table[j].name
    => table[i].peaks \intersect table[j].peaks = {} /\ table[i].tapper # table[j].tapper

TypesOK(table) == \A t \in Range(table) : t.type \in {"QC", "AGENT"}

\* What a row of the page asks for, and when it is skipped.
TargetOf(ls, ag) == Target("AGENT", Canonical(ls, ag.name), ag.tapper, ag.peaks)
Repeats(ls, ag, earlier) ==
  /\ Canonical(ls, ag.name) = Canonical(ls, earlier.name)
  /\ ag.tapper = earlier.tapper \/ ag.peaks \intersect earlier.peaks # {}

\* The rows of agents up to n are planned.
Planned(ls, agents, table, n) ==
  /\ IsSequence(table)
  /\ TypesOK(table)
  /\ TargetsApart(table)
  /\ \A t \in Range(table) : OfAgent(t) => \E m \in 1..n : t = TargetOf(ls, agents[m])
  /\ \A m \in 1..n : \/ TargetOf(ls, agents[m]) \in Range(table)
                     \/ \E l \in 1..(m - 1) : Repeats(ls, agents[m], agents[l])

Accumulated(ls, agents, acc, n) ==
  /\ DOMAIN acc = {"targets", "pairs", "claimed", "updates", "creates"}
  /\ IsSequence(acc.creates)
  /\ Planned(ls, agents, acc.targets, n)
  /\ \A t \in Range(acc.targets) : OfAgent(t) => <<t.name, t.tapper>> \in acc.pairs
  /\ \A p \in acc.pairs :
       \E m \in 1..n : p = <<Canonical(ls, agents[m].name), agents[m].tapper>>

LEMMA TargetIs ==
  ASSUME NEW ls, NEW ag
  PROVE  LET t == TargetOf(ls, ag) IN
           /\ OfAgent(t) /\ t.type = "AGENT"
           /\ t.name = Canonical(ls, ag.name) /\ t.tapper = ag.tapper /\ t.peaks = ag.peaks
  BY DEF TargetOf, Target, OfAgent

LEMMA QcTargetsAre ==
  ASSUME NEW qcs, IsSequence(qcs)
  PROVE  IsSequence(QcTargets(qcs)) /\ \A t \in Range(QcTargets(qcs)) : t.type = "QC"
<1> DEFINE S == {n \in DOMAIN qcs : \A m \in 1..(n - 1) : qcs[m] # qcs[n]}
           names == RowsAt(qcs, S)
           table == [n \in DOMAIN names |-> Target("QC", names[n], "", {})]
<1>1. QcTargets(qcs) = table
  BY DEF QcTargets
<1>2. IsSequence(names)
  <2>1. S \in SUBSET DOMAIN qcs
    OBVIOUS
  <2> HIDE DEF S
  <2>2. QED
    BY <2>1, RowsAtFacts DEF Selection
<1> HIDE DEF names
<1>3. Len(names) \in Nat /\ DOMAIN names = 1..Len(names)
  BY <1>2, SequenceIs
<1>4. table = [n \in 1..Len(names) |-> table[n]]
  BY <1>3
<1>5. \A t \in Range(table) : t.type = "QC"
  <2>1. \A n \in DOMAIN names : table[n].type = "QC"
    BY DEF Target
  <2>2. DOMAIN table = DOMAIN names
    OBVIOUS
  <2> HIDE DEF table
  <2>3. QED
    BY <2>1, <2>2 DEF Range
<1> HIDE DEF table
<1>6. IsSequence(table)
  BY <1>3, <1>4, ListOf
<1>7. QED
  BY <1>1, <1>5, <1>6

\* The lookup rows of a row that is kept leave the targets alone.
LEMMA WithLookupFacts ==
  ASSUME NEW ls, NEW acc, NEW name, NEW ag, IsSequence(acc.creates),
         DOMAIN acc = {"targets", "pairs", "claimed", "updates", "creates"},
         NEW next, next = WithLookup(ls, acc, name, ag)
  PROVE  /\ DOMAIN next = {"targets", "pairs", "claimed", "updates", "creates"}
         /\ next.targets = acc.targets /\ next.pairs = acc.pairs
         /\ IsSequence(next.creates)
<1>1. \/ next = acc
      \/ \E updates : next = [acc EXCEPT !.updates = updates]
      \/ \E updates, claimed : next = [acc EXCEPT !.updates = updates, !.claimed = claimed]
      \/ \E row : next = [acc EXCEPT !.creates = Append(acc.creates, row)]
  BY DEF WithLookup
<1>2. CASE next = acc
  BY <1>2
<1>3. CASE \E updates : next = [acc EXCEPT !.updates = updates]
  BY <1>3
<1>4. CASE \E updates, claimed : next = [acc EXCEPT !.updates = updates, !.claimed = claimed]
  BY <1>4
<1>5. CASE \E row : next = [acc EXCEPT !.creates = Append(acc.creates, row)]
  <2>1. PICK row : next = [acc EXCEPT !.creates = Append(acc.creates, row)]
    BY <1>5
  <2>2. IsSequence(Append(acc.creates, row))
    BY AppendedIs
  <2>3. QED
    BY <2>1, <2>2
<1>6. QED
  BY <1>1, <1>2, <1>3, <1>4, <1>5

\* One more row of the page.
LEMMA TakeAgentFacts ==
  ASSUME NEW ls, NEW agents, NEW acc, NEW n \in Nat, Accumulated(ls, agents, acc, n)
  PROVE  Accumulated(ls, agents, TakeAgent(ls, acc, agents[n + 1]), n + 1)
<1> DEFINE ag == agents[n + 1]
           name == Canonical(ls, ag.name)
           pair == <<name, ag.tapper>>
           noted == [acc EXCEPT !.pairs = acc.pairs \union {pair}]
           target == TargetOf(ls, ag)
           longer == Append(acc.targets, target)
           kept == [noted EXCEPT !.targets = longer]
           next == TakeAgent(ls, acc, ag)
<1>1. /\ DOMAIN acc = {"targets", "pairs", "claimed", "updates", "creates"}
      /\ IsSequence(acc.creates)
      /\ Planned(ls, agents, acc.targets, n)
      /\ \A t \in Range(acc.targets) : OfAgent(t) => <<t.name, t.tapper>> \in acc.pairs
      /\ \A p \in acc.pairs :
           \E m \in 1..n : p = <<Canonical(ls, agents[m].name), agents[m].tapper>>
  BY DEF Accumulated
<1>2. /\ IsSequence(acc.targets) /\ TypesOK(acc.targets) /\ TargetsApart(acc.targets)
      /\ \A t \in Range(acc.targets) : OfAgent(t) => \E m \in 1..n : t = TargetOf(ls, agents[m])
      /\ \A m \in 1..n : \/ TargetOf(ls, agents[m]) \in Range(acc.targets)
                         \/ \E l \in 1..(m - 1) : Repeats(ls, agents[m], agents[l])
  BY <1>1 DEF Planned
<1>3. 1..(n + 1) = (1..n) \union {n + 1} /\ (n + 1) - 1 = n
  OBVIOUS
<1>4. /\ OfAgent(target) /\ target.type = "AGENT"
      /\ target.name = name /\ target.tapper = ag.tapper /\ target.peaks = ag.peaks
  BY TargetIs
<1>5. next = IF pair \in acc.pairs THEN acc
             ELSE IF Conflicts(acc.targets, name, ag) THEN noted
             ELSE WithLookup(ls, kept, name, ag)
  BY DEF TakeAgent, TargetOf
<1> HIDE DEF next, target
<1>6. ASSUME \E l \in 1..n : Repeats(ls, ag, agents[l])
      PROVE  Planned(ls, agents, acc.targets, n + 1)
  <2>1. \A m \in 1..(n + 1) : \/ TargetOf(ls, agents[m]) \in Range(acc.targets)
                              \/ \E l \in 1..(m - 1) : Repeats(ls, agents[m], agents[l])
    BY <1>2, <1>3, <1>6
  <2>2. \A t \in Range(acc.targets) :
          OfAgent(t) => \E m \in 1..(n + 1) : t = TargetOf(ls, agents[m])
    BY <1>2, <1>3
  <2>3. QED
    BY <1>2, <2>1, <2>2 DEF Planned
<1>7. CASE pair \in acc.pairs
  <2>1. PICK l \in 1..n : pair = <<Canonical(ls, agents[l].name), agents[l].tapper>>
    BY <1>1, <1>7
  <2>2. Repeats(ls, ag, agents[l])
    BY <2>1 DEF Repeats
  <2>3. Planned(ls, agents, acc.targets, n + 1)
    BY <1>6, <2>2
  <2>4. \A p \in acc.pairs :
           \E m \in 1..(n + 1) : p = <<Canonical(ls, agents[m].name), agents[m].tapper>>
    BY <1>1, <1>3
  <2>5. next = acc
    BY <1>5, <1>7
  <2>6. QED
    BY <1>1, <2>3, <2>4, <2>5 DEF Accumulated, next
<1>8. \A p \in acc.pairs \union {pair} :
        \E m \in 1..(n + 1) : p = <<Canonical(ls, agents[m].name), agents[m].tapper>>
  BY <1>1, <1>3
<1>9. /\ DOMAIN noted = DOMAIN acc
      /\ noted.targets = acc.targets /\ noted.creates = acc.creates
      /\ noted.pairs = acc.pairs \union {pair}
  BY <1>1
<1>10. CASE pair \notin acc.pairs /\ Conflicts(acc.targets, name, ag)
  <2>1. PICK t \in Range(acc.targets) :
           OfAgent(t) /\ t.name = name /\ t.peaks \intersect ag.peaks # {}
    BY <1>10 DEF Conflicts
  <2>2. PICK l \in 1..n : t = TargetOf(ls, agents[l])
    BY <1>2, <2>1
  <2>3. t.name = Canonical(ls, agents[l].name) /\ t.peaks = agents[l].peaks
    BY <2>2, TargetIs
  <2>4. Repeats(ls, ag, agents[l])
    BY <2>1, <2>3 DEF Repeats
  <2>5. Planned(ls, agents, acc.targets, n + 1)
    BY <1>6, <2>4
  <2>6. next = noted
    BY <1>5, <1>10
  <2> HIDE DEF noted
  <2>7. Accumulated(ls, agents, noted, n + 1)
    BY <1>1, <1>8, <1>9, <2>5 DEF Accumulated
  <2>8. QED
    BY <2>6, <2>7 DEF next
<1>11. CASE pair \notin acc.pairs /\ ~Conflicts(acc.targets, name, ag)
  <2>1. /\ IsSequence(longer)
        /\ Len(longer) = Len(acc.targets) + 1
        /\ \A i \in 1..Len(acc.targets) : longer[i] = acc.targets[i]
        /\ longer[Len(acc.targets) + 1] = target
        /\ Range(longer) = Range(acc.targets) \union {target}
    BY <1>2, AppendedIs
  <2>2. \A t \in Range(acc.targets) :
          OfAgent(t) /\ t.name = name => t.peaks \intersect ag.peaks = {} /\ t.tapper # ag.tapper
    BY <1>1, <1>11 DEF Conflicts
  <2> HIDE DEF longer
  <2>3. /\ Len(acc.targets) \in Nat /\ DOMAIN acc.targets = 1..Len(acc.targets)
        /\ DOMAIN longer = 1..Len(longer)
        /\ \A i \in 1..Len(acc.targets) : acc.targets[i] \in Range(acc.targets)
    BY <1>2, <2>1, SequenceIs DEF Range
  <2>4. TargetsApart(longer)
    <3>1. SUFFICES ASSUME NEW i \in DOMAIN longer, NEW j \in DOMAIN longer, i # j,
                          OfAgent(longer[i]), OfAgent(longer[j]), longer[i].name = longer[j].name
                   PROVE  /\ longer[i].peaks \intersect longer[j].peaks = {}
                          /\ longer[i].tapper # longer[j].tapper
      BY DEF TargetsApart
    <3>2. \A k \in DOMAIN longer : k \in 1..Len(acc.targets) \/ k = Len(acc.targets) + 1
      BY <2>1, <2>3
    <3>3. CASE i \in 1..Len(acc.targets) /\ j \in 1..Len(acc.targets)
      BY <1>2, <2>1, <2>3, <3>1, <3>3 DEF TargetsApart
    <3>4. CASE i \in 1..Len(acc.targets) /\ j = Len(acc.targets) + 1
      BY <1>4, <2>1, <2>2, <2>3, <3>1, <3>4
    <3>5. CASE i = Len(acc.targets) + 1 /\ j \in 1..Len(acc.targets)
      <4>1. /\ acc.targets[j].peaks \intersect ag.peaks = {} /\ acc.targets[j].tapper # ag.tapper
        BY <1>4, <2>1, <2>2, <2>3, <3>1, <3>5
      <4>2. ag.peaks \intersect acc.targets[j].peaks = acc.targets[j].peaks \intersect ag.peaks
        OBVIOUS
      <4>3. QED
        BY <1>4, <2>1, <3>5, <4>1, <4>2
    <3>6. QED
      BY <3>1, <3>2, <3>3, <3>4, <3>5
  <2>5. TypesOK(longer)
    BY <1>2, <1>4, <2>1 DEF TypesOK
  <2>6. \A t \in Range(longer) :
          OfAgent(t) => \E m \in 1..(n + 1) : t = TargetOf(ls, agents[m])
    BY <1>2, <1>3, <2>1 DEF target
  <2>7. \A m \in 1..(n + 1) : \/ TargetOf(ls, agents[m]) \in Range(longer)
                              \/ \E l \in 1..(m - 1) : Repeats(ls, agents[m], agents[l])
    BY <1>2, <1>3, <2>1 DEF target
  <2>8. Planned(ls, agents, longer, n + 1)
    BY <2>1, <2>4, <2>5, <2>6, <2>7 DEF Planned
  <2>9. \A t \in Range(longer) : OfAgent(t) => <<t.name, t.tapper>> \in acc.pairs \union {pair}
    BY <1>1, <1>4, <2>1
  <2>10. /\ DOMAIN kept = {"targets", "pairs", "claimed", "updates", "creates"}
         /\ kept.targets = longer /\ kept.creates = acc.creates
         /\ kept.pairs = acc.pairs \union {pair}
    BY <1>1
  <2>11. next = WithLookup(ls, kept, name, ag)
    BY <1>5, <1>11
  <2> HIDE DEF kept, name, pair, ag
  <2>12. /\ DOMAIN next = {"targets", "pairs", "claimed", "updates", "creates"}
         /\ next.targets = kept.targets /\ next.pairs = kept.pairs
         /\ IsSequence(next.creates)
    BY <1>1, <2>10, <2>11, WithLookupFacts
  <2>13. /\ next.targets = longer /\ next.pairs = acc.pairs \union {pair}
    BY <2>10, <2>12
  <2>14. Accumulated(ls, agents, next, n + 1)
    BY <1>8, <2>8, <2>9, <2>12, <2>13 DEF Accumulated
  <2>15. QED
    BY <2>14 DEF next, ag
<1>12. QED
  BY <1>7, <1>10, <1>11

FirstAcc(page) ==
  [targets |-> QcTargets(page.qcs), pairs |-> {}, claimed |-> {}, updates |-> <<>>,
   creates |-> <<>>]
PlanTaken(ls, page, m, t) ==
  t = [n \in 0..m |-> IF n = 0 THEN FirstAcc(page) ELSE TakeAgent(ls, t[n - 1], page.agents[n])]

LEMMA PlanTakenExists ==
  ASSUME NEW ls, NEW page, Len(page.agents) \in Nat
  PROVE  \E t : PlanTaken(ls, page, Len(page.agents), t)
<1> DEFINE L == Len(page.agents)
           S == {m \in 0..L : \E t : PlanTaken(ls, page, m, t)}
<1>1. 0 \in S
  <2> DEFINE t == [n \in 0..0 |-> FirstAcc(page)]
  <2>1. t = [n \in 0..0 |-> IF n = 0 THEN FirstAcc(page)
                            ELSE TakeAgent(ls, t[n - 1], page.agents[n])]
    OBVIOUS
  <2>2. PlanTaken(ls, page, 0, t)
    BY <2>1 DEF PlanTaken
  <2>3. QED
    BY <2>2
<1>2. ASSUME NEW m \in 0..(L - 1), m \in S
      PROVE  m + 1 \in S
  <2>1. PICK t : PlanTaken(ls, page, m, t)
    BY <1>2
  <2> DEFINE n == m + 1
             u == [i \in 0..n |-> IF i = n THEN TakeAgent(ls, t[m], page.agents[n]) ELSE t[i]]
             v == [i \in 0..n |-> IF i = 0 THEN FirstAcc(page)
                                  ELSE TakeAgent(ls, u[i - 1], page.agents[i])]
  <2>2. /\ m \in Nat /\ n \in Nat /\ n - 1 = m /\ n # 0 /\ m \in 0..n /\ n \in 0..n
        /\ n \in 0..L
    OBVIOUS
  <2>3. \A i \in 0..n : i = n \/ (i \in 0..m /\ i # n)
    BY <2>2
  <2>4. ASSUME NEW i \in 0..n
        PROVE  u[i] = v[i]
    <3>1. CASE i = n
      <4>1. u[n] = TakeAgent(ls, t[m], page.agents[n])
        BY <2>2
      <4>2. u[m] = t[m]
        BY <2>2
      <4>3. v[n] = TakeAgent(ls, u[m], page.agents[n])
        BY <2>2
      <4>4. QED
        BY <3>1, <4>1, <4>2, <4>3
    <3>2. CASE i \in 0..m /\ i # n
      <4>1. u[i] = t[i]
        BY <3>2
      <4>2. t[i] = IF i = 0 THEN FirstAcc(page) ELSE TakeAgent(ls, t[i - 1], page.agents[i])
        BY <2>1, <3>2 DEF PlanTaken
      <4>3. i # 0 => i - 1 \in 0..n /\ i - 1 # n
        BY <2>2, <3>2
      <4>4. i # 0 => u[i - 1] = t[i - 1]
        BY <4>3
      <4>5. v[i] = IF i = 0 THEN FirstAcc(page) ELSE TakeAgent(ls, u[i - 1], page.agents[i])
        OBVIOUS
      <4> HIDE DEF u, v
      <4>6. QED
        BY <4>1, <4>2, <4>4, <4>5
    <3>3. QED
      BY <2>3, <3>1, <3>2
  <2>5. u = v
    <3>1. u = [i \in 0..n |-> u[i]] /\ v = [i \in 0..n |-> v[i]]
      OBVIOUS
    <3> HIDE DEF u, v
    <3>2. QED
      BY <2>4, <3>1
  <2>6. PlanTaken(ls, page, n, u)
    BY <2>5 DEF PlanTaken
  <2> HIDE DEF u
  <2>7. QED
    BY <2>2, <2>6
<1> HIDE DEF S
<1>3. 0..L \subseteq S
  BY <1>1, <1>2, UpToAll
<1>4. L \in 0..L
  OBVIOUS
<1>5. QED
  BY <1>3, <1>4 DEF S

\* What a save plans to create is a list of targets that are apart, one for every row of
\* the page but those that repeat an earlier one, and a list of lookup rows.
LEMMA PlanFacts ==
  ASSUME NEW ls, NEW page, IsSequence(page.qcs), IsSequence(page.agents)
  PROVE  LET plan == Plan(ls, page) IN
           /\ Planned(ls, page.agents, plan.targets, Len(page.agents))
           /\ IsSequence(plan.creates)
<1> DEFINE L == Len(page.agents)
           t == CHOOSE t : PlanTaken(ls, page, L, t)
<1>1. L \in Nat
  BY SequenceIs
<1>2. PlanTaken(ls, page, L, t)
  BY <1>1, PlanTakenExists
<1>3. Plan(ls, page).targets = t[L].targets /\ Plan(ls, page).creates = t[L].creates
  BY DEF Plan, PlanTaken, FirstAcc
<1> HIDE DEF t
<1> DEFINE S == {m \in 0..L : Accumulated(ls, page.agents, t[m], m)}
<1>4. 0 \in S
  <2> DEFINE table == QcTargets(page.qcs)
  <2>1. IsSequence(table) /\ \A q \in Range(table) : q.type = "QC"
    BY QcTargetsAre
  <2> HIDE DEF table
  <2>2. \A q \in Range(table) : ~OfAgent(q)
    BY <2>1 DEF OfAgent
  <2>3. TargetsApart(table)
    BY <2>2 DEF TargetsApart, Range
  <2>4. Planned(ls, page.agents, table, 0)
    BY <2>1, <2>2, <2>3 DEF Planned, TypesOK
  <2>5. t[0] = [targets |-> table, pairs |-> {}, claimed |-> {}, updates |-> <<>>,
                creates |-> <<>>]
    BY <1>1, <1>2 DEF PlanTaken, FirstAcc, table
  <2>6. Accumulated(ls, page.agents, t[0], 0)
    BY <2>2, <2>4, <2>5, EmptyIs DEF Accumulated
  <2>7. QED
    BY <1>1, <2>6
<1>5. ASSUME NEW m \in 0..(L - 1), m \in S
      PROVE  m + 1 \in S
  <2>1. /\ m \in Nat /\ m + 1 \in 0..L /\ m + 1 # 0 /\ (m + 1) - 1 = m
    BY <1>1
  <2>2. t[m + 1] = TakeAgent(ls, t[m], page.agents[m + 1])
    BY <1>2, <2>1 DEF PlanTaken
  <2>3. Accumulated(ls, page.agents, t[m], m)
    BY <1>5
  <2>4. Accumulated(ls, page.agents, t[m + 1], m + 1)
    BY <2>1, <2>2, <2>3, TakeAgentFacts
  <2>5. QED
    BY <2>1, <2>4
<1> HIDE DEF S
<1>6. 0..L \subseteq S
  BY <1>1, <1>4, <1>5, UpToAll
<1>7. L \in 0..L
  BY <1>1
<1>8. Accumulated(ls, page.agents, t[L], L)
  BY <1>6, <1>7 DEF S
<1>9. QED
  BY <1>3, <1>8 DEF Accumulated

-----------------------------------------------------------------------------
(* The page as it is shown.                                                *)

LEMMA AgentTargetsAre ==
  ASSUME IsSequence(targets)
  PROVE  /\ IsSequence(AgentTargets)
         /\ \A t : t \in Range(AgentTargets)
                     <=> \E i \in DOMAIN targets : OfAgent(targets[i]) /\ t = targets[i]
<1> DEFINE S == {i \in DOMAIN targets : OfAgent(targets[i])}
           part == AgentTargets
<1>1. Selection(part, targets, S)
  <2>1. part = RowsAt(targets, S) /\ S \in SUBSET DOMAIN targets
    BY DEF AgentTargets
  <2> HIDE DEF S, part
  <2>2. QED
    BY <2>1, RowsAtFacts
<1> HIDE DEF part
<1>2. /\ IsSequence(part)
      /\ \A i \in S : \E k \in 1..Len(part) : part[k] = targets[i]
      /\ \A k \in 1..Len(part) : \E i \in S : part[k] = targets[i]
  BY <1>1 DEF Selection
<1>3. DOMAIN part = 1..Len(part)
  BY <1>2, SequenceIs
<1>4. \A t : t \in Range(part) <=> \E k \in 1..Len(part) : t = part[k]
  BY <1>3 DEF Range
<1>5. \A t : t \in Range(part) <=> \E i \in S : t = targets[i]
  <2> HIDE DEF S
  <2>1. QED
    BY <1>2, <1>4
<1>6. QED
  BY <1>2, <1>5 DEF part

\* Every target of an agent is shown, and else only lookup rows of other agents.
LEMMA ShownFacts ==
  ASSUME IsSequence(targets), IsSequence(lookups)
  PROVE  LET page == Shown IN
           /\ IsSequence(page)
           /\ \A t \in Range(AgentTargets) : \E k \in 1..Len(page) : page[k] = ShownTarget(t)
           /\ \A k \in 1..Len(page) :
                \/ \E t \in Range(AgentTargets) : page[k] = ShownTarget(t)
                \/ \E i \in Ids(lookups) :
                     /\ page[k] = ShownLookup(lookups[i])
                     /\ \A t \in Range(AgentTargets) : t.name # lookups[i].name
<1> DEFINE agents == AgentTargets
           S == {i \in Ids(lookups) : lookups[i].name \notin {t.name : t \in Range(agents)}}
           others == RowsAt(lookups, S)
           front == [i \in DOMAIN agents |-> ShownTarget(agents[i])]
           back == [i \in DOMAIN others |-> ShownLookup(others[i])]
           rows == front \o back
           page == Shown
<1>1. IsSequence(agents)
  BY AgentTargetsAre
<1>2. Selection(others, lookups, S)
  <2>1. S \in SUBSET DOMAIN lookups
    BY DEF Ids
  <2> HIDE DEF S
  <2>2. QED
    BY <2>1, RowsAtFacts
<1>3. page = ByName(rows)
  BY DEF Shown
<1> HIDE DEF agents, others, page
<1>4. /\ IsSequence(others)
      /\ \A k \in 1..Len(others) : \E i \in S : others[k] = lookups[i]
  BY <1>2 DEF Selection
<1>5. /\ DOMAIN agents = 1..Len(agents) /\ Len(agents) \in Nat
      /\ DOMAIN others = 1..Len(others) /\ Len(others) \in Nat
  BY <1>1, <1>4, SequenceIs
<1>6. /\ front = [i \in 1..Len(agents) |-> front[i]]
      /\ back = [i \in 1..Len(others) |-> back[i]]
      /\ \A i \in 1..Len(agents) : front[i] = ShownTarget(agents[i])
      /\ \A i \in 1..Len(others) : back[i] = ShownLookup(others[i])
  BY <1>5
<1> HIDE DEF front, back
<1>7. /\ IsSequence(front) /\ Len(front) = Len(agents)
      /\ IsSequence(back) /\ Len(back) = Len(others)
  BY <1>5, <1>6, ListOf
<1>8. /\ IsSequence(rows)
      /\ Len(rows) = Len(front) + Len(back)
      /\ \A i \in 1..Len(front) : rows[i] = front[i]
      /\ \A i \in 1..Len(back) : rows[Len(front) + i] = back[i]
      /\ \A k \in 1..Len(rows) : k \in 1..Len(front) \/ \E i \in 1..Len(back) : k = Len(front) + i
  BY <1>7, JoinedIs
<1> HIDE DEF rows
<1>9. Selection(page, rows, DOMAIN rows) /\ DOMAIN rows = 1..Len(rows)
  BY <1>3, <1>8, ByNameFacts, SequenceIs
<1>10. /\ IsSequence(page)
       /\ \A i \in 1..Len(rows) : \E k \in 1..Len(page) : page[k] = rows[i]
       /\ \A k \in 1..Len(page) : \E i \in 1..Len(rows) : page[k] = rows[i]
  BY <1>9 DEF Selection
<1>11. \A t \in Range(agents) : \E k \in 1..Len(page) : page[k] = ShownTarget(t)
  <2>1. SUFFICES ASSUME NEW t \in Range(agents)
                 PROVE  \E k \in 1..Len(page) : page[k] = ShownTarget(t)
    OBVIOUS
  <2>2. PICK i \in 1..Len(agents) : t = agents[i]
    BY <1>5 DEF Range
  <2>3. i \in 1..Len(rows) /\ rows[i] = ShownTarget(t)
    BY <1>5, <1>6, <1>7, <1>8, <2>2
  <2>4. QED
    BY <1>10, <2>3
<1>12. \A k \in 1..Len(page) :
         \/ \E t \in Range(agents) : page[k] = ShownTarget(t)
         \/ \E i \in Ids(lookups) :
              /\ page[k] = ShownLookup(lookups[i])
              /\ \A t \in Range(agents) : t.name # lookups[i].name
  <2>1. SUFFICES ASSUME NEW k \in 1..Len(page)
                 PROVE  \/ \E t \in Range(agents) : page[k] = ShownTarget(t)
                        \/ \E i \in Ids(lookups) :
                             /\ page[k] = ShownLookup(lookups[i])
                             /\ \A t \in Range(agents) : t.name # lookups[i].name
    OBVIOUS
  <2>2. PICK n \in 1..Len(rows) : page[k] = rows[n]
    BY <1>10
  <2>3. CASE n \in 1..Len(front)
    <3>1. rows[n] = ShownTarget(agents[n]) /\ agents[n] \in Range(agents)
      BY <1>5, <1>6, <1>7, <1>8, <2>3 DEF Range
    <3>2. QED
      BY <2>2, <3>1
  <2>4. CASE \E i \in 1..Len(back) : n = Len(front) + i
    <3>1. PICK i \in 1..Len(back) : n = Len(front) + i
      BY <2>4
    <3>2. rows[n] = ShownLookup(others[i])
      BY <1>6, <1>7, <1>8, <3>1
    <3>3. PICK j \in S : others[i] = lookups[j]
      BY <1>4, <1>7
    <3>4. QED
      BY <2>2, <3>2, <3>3
  <2>5. QED
    BY <1>8, <2>3, <2>4
<1>13. QED
  BY <1>10, <1>11, <1>12 DEF page, agents

-----------------------------------------------------------------------------
(* The inductive invariant.                                                *)

SaveTopic == <<"save", "targets">>
Overlapped == {SaveTopic} \in raced

SettingsTablesOK ==
  /\ IsSequence(targets) /\ TypesOK(targets)
  /\ IsSequence(lookups)
  /\ DOMAIN work = {"tapping", "ticket"}

SettingsRequestsOK == DOMAIN req = Requests /\ \A r \in Requests : DOMAIN req[r] = Fields

\* A save has a list of targets that are apart to create, and later a list of lookup rows.
SaveOK(q) ==
  /\ q.topic = {SaveTopic}
  /\ q.at \in {"deleteTargets", "createTargets"} =>
       /\ IsSequence(q.data.targets) /\ TypesOK(q.data.targets) /\ TargetsApart(q.data.targets)
  /\ q.at \in {"deleteTargets", "createTargets", "orphans", "creates"} =>
       IsSequence(q.data.creates)
SavesOK == \A r \in Requests : req[r].op = "save" => SaveOK(req[r])

SavesRaced ==
  \A r, s \in Requests : r # s /\ req[r].op = "save" /\ req[s].op = "save" => Overlapped

\* The targets are apart, and gone when those of a save that is alone are created.
TargetsOK ==
  ~Overlapped =>
    /\ TargetsApart(targets)
    /\ \A r \in Requests : Is(r, "save", "createTargets") => targets = <<>>

\* The flag is up while the one job runs.
JobOK ==
  /\ retroRunning \in BOOLEAN
  /\ retroRunning <=> \E r \in Requests : req[r].op = "retro"
  /\ \A r, s \in Requests : req[r].op = "retro" /\ req[s].op = "retro" => r = s

SettingsInv == SettingsTablesOK /\ SettingsRequestsOK /\ SavesOK /\ SavesRaced /\ TargetsOK /\ JobOK

-----------------------------------------------------------------------------
(* The steps.                                                              *)

LEMMA IdleFields == DOMAIN Idle = Fields /\ Idle.op = "none" /\ Idle.at = "idle" /\ Idle.topic = {}
  BY DEF Idle, Fields

\* A request goes on, or ends, or a save turns into the job.
Moves(r) ==
  /\ DOMAIN req' = Requests
  /\ \A s \in Requests \ {r} : req'[s] = req[s]
  /\ DOMAIN req'[r] = Fields
  /\ raced' = raced
  /\ req'[r].op = "save" => req[r].op = "save" /\ SaveOK(req'[r])

LEMMA MovesKeeps ==
  ASSUME SettingsRequestsOK, SavesOK, SavesRaced, NEW r \in Requests, Moves(r)
  PROVE  SettingsRequestsOK' /\ SavesOK' /\ SavesRaced'
<1>1. SettingsRequestsOK'
  BY DEF SettingsRequestsOK, Moves
<1>2. SavesOK'
  <2>1. SUFFICES ASSUME NEW s \in Requests, req'[s].op = "save" PROVE SaveOK(req'[s])
    BY DEF SavesOK
  <2>2. CASE s = r
    BY <2>1, <2>2 DEF Moves
  <2>3. CASE s # r
    BY <2>1, <2>3 DEF Moves, SavesOK
  <2>4. QED
    BY <2>2, <2>3
<1>3. \A s \in Requests : req'[s].op = "save" => req[s].op = "save"
  BY DEF Moves
<1>4. SavesRaced'
  BY <1>3 DEF SavesRaced, Overlapped, Moves
<1>5. QED
  BY <1>1, <1>2, <1>4

LEMMA GotoIs ==
  ASSUME SettingsRequestsOK, NEW r \in Requests, NEW step, NEW locals, Goto(r, step, locals)
  PROVE  LET q == req'[r] IN
           /\ DOMAIN req' = Requests
           /\ \A s \in Requests \ {r} : req'[s] = req[s]
           /\ DOMAIN q = Fields
           /\ raced' = raced
           /\ q.op = req[r].op /\ q.topic = req[r].topic /\ q.at = step /\ q.data = locals
<1>1. /\ req' = [req EXCEPT ![r] = [req[r] EXCEPT !.at = step, !.data = locals]]
      /\ DOMAIN req = Requests /\ DOMAIN req[r] = Fields
      /\ raced' = raced
  BY DEF Goto, SettingsRequestsOK
<1>2. /\ DOMAIN req' = Requests /\ \A s \in Requests \ {r} : req'[s] = req[s]
      /\ req'[r] = [req[r] EXCEPT !.at = step, !.data = locals]
  BY <1>1
<1>3. QED
  BY <1>1, <1>2 DEF Fields

LEMMA LeaveIs ==
  ASSUME SettingsRequestsOK, NEW r \in Requests, Leave(r)
  PROVE  /\ Moves(r) /\ req'[r] = Idle
         /\ DOMAIN req' = Requests /\ \A s \in Requests \ {r} : req'[s] = req[s]
<1>1. req' = [req EXCEPT ![r] = Idle] /\ raced' = raced /\ DOMAIN req = Requests
  BY DEF Leave, SettingsRequestsOK
<1>2. /\ DOMAIN req' = Requests /\ req'[r] = Idle /\ \A s \in Requests \ {r} : req'[s] = req[s]
  BY <1>1
<1>3. QED
  BY <1>1, <1>2, IdleFields DEF Moves

\* The job is the same request, or still none.
LEMMA JobStays ==
  ASSUME JobOK, NEW r \in Requests, \A s \in Requests \ {r} : req'[s] = req[s],
         req'[r].op = "retro" <=> req[r].op = "retro", retroRunning' = retroRunning
  PROVE  JobOK'
<1>1. \A s \in Requests : req'[s].op = "retro" <=> req[s].op = "retro"
  OBVIOUS
<1>2. QED
  BY <1>1 DEF JobOK

\* The one job ends, and the flag comes down.
LEMMA JobEnds ==
  ASSUME JobOK, NEW r \in Requests, \A s \in Requests \ {r} : req'[s] = req[s],
         req[r].op = "retro", req'[r].op # "retro", retroRunning' = FALSE
  PROVE  JobOK'
<1>1. \A s \in Requests : req'[s].op # "retro"
  BY DEF JobOK
<1>2. QED
  BY <1>1 DEF JobOK

\* The table stands, and no save is about to create that was not.
LEMMA TargetsStay ==
  ASSUME TargetsOK, NEW r \in Requests, \A s \in Requests \ {r} : req'[s] = req[s],
         ~Is(r, "save", "createTargets")', targets' = targets, Overlapped => Overlapped'
  PROVE  TargetsOK'
<1>1. SUFFICES ASSUME ~Overlapped'
               PROVE  /\ TargetsApart(targets')
                      /\ \A s \in Requests : Is(s, "save", "createTargets")' => targets' = <<>>
  BY DEF TargetsOK
<1>2. TargetsApart(targets) /\ \A s \in Requests : Is(s, "save", "createTargets") => targets = <<>>
  BY <1>1 DEF TargetsOK
<1>3. \A s \in Requests : Is(s, "save", "createTargets")' => Is(s, "save", "createTargets")
  BY DEF Is
<1>4. QED
  BY <1>2, <1>3

LEMMA SaveSettingsKeeps ==
  ASSUME SettingsInv, NEW r \in Requests, NEW page,
         IsSequence(page.qcs), IsSequence(page.agents), SaveSettings(r, page)
  PROVE  SettingsInv'
<1> DEFINE plan == Plan(lookups, page)
           q == [Idle EXCEPT !.op = "save", !.at = "deleteTargets",
                             !.topic = {SaveTopic}, !.data = plan]
<1>1. /\ req[r] = Idle
      /\ req' = [req EXCEPT ![r] = q]
      /\ raced' = raced \union Overlaps(q.topic)
      /\ UNCHANGED settingsVars
  BY DEF SaveSettings, Start, SaveTopic
<1>2. Planned(lookups, page.agents, plan.targets, Len(page.agents)) /\ IsSequence(plan.creates)
  BY PlanFacts
<1> HIDE DEF plan
<1>3. /\ DOMAIN q = Fields /\ q.op = "save" /\ q.at = "deleteTargets"
      /\ q.topic = {SaveTopic} /\ q.data = plan
  BY DEF Idle, Fields
<1> HIDE DEF q
<1>4. SaveOK(q)
  BY <1>2, <1>3 DEF SaveOK, Planned
<1>5. /\ DOMAIN req' = Requests /\ req'[r] = q
      /\ \A s \in Requests \ {r} : req'[s] = req[s]
  BY <1>1 DEF SettingsInv, SettingsRequestsOK
<1>6. SettingsRequestsOK'
  BY <1>3, <1>5 DEF SettingsInv, SettingsRequestsOK
<1>7. SavesOK'
  BY <1>4, <1>5 DEF SettingsInv, SavesOK
<1>8. Overlapped => Overlapped'
  BY <1>1 DEF Overlapped
<1>9. ASSUME NEW s \in Requests \ {r}, req[s].op = "save"
      PROVE  Overlapped'
  <2>1. req[s].topic = {SaveTopic}
    BY <1>9 DEF SettingsInv, SavesOK, SaveOK
  <2>2. SaveTopic \in UNION {req[t].topic : t \in Requests} /\ SaveTopic \in q.topic
    BY <1>3, <2>1
  <2>3. /\ <<SaveTopic, SaveTopic>>
             \in {p \in q.topic \X UNION {req[t].topic : t \in Requests} :
                    {p[1][1], p[2][1]} \in Clashes /\ p[1][2] = p[2][2]}
    BY <2>2 DEF SaveTopic, Clashes
  <2>4. {SaveTopic} \in Overlaps(q.topic)
    <3> DEFINE p == <<SaveTopic, SaveTopic>>
    <3>1. {p[1], p[2]} \in Overlaps(q.topic)
      BY <2>3, Zenon DEF Overlaps
    <3>2. {p[1], p[2]} = {SaveTopic}
      OBVIOUS
    <3>3. QED
      BY <3>1, <3>2
  <2>5. QED
    BY <1>1, <2>4 DEF Overlapped
<1>10. SavesRaced'
  BY <1>5, <1>8, <1>9 DEF SettingsInv, SavesRaced
<1>11. TargetsOK'
  BY <1>1, <1>3, <1>5, <1>8, TargetsStay DEF SettingsInv, Is, settingsVars
<1>12. JobOK'
  BY <1>1, <1>3, <1>5, IdleFields, JobStays DEF SettingsInv, settingsVars
<1>13. SettingsTablesOK'
  BY <1>1 DEF SettingsInv, SettingsTablesOK, settingsVars
<1>14. QED
  BY <1>6, <1>7, <1>10, <1>11, <1>12, <1>13 DEF SettingsInv

LEMMA DeleteTargetsKeeps ==
  ASSUME SettingsInv, NEW r \in Requests, DeleteTargets(r)
  PROVE  SettingsInv'
<1>1. /\ req[r].op = "save" /\ req[r].at = "deleteTargets"
      /\ targets' = <<>> /\ UNCHANGED <<lookups, work, retroRunning>>
      /\ Goto(r, "createTargets", req[r].data)
  BY DEF DeleteTargets, Is
<1>2. /\ DOMAIN req' = Requests /\ \A s \in Requests \ {r} : req'[s] = req[s]
      /\ DOMAIN req'[r] = Fields /\ raced' = raced
      /\ req'[r].op = "save" /\ req'[r].topic = req[r].topic
      /\ req'[r].at = "createTargets" /\ req'[r].data = req[r].data
  BY <1>1, GotoIs DEF SettingsInv
<1>3. SaveOK(req'[r])
  BY <1>1, <1>2 DEF SettingsInv, SavesOK, SaveOK
<1>4. SettingsRequestsOK' /\ SavesOK' /\ SavesRaced'
  BY <1>1, <1>2, <1>3, MovesKeeps DEF SettingsInv, Moves
<1>5. TargetsOK'
  BY <1>1, EmptyIs DEF TargetsOK, TargetsApart
<1>6. JobOK'
  BY <1>1, <1>2, JobStays DEF SettingsInv
<1>7. SettingsTablesOK'
  BY <1>1, EmptyIs DEF SettingsInv, SettingsTablesOK, TypesOK, Range
<1>8. QED
  BY <1>4, <1>5, <1>6, <1>7 DEF SettingsInv

LEMMA CreateTargetsKeeps ==
  ASSUME SettingsInv, NEW r \in Requests, CreateTargets(r)
  PROVE  SettingsInv'
<1> DEFINE new == req[r].data.targets
<1>1. /\ req[r].op = "save" /\ req[r].at = "createTargets"
      /\ UNCHANGED <<lookups, work, retroRunning>>
      /\ \/ Leave(r) /\ targets' = targets
         \/ targets' = targets \o new /\ Goto(r, "orphans", req[r].data)
  BY DEF CreateTargets, Is
<1>2. /\ IsSequence(new) /\ TypesOK(new) /\ TargetsApart(new) /\ IsSequence(req[r].data.creates)
      /\ req[r].topic = {SaveTopic}
  BY <1>1 DEF SettingsInv, SavesOK, SaveOK
<1>3. CASE Leave(r) /\ targets' = targets
  <2>1. /\ Moves(r) /\ req'[r] = Idle
        /\ DOMAIN req' = Requests /\ \A s \in Requests \ {r} : req'[s] = req[s]
    BY <1>3, LeaveIs DEF SettingsInv
  <2>2. SettingsRequestsOK' /\ SavesOK' /\ SavesRaced'
    BY <2>1, MovesKeeps DEF SettingsInv
  <2>3. TargetsOK'
    BY <1>3, <2>1, IdleFields, TargetsStay DEF SettingsInv, Is, Moves, Overlapped
  <2>4. JobOK'
    BY <1>1, <2>1, IdleFields, JobStays DEF SettingsInv
  <2>5. SettingsTablesOK'
    BY <1>1, <1>3 DEF SettingsInv, SettingsTablesOK
  <2>6. QED
    BY <2>2, <2>3, <2>4, <2>5 DEF SettingsInv
<1>4. CASE targets' = targets \o new /\ Goto(r, "orphans", req[r].data)
  <2>1. /\ DOMAIN req' = Requests /\ \A s \in Requests \ {r} : req'[s] = req[s]
        /\ DOMAIN req'[r] = Fields /\ raced' = raced
        /\ req'[r].op = "save" /\ req'[r].topic = req[r].topic
        /\ req'[r].at = "orphans" /\ req'[r].data = req[r].data
    BY <1>1, <1>4, GotoIs DEF SettingsInv
  <2>2. SaveOK(req'[r])
    BY <1>2, <2>1 DEF SaveOK
  <2>3. SettingsRequestsOK' /\ SavesOK' /\ SavesRaced'
    BY <1>1, <2>1, <2>2, MovesKeeps DEF SettingsInv, Moves
  <2>4. IsSequence(targets) /\ TypesOK(targets)
    BY DEF SettingsInv, SettingsTablesOK
  <2> HIDE DEF new
  <2>5. /\ IsSequence(targets \o new)
        /\ Len(targets \o new) = Len(targets) + Len(new)
        /\ \A i \in 1..Len(targets) : (targets \o new)[i] = targets[i]
        /\ \A i \in 1..Len(new) : (targets \o new)[Len(targets) + i] = new[i]
        /\ \A k \in 1..Len(targets \o new) :
             k \in 1..Len(targets) \/ \E i \in 1..Len(new) : k = Len(targets) + i
    BY <1>2, <2>4, JoinedIs
  <2>6. SettingsTablesOK'
    <3>1. /\ DOMAIN targets = 1..Len(targets) /\ DOMAIN new = 1..Len(new)
          /\ DOMAIN (targets \o new) = 1..Len(targets \o new)
      BY <1>2, <2>4, <2>5, SequenceIs
    <3>2. \A k \in 1..Len(targets \o new) : (targets \o new)[k] \in Range(targets) \union Range(new)
      BY <2>5, <3>1 DEF Range
    <3>3. TypesOK(targets \o new)
      BY <1>2, <2>4, <3>1, <3>2 DEF TypesOK, Range
    <3>4. QED
      BY <1>1, <1>4, <2>5, <3>3 DEF SettingsInv, SettingsTablesOK
  <2>7. TargetsOK'
    <3>1. SUFFICES ASSUME ~Overlapped'
                   PROVE  /\ TargetsApart(targets')
                          /\ \A s \in Requests : ~Is(s, "save", "createTargets")'
      BY DEF TargetsOK
    <3>2. ~Overlapped
      BY <2>1, <3>1 DEF Overlapped
    <3>3. targets = <<>>
      BY <1>1, <3>2 DEF SettingsInv, TargetsOK, Is
    <3>4. targets \o new = new
      <4>1. new \in Seq(Range(new))
        BY <1>2 DEF IsSequence
      <4>2. <<>> \o new = new
        BY <4>1
      <4>3. QED
        BY <3>3, <4>2
    <3>5. \A s \in Requests \ {r} : req[s].op # "save"
      BY <1>1, <3>2 DEF SettingsInv, SavesRaced
    <3>6. \A s \in Requests : ~Is(s, "save", "createTargets")'
      BY <2>1, <3>5 DEF Is
    <3>7. QED
      BY <1>2, <1>4, <3>4, <3>6
  <2>8. JobOK'
    BY <1>1, <2>1, JobStays DEF SettingsInv
  <2>9. QED
    BY <2>3, <2>6, <2>7, <2>8 DEF SettingsInv
<1>5. QED
  BY <1>1, <1>3, <1>4

\* The steps of a save and of the job that leave the targets alone.
LEMMA MoveKeepsInv ==
  ASSUME SettingsInv, NEW r \in Requests, Moves(r), req'[r].at # "createTargets",
         targets' = targets, IsSequence(lookups'), DOMAIN work' = DOMAIN work, JobOK'
  PROVE  SettingsInv'
<1>1. SettingsRequestsOK' /\ SavesOK' /\ SavesRaced'
  BY MovesKeeps DEF SettingsInv
<1>2. \A s \in Requests \ {r} : req'[s] = req[s]
  BY DEF Moves
<1>3. ~Is(r, "save", "createTargets")' /\ (Overlapped => Overlapped')
  BY DEF Is, Moves, Overlapped
<1>4. TargetsOK'
  BY <1>2, <1>3, TargetsStay DEF SettingsInv
<1>5. SettingsTablesOK'
  BY DEF SettingsInv, SettingsTablesOK
<1>6. QED
  BY <1>1, <1>4, <1>5 DEF SettingsInv

LEMMA GoesOn ==
  ASSUME SettingsInv, NEW r \in Requests, NEW step, NEW locals, Goto(r, step, locals),
         step \notin {"deleteTargets", "createTargets"},
         req[r].op = "save" /\ step \in {"orphans", "creates"} => IsSequence(locals.creates)
  PROVE  /\ Moves(r) /\ req'[r].op = req[r].op /\ req'[r].at = step
         /\ \A s \in Requests \ {r} : req'[s] = req[s]
<1>1. /\ DOMAIN req' = Requests /\ \A s \in Requests \ {r} : req'[s] = req[s]
      /\ DOMAIN req'[r] = Fields /\ raced' = raced
      /\ req'[r].op = req[r].op /\ req'[r].topic = req[r].topic
      /\ req'[r].at = step /\ req'[r].data = locals
  BY GotoIs DEF SettingsInv
<1>2. req[r].op = "save" => SaveOK(req'[r])
  BY <1>1 DEF SettingsInv, SavesOK, SaveOK
<1>3. QED
  BY <1>1, <1>2 DEF Moves

LEMMA KilledIs ==
  ASSUME NEW rows, IsSequence(rows), NEW f, f = [i \in DOMAIN rows |-> f[i]]
  PROVE  IsSequence(f)
<1>1. Len(rows) \in Nat /\ DOMAIN rows = 1..Len(rows)
  BY SequenceIs
<1>2. QED
  BY <1>1, ListOf

LEMMA DropOrphansKeeps ==
  ASSUME SettingsInv, NEW r \in Requests, DropOrphans(r)
  PROVE  SettingsInv'
<1> DEFINE named == req[r].data.names
           left == [i \in DOMAIN lookups |->
                      IF named # {} /\ lookups[i].name \notin named
                      THEN [lookups[i] EXCEPT !.live = FALSE] ELSE lookups[i]]
<1>1. /\ req[r].op = "save" /\ req[r].at = "orphans"
      /\ lookups' = left
      /\ Goto(r, "creates", req[r].data)
      /\ UNCHANGED <<targets, work, retroRunning>>
  BY DEF DropOrphans, Is
<1>2. IsSequence(left)
  <2>1. IsSequence(lookups) /\ left = [i \in DOMAIN lookups |-> left[i]]
    BY DEF SettingsInv, SettingsTablesOK
  <2> HIDE DEF left
  <2>2. QED
    BY <2>1, KilledIs
<1> HIDE DEF left
<1>3. IsSequence(req[r].data.creates)
  BY <1>1 DEF SettingsInv, SavesOK, SaveOK
<1>4. /\ Moves(r) /\ req'[r].op = "save" /\ req'[r].at = "creates"
      /\ \A s \in Requests \ {r} : req'[s] = req[s]
  BY <1>1, <1>3, GoesOn
<1>5. JobOK'
  BY <1>1, <1>4, JobStays DEF SettingsInv
<1>6. QED
  BY <1>1, <1>2, <1>4, <1>5, MoveKeepsInv

LEMMA CreateLookupsKeeps ==
  ASSUME SettingsInv, NEW r \in Requests, CreateLookups(r)
  PROVE  SettingsInv'
<1>1. /\ req[r].op = "save" /\ req[r].at = "creates"
      /\ lookups' = lookups \o req[r].data.creates
      /\ Goto(r, "updates", req[r].data.updates)
      /\ UNCHANGED <<targets, work, retroRunning>>
  BY DEF CreateLookups, Is
<1>2. IsSequence(lookups')
  <2>1. IsSequence(lookups) /\ IsSequence(req[r].data.creates)
    BY <1>1 DEF SettingsInv, SettingsTablesOK, SavesOK, SaveOK
  <2>2. QED
    BY <1>1, <2>1, JoinedIs
<1>3. /\ Moves(r) /\ req'[r].op = "save" /\ req'[r].at = "updates"
      /\ \A s \in Requests \ {r} : req'[s] = req[s]
  BY <1>1, GoesOn
<1>4. JobOK'
  BY <1>1, <1>3, JobStays DEF SettingsInv
<1>5. QED
  BY <1>1, <1>2, <1>3, <1>4, MoveKeepsInv

\* A row of the table is replaced, or its name.
LEMMA ReplacedIs ==
  ASSUME NEW rows, IsSequence(rows), NEW i, NEW row
  PROVE  IsSequence([rows EXCEPT ![i] = row])
<1> DEFINE new == [rows EXCEPT ![i] = row]
<1>1. new = [k \in DOMAIN rows |-> new[k]]
  OBVIOUS
<1> HIDE DEF new
<1>2. QED
  BY <1>1, KilledIs DEF new

LEMMA UpdateLookupsKeeps ==
  ASSUME SettingsInv, NEW r \in Requests, UpdateLookups(r)
  PROVE  SettingsInv'
<1> DEFINE i == Head(req[r].data)[1]
           row == [Head(req[r].data)[2] EXCEPT !.name = lookups[i].name]
<1>1. /\ req[r].op = "save" /\ req[r].at = "updates"
      /\ \/ /\ lookups' = [lookups EXCEPT ![i] = row]
            /\ Goto(r, "updates", Tail(req[r].data))
         \/ Leave(r) /\ lookups' = lookups
      /\ UNCHANGED <<targets, work, retroRunning>>
  BY DEF UpdateLookups, Is
<1> HIDE DEF i, row
<1>2. IsSequence(lookups)
  BY DEF SettingsInv, SettingsTablesOK
<1>3. CASE /\ lookups' = [lookups EXCEPT ![i] = row]
           /\ Goto(r, "updates", Tail(req[r].data))
  <2>1. /\ Moves(r) /\ req'[r].op = "save" /\ req'[r].at = "updates"
        /\ \A s \in Requests \ {r} : req'[s] = req[s]
    BY <1>1, <1>3, GoesOn
  <2>2. JobOK'
    BY <1>1, <2>1, JobStays DEF SettingsInv
  <2>3. IsSequence(lookups')
    BY <1>2, <1>3, ReplacedIs
  <2>4. QED
    BY <1>1, <2>1, <2>2, <2>3, MoveKeepsInv
<1>4. CASE Leave(r) /\ lookups' = lookups
  <2>1. /\ Moves(r) /\ req'[r] = Idle
        /\ \A s \in Requests \ {r} : req'[s] = req[s]
    BY <1>4, LeaveIs DEF SettingsInv
  <2>2. JobOK'
    BY <1>1, <2>1, IdleFields, JobStays DEF SettingsInv
  <2>3. QED
    BY <1>1, <1>2, <1>4, <2>1, <2>2, IdleFields, MoveKeepsInv
<1>5. QED
  BY <1>1, <1>3, <1>4

LEMMA StartRetroKeeps ==
  ASSUME SettingsInv, NEW r \in Requests, StartRetro(r)
  PROVE  SettingsInv'
<1> DEFINE q == [Idle EXCEPT !.op = "retro", !.at = "lookups"]
<1>1. /\ req[r].op = "save" /\ req[r].at = "updates"
      /\ retroRunning' = TRUE
      /\ \/ retroRunning /\ Leave(r)
         \/ ~retroRunning /\ req' = [req EXCEPT ![r] = q] /\ raced' = raced
      /\ UNCHANGED <<targets, lookups, work>>
  BY DEF StartRetro, Is
<1>2. IsSequence(lookups) /\ JobOK /\ SettingsRequestsOK
  BY DEF SettingsInv, SettingsTablesOK
<1>3. CASE retroRunning /\ Leave(r)
  <2>1. /\ Moves(r) /\ req'[r] = Idle
        /\ \A s \in Requests \ {r} : req'[s] = req[s]
    BY <1>2, <1>3, LeaveIs
  <2>2. retroRunning' = retroRunning
    BY <1>1, <1>2, <1>3 DEF JobOK
  <2>3. JobOK'
    BY <1>1, <1>2, <2>1, <2>2, IdleFields, JobStays
  <2>4. QED
    BY <1>1, <1>2, <2>1, <2>3, IdleFields, MoveKeepsInv
<1>4. CASE ~retroRunning /\ req' = [req EXCEPT ![r] = q] /\ raced' = raced
  <2>1. DOMAIN q = Fields /\ q.op = "retro" /\ q.at = "lookups"
    BY DEF Idle, Fields
  <2> HIDE DEF q
  <2>2. /\ DOMAIN req' = Requests /\ req'[r] = q
        /\ \A s \in Requests \ {r} : req'[s] = req[s]
    BY <1>2, <1>4 DEF SettingsRequestsOK
  <2>3. Moves(r)
    BY <1>4, <2>1, <2>2 DEF Moves
  <2>4. \A s \in Requests \ {r} : req'[s].op # "retro"
    BY <1>2, <1>4, <2>2 DEF JobOK
  <2>5. JobOK'
    BY <1>1, <2>1, <2>2, <2>4 DEF JobOK
  <2>6. QED
    BY <1>1, <1>2, <2>1, <2>2, <2>3, <2>5, MoveKeepsInv
<1>5. QED
  BY <1>1, <1>3, <1>4

LEMMA RetroStepsKeep ==
  ASSUME SettingsInv, NEW r \in Requests,
         RetroLookups(r) \/ RetroRows(r) \/ RetroUpdate(r) \/ RetroNext(r)
  PROVE  SettingsInv'
<1>1. IsSequence(lookups) /\ DOMAIN work = {"tapping", "ticket"} /\ JobOK /\ SettingsRequestsOK
  BY DEF SettingsInv, SettingsTablesOK
<1>2. ASSUME req[r].op = "retro", UNCHANGED <<targets, lookups, retroRunning>>,
             DOMAIN work' = DOMAIN work,
             \E step, locals : step \in {"tapping", "ticket"} /\ Goto(r, step, locals)
      PROVE  SettingsInv'
  <2>1. PICK step, locals : step \in {"tapping", "ticket"} /\ Goto(r, step, locals)
    BY <1>2
  <2>2. /\ Moves(r) /\ req'[r].op = "retro" /\ req'[r].at = step
        /\ \A s \in Requests \ {r} : req'[s] = req[s]
    BY <1>2, <2>1, GoesOn
  <2>3. JobOK'
    BY <1>1, <1>2, <2>2, JobStays
  <2>4. QED
    BY <1>1, <1>2, <2>1, <2>2, <2>3, MoveKeepsInv
<1>3. CASE RetroLookups(r)
  <2>1. /\ req[r].op = "retro" /\ UNCHANGED settingsVars
        /\ \E locals : Goto(r, "tapping", locals)
    BY <1>3 DEF RetroLookups, Is
  <2>2. QED
    BY <1>2, <2>1 DEF settingsVars
<1>4. CASE RetroRows(r)
  <2>1. /\ req[r].op = "retro" /\ req[r].at \in {"tapping", "ticket"} /\ UNCHANGED settingsVars
        /\ \E locals : Goto(r, req[r].at, locals)
    BY <1>4 DEF RetroRows
  <2>2. QED
    BY <1>2, <2>1 DEF settingsVars
<1>5. CASE RetroUpdate(r)
  <2>1. /\ req[r].op = "retro" /\ req[r].at \in {"tapping", "ticket"}
        /\ UNCHANGED <<targets, lookups, retroRunning>>
        /\ \E locals : Goto(r, req[r].at, locals)
    BY <1>5 DEF RetroUpdate
  <2>2. \/ work' = work
        \/ \E n, row : work' = [work EXCEPT ![req[r].at][n] = row]
    BY <1>5 DEF RetroUpdate
  <2>3. DOMAIN work' = DOMAIN work
    BY <2>2
  <2>4. QED
    BY <1>2, <2>1, <2>3
<1>6. CASE RetroNext(r)
  <2>1. /\ req[r].op = "retro" /\ UNCHANGED <<targets, lookups, work>>
        /\ \/ UNCHANGED retroRunning /\ \E locals : Goto(r, "ticket", locals)
           \/ Leave(r) /\ retroRunning' = FALSE
    BY <1>6 DEF RetroNext
  <2>2. CASE UNCHANGED retroRunning /\ \E locals : Goto(r, "ticket", locals)
    BY <1>2, <2>1, <2>2
  <2>3. CASE Leave(r) /\ retroRunning' = FALSE
    <3>1. /\ Moves(r) /\ req'[r] = Idle
          /\ \A s \in Requests \ {r} : req'[s] = req[s]
      BY <1>1, <2>3, LeaveIs
    <3>2. JobOK'
      BY <1>1, <2>1, <2>3, <3>1, IdleFields, JobEnds
    <3>3. QED
      BY <1>1, <2>1, <3>1, <3>2, IdleFields, MoveKeepsInv
  <2>4. QED
    BY <2>1, <2>2, <2>3
<1>7. QED
  BY <1>3, <1>4, <1>5, <1>6

LEMMA SettingsFailKeeps ==
  ASSUME SettingsInv, NEW r \in Requests, SettingsFail(r)
  PROVE  SettingsInv'
<1>1. /\ Leave(r)
      /\ retroRunning' = (retroRunning /\ req[r].op # "retro")
      /\ UNCHANGED <<targets, lookups, work>>
  BY DEF SettingsFail, Fail
<1>2. IsSequence(lookups) /\ JobOK /\ SettingsRequestsOK
  BY DEF SettingsInv, SettingsTablesOK
<1>3. /\ Moves(r) /\ req'[r] = Idle
      /\ \A s \in Requests \ {r} : req'[s] = req[s]
  BY <1>1, <1>2, LeaveIs
<1>4. CASE req[r].op = "retro"
  <2>1. retroRunning' = FALSE
    BY <1>1, <1>4
  <2>2. JobOK'
    BY <1>2, <1>3, <1>4, <2>1, IdleFields, JobEnds
  <2>3. QED
    BY <1>1, <1>2, <1>3, <2>2, IdleFields, MoveKeepsInv
<1>5. CASE req[r].op # "retro"
  <2>1. retroRunning' = retroRunning
    BY <1>1, <1>2, <1>5 DEF JobOK
  <2>2. JobOK'
    BY <1>2, <1>3, <1>5, <2>1, IdleFields, JobStays
  <2>3. QED
    BY <1>1, <1>2, <1>3, <2>2, IdleFields, MoveKeepsInv
<1>6. QED
  BY <1>4, <1>5

\* What other services do to the lookup table.
LEMMA LookupsChange ==
  ASSUME SettingsInv, UNCHANGED <<req, raced, targets, work, retroRunning>>, IsSequence(lookups')
  PROVE  SettingsInv'
<1>1. SettingsTablesOK'
  BY DEF SettingsInv, SettingsTablesOK
<1>2. SettingsRequestsOK' /\ SavesOK' /\ SavesRaced'
  BY DEF SettingsInv, SettingsRequestsOK, SavesOK, SavesRaced, Overlapped
<1>3. TargetsOK' /\ JobOK'
  BY DEF SettingsInv, TargetsOK, JobOK, Overlapped, Is
<1>4. QED
  BY <1>1, <1>2, <1>3 DEF SettingsInv

LEMMA BulkDeleteKeeps ==
  ASSUME SettingsInv, NEW names, BulkDelete(names)
  PROVE  SettingsInv'
<1> DEFINE S == {i \in DOMAIN targets : ~(OfAgent(targets[i]) /\ targets[i].name \in names)}
           left == RowsAt(targets, S)
<1>1. /\ targets' = left
      /\ UNCHANGED <<req, raced, lookups, work, retroRunning>>
  BY DEF BulkDelete, Once
<1>2. IsSequence(targets) /\ TypesOK(targets)
  BY DEF SettingsInv, SettingsTablesOK
<1>3. S \in SUBSET DOMAIN targets
  OBVIOUS
<1> HIDE DEF S
<1>4. Selection(left, targets, S)
  BY <1>2, <1>3, RowsAtFacts
<1> HIDE DEF left
<1>5. /\ IsSequence(left)
      /\ \A k \in 1..Len(left) : \E i \in S : left[k] = targets[i]
      /\ \A k, l \in 1..Len(left) :
           k # l => \E i, j \in S : i # j /\ left[k] = targets[i] /\ left[l] = targets[j]
  BY <1>4 DEF Selection
<1>6. DOMAIN left = 1..Len(left) /\ Len(left) \in Nat /\ left = [k \in 1..Len(left) |-> left[k]]
  BY <1>5, SequenceIs
<1>7. TypesOK(left)
  BY <1>2, <1>3, <1>5, <1>6 DEF TypesOK, Range
<1>8. SettingsTablesOK'
  BY <1>1, <1>5, <1>7 DEF SettingsInv, SettingsTablesOK
<1>9. TargetsApart(targets) => TargetsApart(left)
  <2>1. SUFFICES ASSUME TargetsApart(targets), NEW k \in DOMAIN left, NEW l \in DOMAIN left, k # l,
                        OfAgent(left[k]), OfAgent(left[l]), left[k].name = left[l].name
                 PROVE  /\ left[k].peaks \intersect left[l].peaks = {}
                        /\ left[k].tapper # left[l].tapper
    BY DEF TargetsApart
  <2>2. PICK i \in S, j \in S : i # j /\ left[k] = targets[i] /\ left[l] = targets[j]
    BY <1>5, <1>6, <2>1
  <2>3. i \in DOMAIN targets /\ j \in DOMAIN targets
    BY <1>3
  <2>4. QED
    BY <2>1, <2>2, <2>3 DEF TargetsApart
<1>10. targets = <<>> => left = <<>>
  <2>1. SUFFICES ASSUME targets = <<>> PROVE left = <<>>
    OBVIOUS
  <2>2. S = {}
    BY <1>3, <2>1
  <2>3. Len(left) = 0
    <3>1. 1 \notin 1..Len(left)
      BY <1>5, <2>2
    <3>2. QED
      BY <1>6, <3>1
  <2>4. QED
    BY <1>5, <2>3 DEF IsSequence
<1>11. TargetsOK'
  BY <1>1, <1>9, <1>10 DEF SettingsInv, TargetsOK, Overlapped, Is
<1>12. SettingsRequestsOK' /\ SavesOK' /\ SavesRaced' /\ JobOK'
  BY <1>1 DEF SettingsInv, SettingsRequestsOK, SavesOK, SavesRaced, JobOK, Overlapped
<1>13. QED
  BY <1>8, <1>11, <1>12 DEF SettingsInv

LEMMA AddLookupsKeeps ==
  ASSUME SettingsInv, NEW file \in Uploads, BulkInsertLookupAgent(file)
  PROVE  SettingsInv'
<1> DEFINE new == [i \in DOMAIN file |->
                     [live |-> TRUE, name |-> file[i].name, tapper |-> None,
                      team |-> file[i].team, peaks |-> {}]]
<1>1. /\ lookups' = lookups \o new
      /\ UNCHANGED <<req, raced, targets, work, retroRunning>>
  BY DEF BulkInsertLookupAgent, AddLookups, Once
<1>2. IsSequence(lookups) /\ IsSequence(file)
  BY QaSettingsAssumption DEF SettingsInv, SettingsTablesOK
<1>3. new = [i \in DOMAIN file |-> new[i]]
  OBVIOUS
<1> HIDE DEF new
<1>4. IsSequence(new)
  BY <1>2, <1>3, KilledIs
<1>5. IsSequence(lookups')
  BY <1>1, <1>2, <1>4, JoinedIs
<1>6. QED
  BY <1>1, <1>5, LookupsChange

LEMMA EditLookupsKeeps ==
  ASSUME SettingsInv,
         (\E i, name : RenameLookup(i, name)) \/ (\E S : DeleteLookups(S))
  PROVE  SettingsInv'
<1>1. IsSequence(lookups)
  BY DEF SettingsInv, SettingsTablesOK
<1>2. CASE \E i, name : RenameLookup(i, name)
  <2>1. PICK i, name : RenameLookup(i, name)
    BY <1>2
  <2> DEFINE row == [lookups[i] EXCEPT !.name = name]
  <2>2. /\ lookups' = [lookups EXCEPT ![i] = row]
        /\ UNCHANGED <<req, raced, targets, work, retroRunning>>
    BY <2>1 DEF RenameLookup, Once
  <2> HIDE DEF row
  <2>3. IsSequence(lookups')
    BY <1>1, <2>2, ReplacedIs
  <2>4. QED
    BY <2>2, <2>3, LookupsChange
<1>3. CASE \E S : DeleteLookups(S)
  <2>1. PICK S : DeleteLookups(S)
    BY <1>3
  <2> DEFINE left == [i \in DOMAIN lookups |-> IF i \in S THEN [lookups[i] EXCEPT !.live = FALSE]
                                               ELSE lookups[i]]
  <2>2. /\ lookups' = left
        /\ UNCHANGED <<req, raced, targets, work, retroRunning>>
    BY <2>1 DEF DeleteLookups, Once
  <2>3. left = [i \in DOMAIN lookups |-> left[i]]
    OBVIOUS
  <2> HIDE DEF left
  <2>4. IsSequence(lookups')
    BY <1>1, <2>2, <2>3, KilledIs
  <2>5. QED
    BY <2>2, <2>4, LookupsChange
<1>4. QED
  BY <1>2, <1>3

LEMMA SettingsNextKeeps ==
  ASSUME SettingsInv, [SettingsNext]_SettingsFlight
  PROVE  SettingsInv'
<1>1. ASSUME NEW r \in Requests, SettingsSteps(r)
      PROVE  SettingsInv'
  <2>1. ASSUME NEW page \in Pages, SaveSettings(r, page) PROVE SettingsInv'
    BY <2>1, QaSettingsAssumption, SaveSettingsKeeps
  <2>2. CASE SaveSettings(r, ShownPage)
    <3>1. IsSequence(ShownPage.qcs) /\ IsSequence(ShownPage.agents)
      BY ShownFacts, EmptyIs DEF SettingsInv, SettingsTablesOK, ShownPage
    <3>2. QED
      BY <2>2, <3>1, SaveSettingsKeeps
  <2>3. CASE DeleteTargets(r) \/ CreateTargets(r)
    BY <2>3, DeleteTargetsKeeps, CreateTargetsKeeps
  <2>4. CASE DropOrphans(r) \/ CreateLookups(r) \/ UpdateLookups(r) \/ StartRetro(r)
    BY <2>4, DropOrphansKeeps, CreateLookupsKeeps, UpdateLookupsKeeps, StartRetroKeeps
  <2>5. CASE RetroLookups(r) \/ RetroRows(r) \/ RetroUpdate(r) \/ RetroNext(r)
    BY <2>5, RetroStepsKeep
  <2>6. CASE SettingsFail(r)
    BY <2>6, SettingsFailKeeps
  <2>7. QED
    BY <1>1, <2>1, <2>2, <2>3, <2>4, <2>5, <2>6 DEF SettingsSteps
<1>2. ASSUME NEW names, BulkDelete(names) PROVE SettingsInv'
  BY <1>2, BulkDeleteKeeps
<1>3. CASE UNCHANGED SettingsFlight
  <2>1. IsSequence(lookups')
    BY <1>3 DEF SettingsInv, SettingsTablesOK, SettingsFlight, settingsVars
  <2>2. QED
    BY <1>3, <2>1, LookupsChange DEF SettingsFlight, flight, settingsVars
<1>4. QED
  BY <1>1, <1>2, <1>3, AddLookupsKeeps, EditLookupsKeeps DEF SettingsNext

LEMMA SettingsInvAtFirst == FlightInit /\ SettingsInit => SettingsInv
<1>1. SUFFICES ASSUME FlightInit, SettingsInit PROVE SettingsInv
  OBVIOUS
<1>2. /\ DOMAIN req = Requests /\ \A r \in Requests : req[r] = Idle
  BY <1>1 DEF FlightInit
<1>3. SettingsTablesOK
  BY <1>1, EmptyIs, QaSettingsAssumption DEF SettingsInit, SettingsTablesOK, TypesOK, Range
<1>4. SettingsRequestsOK /\ SavesOK /\ SavesRaced
  BY <1>2, IdleFields DEF SettingsRequestsOK, SavesOK, SavesRaced
<1>5. TargetsOK
  BY <1>1, EmptyIs DEF SettingsInit, TargetsOK, TargetsApart
<1>6. JobOK
  BY <1>1, <1>2, IdleFields DEF SettingsInit, JobOK
<1>7. QED
  BY <1>3, <1>4, <1>5, <1>6 DEF SettingsInv

LEMMA SettingsInvHolds == SettingsSpec => []SettingsInv
BY SettingsInvAtFirst, SettingsNextKeeps, PTL DEF SettingsSpec

\* However saves, jobs and failures interleave, the flag of the retroactive job is up
\* exactly while it runs, so that no failure keeps the next from starting, and no two run.
THEOREM SettingsTypeCorrect == SettingsSpec => []SettingsTypeOK
<1>1. SettingsInv => SettingsTypeOK
  <2>1. SUFFICES ASSUME SettingsInv PROVE SettingsTypeOK
    OBVIOUS
  <2>2. retroRunning = (\E r \in Requests : req[r].op = "retro")
    BY <2>1 DEF SettingsInv, JobOK
  <2>3. \A t \in Range(targets) : t.type \in {"QC", "AGENT"}
    BY <2>1 DEF SettingsInv, SettingsTablesOK, TypesOK
  <2>4. QED
    BY <2>1, <2>2, <2>3 DEF SettingsInv, SettingsTablesOK, JobOK, SettingsTypeOK
<1>2. QED
  BY <1>1, SettingsInvHolds, PTL

\* What is planned names its agents as the lookup table does, so they are told apart by it.
LEMMA PlannedByTable ==
  ASSUME NEW ls, IsSequence(ls), NEW agents, NEW table, NEW n \in Nat, Planned(ls, agents, table, n)
  PROVE  OneTapperAPeak(ls, table)
<1>1. ASSUME NEW i \in DOMAIN table, OfAgent(table[i])
      PROVE  Canonical(ls, table[i].name) = table[i].name
  <2>1. table[i] \in Range(table)
    BY DEF Range
  <2>2. PICK m \in 1..n : table[i] = TargetOf(ls, agents[m])
    BY <1>1, <2>1 DEF Planned
  <2>3. table[i].name = Canonical(ls, agents[m].name)
    BY <2>2, TargetIs
  <2>4. \/ table[i].name \in NamesIn(ls)
        \/ table[i].name = agents[m].name
    BY <2>3, CanonicalFacts
  <2>5. CASE table[i].name \in NamesIn(ls)
    BY <2>5, CanonicalFacts
  <2>6. CASE table[i].name = agents[m].name
    BY <2>3, <2>6
  <2>7. QED
    BY <2>4, <2>5, <2>6
<1>2. TargetsApart(table)
  BY DEF Planned
<1>3. QED
  BY <1>1, <1>2 DEF TargetsApart, OneTapperAPeak

\* saveSettings skips a row whose peak another tapper of the agent has, by the name the
\* agent matcher makes of it: no plan gives a peak of an agent two tappers, for any pages
\* and whatever the lookup table is, when its matches tell which rows are of one agent; and
\* no peak has two tappers under one stored name, unless two saves overlapped.
THEOREM OnePeakOneTapperHolds == SettingsSpec => []OnePeakOneTapper
<1>1. SettingsInv => OnePeakOneTapper
  <2>1. SUFFICES ASSUME SettingsInv PROVE OnePeakOneTapper
    OBVIOUS
  <2>2. IsSequence(targets) /\ IsSequence(lookups)
    BY <2>1 DEF SettingsInv, SettingsTablesOK
  <2>3. ASSUME NEW page \in Pages \union {ShownPage}
        PROVE  OneTapperAPeak(lookups, Plan(lookups, page).targets)
    <3>1. CASE page \in Pages
      <4>1. IsSequence(page.qcs) /\ IsSequence(page.agents)
        BY <3>1, QaSettingsAssumption
      <4>2. QED
        BY <2>2, <4>1, PlanFacts, PlannedByTable, SequenceIs
    <3>2. CASE page = ShownPage
      <4>1. page.qcs = <<>> /\ page.agents = Shown
        BY <3>2 DEF ShownPage
      <4>2. IsSequence(page.qcs) /\ IsSequence(page.agents)
        BY <2>2, <4>1, EmptyIs, ShownFacts
      <4>3. QED
        BY <2>2, <4>2, PlanFacts, PlannedByTable, SequenceIs
    <3>3. QED
      BY <2>3, <3>1, <3>2
  <2>4. {<<"save", "targets">>} \notin raced => TargetsApart(targets)
    BY <2>1 DEF SettingsInv, TargetsOK, Overlapped, SaveTopic
  <2>5. QED
    BY <2>3, <2>4 DEF TargetsApart, OnePeakOneTapper
<1>2. QED
  BY <1>1, SettingsInvHolds, PTL

LEMMA ShownTargetIs ==
  ASSUME NEW t
  PROVE  LET row == ShownTarget(t) IN
           /\ row.name = t.name /\ row.peaks = t.peaks
           /\ t.tapper # "" => row.tapper = t.tapper
  BY DEF ShownTarget, ShownTapper

\* No row of the page before that of a plain target repeats it.
LEMMA PlainIsKept ==
  ASSUME SettingsInv, ~Overlapped, NEW t \in Range(AgentTargets), Plain(t)
  PROVE  /\ Canonical(lookups, t.name) = t.name
         /\ TargetOf(lookups, ShownTarget(t)) \in Range(Plan(lookups, ShownPage).targets)
<1> DEFINE page == Shown
           table == Plan(lookups, ShownPage).targets
           K == {k \in 1..Len(page) : page[k] = ShownTarget(t)}
<1>1. IsSequence(targets) /\ IsSequence(lookups) /\ TargetsApart(targets)
  BY DEF SettingsInv, SettingsTablesOK, TargetsOK
<1>2. /\ IsSequence(page)
      /\ \A u \in Range(AgentTargets) : \E k \in 1..Len(page) : page[k] = ShownTarget(u)
      /\ \A k \in 1..Len(page) :
           \/ \E u \in Range(AgentTargets) : page[k] = ShownTarget(u)
           \/ \E i \in Ids(lookups) :
                /\ page[k] = ShownLookup(lookups[i])
                /\ \A u \in Range(AgentTargets) : u.name # lookups[i].name
  BY <1>1, ShownFacts
<1>3. Planned(lookups, page, table, Len(page))
  <2>1. ShownPage.qcs = <<>> /\ ShownPage.agents = page
    BY DEF ShownPage
  <2>2. IsSequence(ShownPage.qcs) /\ IsSequence(ShownPage.agents)
    BY <1>2, <2>1, EmptyIs
  <2>3. Planned(lookups, ShownPage.agents, table, Len(ShownPage.agents))
    BY <2>2, PlanFacts
  <2>4. QED
    BY <2>1, <2>3
<1> HIDE DEF page, table
<1>4. \A m \in 1..Len(page) : \/ TargetOf(lookups, page[m]) \in Range(table)
                              \/ \E l \in 1..(m - 1) : Repeats(lookups, page[m], page[l])
  BY <1>3 DEF Planned
<1>5. PICK k \in K : \A l \in K : k <= l
  <2>1. K \subseteq Nat /\ K # {}
    BY <1>2, SequenceIs
  <2> HIDE DEF K
  <2>2. QED
    BY <2>1, LeastOf
<1>6. /\ Len(page) \in Nat /\ k \in 1..Len(page) /\ page[k] = ShownTarget(t)
      /\ \A l \in 1..(k - 1) : l \in 1..Len(page) /\ page[l] # ShownTarget(t)
  <2>1. Len(page) \in Nat /\ k \in 1..Len(page) /\ page[k] = ShownTarget(t)
    BY <1>2, <1>5, SequenceIs
  <2>2. \A l \in 1..(k - 1) : l \in 1..Len(page) /\ ~(k <= l)
    BY <2>1
  <2>3. QED
    BY <1>5, <2>1, <2>2
<1>7. \A n \in KnownNames : Canonical(lookups, n) = Canonical(lookups, t.name) => n = t.name
  BY DEF Plain, ByOneName
<1>8. Canonical(lookups, t.name) = t.name
  <2>1. CASE Canonical(lookups, t.name) \in NamesIn(lookups)
    <3>1. Canonical(lookups, Canonical(lookups, t.name)) = Canonical(lookups, t.name)
      BY <1>1, <2>1, CanonicalFacts
    <3>2. Canonical(lookups, t.name) \in KnownNames
      BY <2>1 DEF KnownNames
    <3>3. QED
      BY <1>7, <3>1, <3>2
  <2>2. QED
    BY <1>1, <2>1, CanonicalFacts
<1>9. ASSUME NEW l \in 1..(k - 1), Repeats(lookups, page[k], page[l])
      PROVE  FALSE
  <2>1. /\ page[k].name = t.name /\ page[k].peaks = t.peaks
        /\ t.tapper # "" => page[k].tapper = t.tapper
    BY <1>6, ShownTargetIs
  <2>2. /\ Canonical(lookups, t.name) = Canonical(lookups, page[l].name)
        /\ page[k].tapper = page[l].tapper \/ t.peaks \intersect page[l].peaks # {}
    BY <1>9, <2>1 DEF Repeats
  <2>3. CASE \E u \in Range(AgentTargets) : page[l] = ShownTarget(u)
    <3>1. PICK u \in Range(AgentTargets) : page[l] = ShownTarget(u)
      BY <2>3
    <3>2. /\ page[l].name = u.name /\ page[l].peaks = u.peaks
          /\ u.tapper # "" => page[l].tapper = u.tapper
      BY <3>1, ShownTargetIs
    <3>3. u.name = t.name
      <4>1. u.name \in KnownNames
        BY DEF KnownNames
      <4>2. QED
        BY <1>7, <2>2, <3>2, <4>1
    <3>4. u # t
      BY <1>6, <3>1
    <3>5. t.tapper # "" /\ u.tapper # ""
      BY <3>3, <3>4 DEF Plain
    <3>6. PICK i \in DOMAIN targets : OfAgent(targets[i]) /\ t = targets[i]
      BY <1>1, AgentTargetsAre
    <3>7. PICK j \in DOMAIN targets : OfAgent(targets[j]) /\ u = targets[j]
      BY <1>1, AgentTargetsAre
    <3>8. t.peaks \intersect u.peaks = {} /\ t.tapper # u.tapper
      BY <1>1, <3>3, <3>4, <3>6, <3>7 DEF TargetsApart
    <3>9. QED
      BY <2>1, <2>2, <3>2, <3>5, <3>8
  <2>4. CASE \E i \in Ids(lookups) :
               /\ page[l] = ShownLookup(lookups[i])
               /\ \A u \in Range(AgentTargets) : u.name # lookups[i].name
    <3>1. PICK i \in Ids(lookups) :
                 /\ page[l] = ShownLookup(lookups[i])
                 /\ \A u \in Range(AgentTargets) : u.name # lookups[i].name
      BY <2>4
    <3>2. page[l].name = lookups[i].name
      <4>1. ShownLookup(lookups[i]).name = lookups[i].name
        BY DEF ShownLookup
      <4>2. page[l] = ShownLookup(lookups[i])
        BY <3>1
      <4>3. QED
        BY <4>1, <4>2
    <3>3. lookups[i].name \in KnownNames
      <4>1. lookups[i].name \in NamesIn(lookups)
        BY DEF NamesIn
      <4>2. QED
        BY <4>1 DEF KnownNames
    <3>4. QED
      BY <1>7, <2>2, <3>1, <3>2, <3>3
  <2>5. QED
    BY <1>2, <1>6, <2>3, <2>4
<1>10. TargetOf(lookups, page[k]) \in Range(table)
  BY <1>4, <1>6, <1>9
<1>11. QED
  BY <1>6, <1>8, <1>10 DEF table

\* getSettings and saveSettings fit together: a page that is saved as it was shown keeps
\* every target of an agent that the tables know by one name and whose targets all name
\* their tapper, or whose only target it is, unless two saves overlapped; for any lookup
\* table, any order of the names and however often the page was saved before.
THEOREM SavingBackKeepsTargetsHolds == SettingsSpec => []SavingBackKeepsTargets
<1>1. SettingsInv => SavingBackKeepsTargets
  <2>1. SUFFICES ASSUME SettingsInv, ~Overlapped, NEW t \in Range(AgentTargets), Plain(t)
                 PROVE  \E u \in Range(Plan(lookups, ShownPage).targets) :
                          /\ OfAgent(u) /\ u.name = t.name /\ u.peaks = t.peaks
                          /\ t.tapper \in {u.tapper, ""}
    BY DEF SavingBackKeepsTargets, Overlapped, SaveTopic
  <2> DEFINE u == TargetOf(lookups, ShownTarget(t))
  <2>2. Canonical(lookups, t.name) = t.name /\ u \in Range(Plan(lookups, ShownPage).targets)
    BY <2>1, PlainIsKept
  <2>3. /\ OfAgent(u) /\ u.name = Canonical(lookups, ShownTarget(t).name)
        /\ u.tapper = ShownTarget(t).tapper /\ u.peaks = ShownTarget(t).peaks
    BY TargetIs
  <2> HIDE DEF u
  <2>4. u.name = t.name /\ u.peaks = t.peaks /\ t.tapper \in {u.tapper, ""}
    BY <2>2, <2>3, ShownTargetIs
  <2>5. QED
    BY <2>2, <2>3, <2>4
<1>2. QED
  BY <1>1, SettingsInvHolds, PTL

-----------------------------------------------------------------------------
(* Portal: the requests in flight.                                         *)

FlightOK == DOMAIN req = Requests /\ FlightTypeOK

\* No request is the job of the settings.
NoJob == \A r \in Requests : req[r].op # "retro"

LEMMA StartOK ==
  ASSUME FlightOK, NEW r \in Requests, NEW q, DOMAIN q = DOMAIN Idle, Start(r, q)
  PROVE  FlightOK' /\ (NoJob /\ q.op # "retro" => NoJob')
<1>1. /\ req' = [req EXCEPT ![r] = q] /\ started < MaxRequests /\ started' = started + 1
      /\ DOMAIN req = Requests
  BY DEF Start, FlightOK
<1>2. DOMAIN req' = Requests /\ \A s \in Requests : req'[s] = IF s = r THEN q ELSE req[s]
  BY <1>1
<1>3. started' \in 0..MaxRequests
  BY <1>1, InFlightAssumption DEF FlightOK, FlightTypeOK
<1>4. QED
  BY <1>2, <1>3 DEF FlightOK, FlightTypeOK, NoJob

LEMMA GotoOK ==
  ASSUME FlightOK, NEW r \in Requests, NEW at, NEW data, Goto(r, at, data)
  PROVE  FlightOK' /\ (NoJob => NoJob')
<1>1. /\ req' = [req EXCEPT ![r].at = at, ![r].data = data] /\ started' = started
      /\ DOMAIN req = Requests /\ DOMAIN req[r] = DOMAIN Idle
  BY DEF Goto, FlightOK, FlightTypeOK
<1>2. /\ DOMAIN req' = Requests /\ DOMAIN req'[r] = DOMAIN Idle /\ req'[r].op = req[r].op
      /\ \A s \in Requests : s # r => req'[s] = req[s]
  BY <1>1 DEF Idle
<1>3. QED
  BY <1>1, <1>2 DEF FlightOK, FlightTypeOK, NoJob

LEMMA LeaveOK ==
  ASSUME FlightOK, NEW r \in Requests, Leave(r)
  PROVE  FlightOK' /\ (NoJob => NoJob')
<1>1. /\ req' = [req EXCEPT ![r] = Idle] /\ started' = started /\ DOMAIN req = Requests
  BY DEF Leave, FlightOK
<1>2. DOMAIN req' = Requests /\ \A s \in Requests : req'[s] = IF s = r THEN Idle ELSE req[s]
  BY <1>1
<1>3. Idle.op # "retro"
  BY DEF Idle
<1>4. QED
  BY <1>1, <1>2, <1>3 DEF FlightOK, FlightTypeOK, NoJob

LEMMA OnceOK ==
  ASSUME FlightOK, Once
  PROVE  FlightOK' /\ (NoJob => NoJob')
<1>1. req' = req /\ started < MaxRequests /\ started' = started + 1
  BY DEF Once
<1>2. started' \in 0..MaxRequests
  BY <1>1, InFlightAssumption DEF FlightOK, FlightTypeOK
<1>3. QED
  BY <1>1, <1>2 DEF FlightOK, FlightTypeOK, NoJob

LEMMA StayOK ==
  ASSUME FlightOK, UNCHANGED flight
  PROVE  FlightOK' /\ (NoJob => NoJob')
BY DEF flight, FlightOK, FlightTypeOK, NoJob

LEMMA FailOK ==
  ASSUME FlightOK, NEW r \in Requests, Fail(r)
  PROVE  FlightOK' /\ (NoJob => NoJob')
BY LeaveOK DEF Fail

LEMMA CreateFormFlight ==
  ASSUME FlightOK, CreateForm
  PROVE  FlightOK' /\ (NoJob => NoJob')
BY OnceOK DEF CreateForm

LEMMA CreateFieldFlight ==
  ASSUME FlightOK, NEW f, NEW k, NEW d, CreateField(f, k, d)
  PROVE  FlightOK' /\ (NoJob => NoJob')
BY OnceOK DEF CreateField, SetFields

LEMMA UpdateFieldFlight ==
  ASSUME FlightOK, NEW f, NEW k, NEW d, UpdateField(f, k, d)
  PROVE  FlightOK' /\ (NoJob => NoJob')
BY OnceOK DEF UpdateField, SetFields

LEMMA DeleteFieldFlight ==
  ASSUME FlightOK, NEW f, NEW k, NEW permanent, DeleteField(f, k, permanent)
  PROVE  FlightOK' /\ (NoJob => NoJob')
BY OnceOK DEF DeleteField, SetFields

LEMMA DeleteFormFlight ==
  ASSUME FlightOK, NEW r \in Requests, NEW f, DeleteForm(r, f)
  PROVE  FlightOK' /\ (NoJob => NoJob')
<1> DEFINE q == [Idle EXCEPT !.op = "deleteForm",
                           !.at = IF RecordsOf(f) # {} THEN "deactivate" ELSE "delete",
                           !.topic = {<<"drop", "form">>}]
<1>1. DOMAIN q = DOMAIN Idle /\ q.op # "retro"
  BY DEF Idle
<1>2. Start(r, q)
  BY DEF DeleteForm
<1> HIDE DEF q
<1>3. QED
  BY <1>1, <1>2, StartOK

LEMMA DeactivateFlight ==
  ASSUME FlightOK, NEW r \in Requests, Deactivate(r)
  PROVE  FlightOK' /\ (NoJob => NoJob')
BY LeaveOK DEF Deactivate

LEMMA DeleteFlight ==
  ASSUME FlightOK, NEW r \in Requests, Delete(r)
  PROVE  FlightOK' /\ (NoJob => NoJob')
BY LeaveOK DEF Delete

LEMMA SeedDefaultsFlight ==
  ASSUME FlightOK, NEW r \in Requests, SeedDefaults(r)
  PROVE  FlightOK' /\ (NoJob => NoJob')
<1> DEFINE q == [Idle EXCEPT !.op = "seed", !.at = "field", !.data = DOMAIN SeedFields,
                           !.id = IF CurrentForm = {} THEN Len(forms) + 1
                                  ELSE CHOOSE f \in CurrentForm : TRUE]
<1>1. DOMAIN q = DOMAIN Idle /\ q.op # "retro"
  BY DEF Idle
<1>2. Start(r, q)
  BY DEF SeedDefaults
<1> HIDE DEF q
<1>3. QED
  BY <1>1, <1>2, StartOK

LEMMA SeedFieldFlight ==
  ASSUME FlightOK, NEW r \in Requests, SeedField(r)
  PROVE  FlightOK' /\ (NoJob => NoJob')
BY GotoOK, LeaveOK DEF SeedField

LEMMA SubmitFlight ==
  ASSUME FlightOK, NEW r \in Requests, NEW f, NEW dto, Submit(r, f, dto)
  PROVE  FlightOK' /\ (NoJob => NoJob')
<1> DEFINE q == [Idle EXCEPT !.op = "submit", !.at = "create", !.id = f,
                             !.topic = {<<"add", "form">>},
                             !.data = [values |-> Validated(FieldsOf(f), dto.values, FALSE),
                                       under |-> FieldsOf(f),
                                       ref |-> IF dto.ref = None
                                               THEN GuessRefNumber(Validated(FieldsOf(f), dto.values, FALSE))
                                               ELSE dto.ref]]
<1>1. DOMAIN q = DOMAIN Idle /\ q.op # "retro"
  BY DEF Idle
<1>2. Start(r, q)
  BY DEF Submit
<1> HIDE DEF q
<1>3. QED
  BY <1>1, <1>2, StartOK

LEMMA CreateFlight ==
  ASSUME FlightOK, NEW r \in Requests, Create(r)
  PROVE  FlightOK' /\ (NoJob => NoJob')
BY LeaveOK DEF Create

LEMMA UpdateFlight ==
  ASSUME FlightOK, NEW r \in Requests, NEW n, NEW dto, Update(r, n, dto)
  PROVE  FlightOK' /\ (NoJob => NoJob')
<1> DEFINE
      record == records[n]
      fields == FieldsOf(record.form)
      merged == IF dto.values = None THEN record.values ELSE Over(dto.values, record.values)
      data == [values |-> IF dto.values = None THEN {} ELSE {Validated(fields, merged, TRUE)},
               ref |-> RefWritten(merged, dto),
               status |-> StatusWritten(record, dto),
               given |-> IF dto.values = None THEN {} ELSE DOMAIN dto.values,
               under |-> fields]
      q == [Idle EXCEPT !.op = "update", !.at = "write", !.id = n, !.topic = {<<"edit", n>>},
                        !.data = data]
<1>1. Start(r, q)
  BY DEF Update
<1> HIDE DEF data
<1>2. DOMAIN q = DOMAIN Idle /\ q.op # "retro"
  BY DEF Idle
<1> HIDE DEF q
<1>3. QED
  BY <1>1, <1>2, StartOK

LEMMA WriteFlight ==
  ASSUME FlightOK, NEW r \in Requests, Write(r)
  PROVE  FlightOK' /\ (NoJob => NoJob')
BY LeaveOK DEF Write

LEMMA GenerateFlight ==
  ASSUME FlightOK, NEW r \in Requests, NEW n, Generate(r, n)
  PROVE  FlightOK' /\ (NoJob => NoJob')
<1> DEFINE q == [Idle EXCEPT !.op = "print", !.at = "mark", !.id = n, !.topic = {<<"print", n>>},
                           !.data = records[n].values]
<1>1. DOMAIN q = DOMAIN Idle /\ q.op # "retro"
  BY DEF Idle
<1>2. Start(r, q)
  BY DEF Generate
<1> HIDE DEF q
<1>3. QED
  BY <1>1, <1>2, StartOK

LEMMA MarkGeneratedFlight ==
  ASSUME FlightOK, NEW r \in Requests, MarkGenerated(r)
  PROVE  FlightOK' /\ (NoJob => NoJob')
BY LeaveOK DEF MarkGenerated

LEMMA RemoveRecordFlight ==
  ASSUME FlightOK, NEW n, RemoveRecord(n)
  PROVE  FlightOK' /\ (NoJob => NoJob')
BY OnceOK DEF RemoveRecord

LEMMA ImportFlight ==
  ASSUME FlightOK, NEW r \in Requests, NEW f, NEW file, Import(r, f, file)
  PROVE  FlightOK' /\ (NoJob => NoJob')
<1> DEFINE q == [Idle EXCEPT !.op = "import", !.at = "chunk", !.id = f,
                           !.topic = {<<"add", "form">>, <<"import", f>>},
                           !.data = Queue(f, file)]
<1>1. DOMAIN q = DOMAIN Idle /\ q.op # "retro"
  BY DEF Idle
<1>2. Start(r, q)
  BY DEF Import
<1> HIDE DEF q
<1>3. QED
  BY <1>1, <1>2, StartOK

LEMMA ImportChunkFlight ==
  ASSUME FlightOK, NEW r \in Requests, ImportChunk(r)
  PROVE  FlightOK' /\ (NoJob => NoJob')
BY GotoOK, LeaveOK DEF ImportChunk

LEMMA FindAllFlight ==
  ASSUME FlightOK, NEW r \in Requests, NEW query, FindAll(r, query)
  PROVE  FlightOK' /\ (NoJob => NoJob')
<1> DEFINE q == [Idle EXCEPT !.op = "find", !.at = "read", !.id = ListKey(query)]
<1>1. DOMAIN q = DOMAIN Idle /\ q.op # "retro"
  BY DEF Idle
<1>2. Start(r, q)
  BY DEF FindAll
<1> HIDE DEF q
<1>3. QED
  BY <1>1, <1>2, StartOK

LEMMA FindOneFlight ==
  ASSUME FlightOK, NEW r \in Requests, NEW n, FindOne(r, n)
  PROVE  FlightOK' /\ (NoJob => NoJob')
<1> DEFINE q == [Idle EXCEPT !.op = "find", !.at = "read", !.id = DetailKey(n)]
<1>1. DOMAIN q = DOMAIN Idle /\ q.op # "retro"
  BY DEF Idle
<1>2. Start(r, q)
  BY DEF FindOne
<1> HIDE DEF q
<1>3. QED
  BY <1>1, <1>2, StartOK

LEMMA ReadFlight ==
  ASSUME FlightOK, NEW r \in Requests, Read(r)
  PROVE  FlightOK' /\ (NoJob => NoJob')
BY GotoOK, LeaveOK DEF Read

LEMMA SetFlight ==
  ASSUME FlightOK, NEW r \in Requests, Set(r)
  PROVE  FlightOK' /\ (NoJob => NoJob')
BY GotoOK, LeaveOK DEF Set

LEMMA TrackFlight ==
  ASSUME FlightOK, NEW r \in Requests, Track(r)
  PROVE  FlightOK' /\ (NoJob => NoJob')
BY LeaveOK DEF Track

LEMMA ExpireFlight ==
  ASSUME FlightOK, NEW k, Expire(k)
  PROVE  FlightOK' /\ (NoJob => NoJob')
BY StayOK DEF Expire

LEMMA CreateArticleFlight ==
  ASSUME FlightOK, NEW r \in Requests, CreateArticle(r)
  PROVE  FlightOK' /\ (NoJob => NoJob')
<1> DEFINE q == [Idle EXCEPT !.op = "create", !.at = "write"]
<1>1. DOMAIN q = DOMAIN Idle /\ q.op # "retro"
  BY DEF Idle
<1>2. Start(r, q)
  BY DEF CreateArticle
<1> HIDE DEF q
<1>3. QED
  BY <1>1, <1>2, StartOK

LEMMA UpdateArticleFlight ==
  ASSUME FlightOK, NEW r \in Requests, NEW n, NEW part, UpdateArticle(r, n, part)
  PROVE  FlightOK' /\ (NoJob => NoJob')
<1> DEFINE q == [Idle EXCEPT !.op = "edit", !.at = "write", !.id = DetailKey(n),
                           !.topic = {<<"rewrite", n>>},
                           !.data = [part |-> part, search |-> SearchText(articles[n], part)]]
<1>1. DOMAIN q = DOMAIN Idle /\ q.op # "retro"
  BY DEF Idle
<1>2. Start(r, q)
  BY DEF UpdateArticle
<1> HIDE DEF q
<1>3. QED
  BY <1>1, <1>2, StartOK

LEMMA RemoveArticleFlight ==
  ASSUME FlightOK, NEW r \in Requests, NEW n, RemoveArticle(r, n)
  PROVE  FlightOK' /\ (NoJob => NoJob')
<1> DEFINE q == [Idle EXCEPT !.op = "remove", !.id = DetailKey(n),
                           !.at = IF Cached(DetailKey(n)) THEN "write" ELSE "read"]
<1>1. DOMAIN q = DOMAIN Idle /\ q.op # "retro"
  BY DEF Idle
<1>2. Start(r, q)
  BY DEF RemoveArticle
<1> HIDE DEF q
<1>3. QED
  BY <1>1, <1>2, StartOK

LEMMA WriteArticleFlight ==
  ASSUME FlightOK, NEW r \in Requests, WriteArticle(r)
  PROVE  FlightOK' /\ (NoJob => NoJob')
BY GotoOK DEF WriteArticle

LEMMA IncrementViewFlight ==
  ASSUME FlightOK, NEW r \in Requests, NEW n, IncrementView(r, n)
  PROVE  FlightOK' /\ (NoJob => NoJob')
<1> DEFINE q == [Idle EXCEPT !.op = "view", !.at = "detail", !.id = DetailKey(n)]
<1>1. DOMAIN q = DOMAIN Idle /\ q.op # "retro"
  BY DEF Idle
<1>2. Start(r, q)
  BY DEF IncrementView
<1> HIDE DEF q
<1>3. QED
  BY <1>1, <1>2, StartOK

LEMMA DropDetailFlight ==
  ASSUME FlightOK, NEW r \in Requests, DropDetail(r)
  PROVE  FlightOK' /\ (NoJob => NoJob')
BY GotoOK, LeaveOK DEF DropDetail

LEMMA DropListsFlight ==
  ASSUME FlightOK, NEW r \in Requests, DropLists(r)
  PROVE  FlightOK' /\ (NoJob => NoJob')
BY GotoOK DEF DropLists

LEMMA ClearKeysFlight ==
  ASSUME FlightOK, NEW r \in Requests, ClearKeys(r)
  PROVE  FlightOK' /\ (NoJob => NoJob')
BY LeaveOK DEF ClearKeys

LEMMA ToggleFlight ==
  ASSUME FlightOK, NEW r \in Requests, NEW kind, NEW u, NEW n, Toggle(r, kind, u, n)
  PROVE  FlightOK' /\ (NoJob => NoJob')
<1> DEFINE q == [Idle EXCEPT !.op = "toggle", !.at = "mark", !.id = Mark(kind, u, n),
                           !.data = RowsOfMark(Mark(kind, u, n))]
<1>1. DOMAIN q = DOMAIN Idle /\ q.op # "retro"
  BY DEF Idle
<1>2. Start(r, q)
  BY DEF Toggle
<1> HIDE DEF q
<1>3. QED
  BY <1>1, <1>2, StartOK

LEMMA WriteMarkFlight ==
  ASSUME FlightOK, NEW r \in Requests, WriteMark(r)
  PROVE  FlightOK' /\ (NoJob => NoJob')
BY GotoOK, LeaveOK DEF WriteMark

LEMMA AnswerMarkFlight ==
  ASSUME FlightOK, NEW r \in Requests, AnswerMark(r) \/ NewsFail(r)
  PROVE  FlightOK' /\ (NoJob => NoJob')
BY LeaveOK DEF AnswerMark, NewsFail, Fail

LEMMA AddCommentFlight ==
  ASSUME FlightOK, NEW r \in Requests, NEW n, NEW parent, AddComment(r, n, parent)
  PROVE  FlightOK' /\ (NoJob => NoJob')
<1> DEFINE q == [Idle EXCEPT !.op = "comment", !.at = "insert", !.id = n,
                           !.data = IF parent = None THEN None ELSE TopOf(parent)]
<1>1. DOMAIN q = DOMAIN Idle /\ q.op # "retro"
  BY DEF Idle
<1>2. Start(r, q)
  BY DEF AddComment
<1> HIDE DEF q
<1>3. QED
  BY <1>1, <1>2, StartOK

LEMMA InsertCommentFlight ==
  ASSUME FlightOK, NEW r \in Requests, InsertComment(r)
  PROVE  FlightOK' /\ (NoJob => NoJob')
BY LeaveOK DEF InsertComment

LEMMA RemoveCommentFlight ==
  ASSUME FlightOK, NEW c, RemoveComment(c)
  PROVE  FlightOK' /\ (NoJob => NoJob')
BY OnceOK DEF RemoveComment

LEMMA NewsRestartFlight ==
  ASSUME FlightOK, NewsRestart
  PROVE  FlightOK' /\ (NoJob => NoJob')
BY OnceOK DEF NewsRestart

LEMMA SaveSettingsFlight ==
  ASSUME FlightOK, NEW r \in Requests, NEW page, SaveSettings(r, page)
  PROVE  FlightOK'
<1> DEFINE q == [Idle EXCEPT !.op = "save", !.at = "deleteTargets",
                           !.topic = {<<"save", "targets">>}, !.data = Plan(lookups, page)]
<1>1. DOMAIN q = DOMAIN Idle /\ q.op # "retro"
  BY DEF Idle
<1>2. Start(r, q)
  BY DEF SaveSettings
<1> HIDE DEF q
<1>3. QED
  BY <1>1, <1>2, StartOK

LEMMA DeleteTargetsFlight ==
  ASSUME FlightOK, NEW r \in Requests, DeleteTargets(r)
  PROVE  FlightOK'
BY GotoOK DEF DeleteTargets

LEMMA CreateTargetsFlight ==
  ASSUME FlightOK, NEW r \in Requests, CreateTargets(r)
  PROVE  FlightOK'
BY GotoOK, LeaveOK DEF CreateTargets

LEMMA DropOrphansFlight ==
  ASSUME FlightOK, NEW r \in Requests, DropOrphans(r)
  PROVE  FlightOK'
BY GotoOK DEF DropOrphans

LEMMA CreateLookupsFlight ==
  ASSUME FlightOK, NEW r \in Requests, CreateLookups(r)
  PROVE  FlightOK'
BY GotoOK DEF CreateLookups

LEMMA UpdateLookupsFlight ==
  ASSUME FlightOK, NEW r \in Requests, UpdateLookups(r)
  PROVE  FlightOK'
BY GotoOK, LeaveOK DEF UpdateLookups

LEMMA BulkDeleteFlight ==
  ASSUME FlightOK, NEW names, BulkDelete(names)
  PROVE  FlightOK'
BY OnceOK DEF BulkDelete

LEMMA RetroLookupsFlight ==
  ASSUME FlightOK, NEW r \in Requests, RetroLookups(r)
  PROVE  FlightOK'
BY GotoOK DEF RetroLookups

LEMMA RetroRowsFlight ==
  ASSUME FlightOK, NEW r \in Requests, RetroRows(r)
  PROVE  FlightOK'
BY GotoOK DEF RetroRows

LEMMA RetroUpdateFlight ==
  ASSUME FlightOK, NEW r \in Requests, RetroUpdate(r)
  PROVE  FlightOK'
BY GotoOK DEF RetroUpdate

LEMMA RetroNextFlight ==
  ASSUME FlightOK, NEW r \in Requests, RetroNext(r)
  PROVE  FlightOK'
BY GotoOK, LeaveOK DEF RetroNext

LEMMA SettingsFailFlight ==
  ASSUME FlightOK, NEW r \in Requests, SettingsFail(r)
  PROVE  FlightOK'
BY FailOK DEF SettingsFail

LEMMA BulkInsertLookupAgentFlight ==
  ASSUME FlightOK, NEW file, BulkInsertLookupAgent(file)
  PROVE  FlightOK'
BY OnceOK DEF BulkInsertLookupAgent, AddLookups

LEMMA RenameLookupFlight ==
  ASSUME FlightOK, NEW i, NEW name, RenameLookup(i, name)
  PROVE  FlightOK'
BY OnceOK DEF RenameLookup

LEMMA DeleteLookupsFlight ==
  ASSUME FlightOK, NEW S, DeleteLookups(S)
  PROVE  FlightOK'
BY OnceOK DEF DeleteLookups

LEMMA StartRetroFlight ==
  ASSUME FlightOK, NEW r \in Requests, StartRetro(r)
  PROVE  FlightOK'
<1>1. CASE retroRunning
  BY <1>1, LeaveOK DEF StartRetro
<1>2. CASE ~retroRunning
  <2> DEFINE q == [Idle EXCEPT !.op = "retro", !.at = "lookups"]
  <2>1. DOMAIN q = DOMAIN Idle
    BY DEF Idle
  <2>2. req' = [req EXCEPT ![r] = q] /\ started' = started
    BY <1>2 DEF StartRetro
  <2> HIDE DEF q
  <2>3. DOMAIN req' = Requests /\ \A s \in Requests : req'[s] = IF s = r THEN q ELSE req[s]
    BY <2>2 DEF FlightOK
  <2>4. QED
    BY <2>1, <2>2, <2>3 DEF FlightOK, FlightTypeOK
<1>3. QED
  BY <1>1, <1>2

-----------------------------------------------------------------------------
(* Portal: a step of each kind.                                            *)

LEMMA FormsStepFlight ==
  ASSUME FlightOK, FormsNext
  PROVE  FlightOK' /\ (NoJob => NoJob')
<1>1. CASE DefinitionSteps
  BY <1>1, CreateFormFlight, CreateFieldFlight, UpdateFieldFlight, DeleteFieldFlight
     DEF DefinitionSteps
<1>2. ASSUME NEW n \in DOMAIN records, RemoveRecord(n)
      PROVE  FlightOK' /\ (NoJob => NoJob')
  BY <1>2, RemoveRecordFlight
<1>3. ASSUME NEW r \in Requests, RecordSteps(r)
      PROVE  FlightOK' /\ (NoJob => NoJob')
  <2>1. ASSUME NEW f \in DOMAIN forms,
               \/ DeleteForm(r, f)
               \/ \E dto \in Submissions : Submit(r, f, dto)
               \/ \E file \in Rekaps \union {Rekap(f)} : Import(r, f, file)
        PROVE  FlightOK' /\ (NoJob => NoJob')
    BY <2>1, DeleteFormFlight, SubmitFlight, ImportFlight
  <2>2. ASSUME NEW n \in DOMAIN records, Generate(r, n) \/ \E dto \in Patches : Update(r, n, dto)
        PROVE  FlightOK' /\ (NoJob => NoJob')
    BY <2>2, GenerateFlight, UpdateFlight
  <2>3. CASE Deactivate(r) \/ Delete(r) \/ SeedDefaults(r) \/ SeedField(r)
    BY <2>3, DeactivateFlight, DeleteFlight, SeedDefaultsFlight, SeedFieldFlight
  <2>4. CASE Create(r) \/ Write(r) \/ MarkGenerated(r) \/ ImportChunk(r)
    BY <2>4, CreateFlight, WriteFlight, MarkGeneratedFlight, ImportChunkFlight
  <2>5. CASE Fail(r) /\ UNCHANGED formVars
    BY <2>5, FailOK
  <2>6. QED
    BY <1>3, <2>1, <2>2, <2>3, <2>4, <2>5 DEF RecordSteps
<1>4. QED
  BY <1>1, <1>2, <1>3 DEF FormsNext

LEMMA NewsStepFlight ==
  ASSUME FlightOK, NewsNext
  PROVE  FlightOK' /\ (NoJob => NoJob')
<1>1. ASSUME NEW r \in Requests, NewsSteps(r)
      PROVE  FlightOK' /\ (NoJob => NoJob')
  <2>1. ASSUME NEW n \in DOMAIN articles,
               \/ FindOne(r, n) \/ RemoveArticle(r, n) \/ IncrementView(r, n)
               \/ \E part \in {"title", "content"} : UpdateArticle(r, n, part)
               \/ \E u \in Users : Toggle(r, "bookmark", u, n)
               \/ \E parent \in (DOMAIN comments) \union {None} : AddComment(r, n, parent)
        PROVE  FlightOK' /\ (NoJob => NoJob')
    BY <2>1, FindOneFlight, RemoveArticleFlight, IncrementViewFlight, UpdateArticleFlight,
       ToggleFlight, AddCommentFlight
  <2>2. CASE (\E q \in Lists : FindAll(r, q)) \/ CreateArticle(r)
    BY <2>2, FindAllFlight, CreateArticleFlight
  <2>3. CASE \E c \in DOMAIN comments, u \in Users : Toggle(r, "like", u, c)
    BY <2>3, ToggleFlight
  <2>4. CASE Read(r) \/ Set(r) \/ Track(r)
    BY <2>4, ReadFlight, SetFlight, TrackFlight
  <2>5. CASE WriteArticle(r) \/ DropDetail(r) \/ DropLists(r) \/ ClearKeys(r)
    BY <2>5, WriteArticleFlight, DropDetailFlight, DropListsFlight, ClearKeysFlight
  <2>6. CASE WriteMark(r) \/ InsertComment(r)
    BY <2>6, WriteMarkFlight, InsertCommentFlight
  <2>7. CASE AnswerMark(r) \/ NewsFail(r)
    BY <2>7, AnswerMarkFlight
  <2>8. QED
    BY <1>1, <2>1, <2>2, <2>3, <2>4, <2>5, <2>6, <2>7 DEF NewsSteps
<1>2. CASE \E c \in DOMAIN comments : RemoveComment(c)
  BY <1>2, RemoveCommentFlight
<1>3. CASE (\E k \in DOMAIN cache : Expire(k)) \/ NewsRestart
  BY <1>3, ExpireFlight, NewsRestartFlight
<1>4. QED
  BY <1>1, <1>2, <1>3 DEF NewsNext

LEMMA SettingsStepFlight ==
  ASSUME FlightOK, SettingsNext
  PROVE  FlightOK'
<1>1. ASSUME NEW r \in Requests, SettingsSteps(r)
      PROVE  FlightOK'
  <2>1. CASE (\E page \in Pages : SaveSettings(r, page)) \/ SaveSettings(r, ShownPage)
    BY <2>1, SaveSettingsFlight
  <2>2. CASE DeleteTargets(r) \/ CreateTargets(r) \/ DropOrphans(r) \/ CreateLookups(r)
    BY <2>2, DeleteTargetsFlight, CreateTargetsFlight, DropOrphansFlight, CreateLookupsFlight
  <2>3. CASE UpdateLookups(r) \/ StartRetro(r)
    BY <2>3, UpdateLookupsFlight, StartRetroFlight
  <2>4. CASE RetroLookups(r) \/ RetroRows(r) \/ RetroUpdate(r) \/ RetroNext(r) \/ SettingsFail(r)
    BY <2>4, RetroLookupsFlight, RetroRowsFlight, RetroUpdateFlight, RetroNextFlight,
       SettingsFailFlight
  <2>5. QED
    BY <1>1, <2>1, <2>2, <2>3, <2>4 DEF SettingsSteps
<1>2. CASE \E t \in Range(targets) : OfAgent(t) /\ BulkDelete({t.name})
  BY <1>2, BulkDeleteFlight
<1>3. CASE \E file \in Uploads : BulkInsertLookupAgent(file)
  BY <1>3, BulkInsertLookupAgentFlight
<1>4. CASE \E i \in DOMAIN lookups :
             DeleteLookups({i}) \/ \E file \in Uploads : RenameLookup(i, file[1].name)
  BY <1>4, DeleteLookupsFlight, RenameLookupFlight
<1>5. CASE Ids(lookups) # {} /\ DeleteLookups(DOMAIN lookups)
  BY <1>5, DeleteLookupsFlight
<1>6. QED
  BY <1>1, <1>2, <1>3, <1>4, <1>5 DEF SettingsNext

-----------------------------------------------------------------------------
(* Portal: a behaviour is of one part.                                     *)

\* The other parts stay as they began.
Rests ==
  /\ area \in {"forms", "news", "settings"}
  /\ area # "forms" => FormsInit
  /\ area # "news" => NewsInit
  /\ area # "settings" => SettingsInit /\ NoJob

PortalInv == FlightOK /\ Rests

LEMMA InitPortal == Init => PortalInv
<1>1. SUFFICES ASSUME Init PROVE PortalInv
  OBVIOUS
<1>2. req = [r \in Requests |-> Idle] /\ started = 0
  BY <1>1 DEF Init, FlightInit
<1>3. DOMAIN req = Requests /\ \A r \in Requests : req[r] = Idle
  BY <1>2
<1>4. started \in 0..MaxRequests
  BY <1>2, InFlightAssumption
<1>5. NoJob
  BY <1>3 DEF NoJob, Idle
<1>6. FlightOK
  BY <1>3, <1>4 DEF FlightOK, FlightTypeOK
<1>7. QED
  BY <1>1, <1>5, <1>6 DEF Init, PortalInv, Rests

LEMMA RestForms == FormsInit /\ UNCHANGED formVars => FormsInit'
BY DEF FormsInit, formVars

LEMMA RestNews == NewsInit /\ UNCHANGED newsVars => NewsInit'
BY DEF NewsInit, newsVars, newsTables

LEMMA RestSettings == SettingsInit /\ UNCHANGED settingsVars => SettingsInit'
BY DEF SettingsInit, settingsVars

LEMMA StepPortal == PortalInv /\ [Next]_vars => PortalInv'
<1>1. SUFFICES ASSUME PortalInv, [Next]_vars PROVE PortalInv'
  OBVIOUS
<1>2. FlightOK /\ Rests
  BY <1>1 DEF PortalInv
<1>3. CASE area = "forms" /\ FormsNext /\ UNCHANGED <<newsVars, settingsVars, area>>
  <2>1. FlightOK' /\ (NoJob => NoJob')
    BY <1>2, <1>3, FormsStepFlight
  <2>2. QED
    BY <1>2, <1>3, <2>1, RestNews, RestSettings DEF PortalInv, Rests
<1>4. CASE area = "news" /\ NewsNext /\ UNCHANGED <<formVars, settingsVars, area>>
  <2>1. FlightOK' /\ (NoJob => NoJob')
    BY <1>2, <1>4, NewsStepFlight
  <2>2. QED
    BY <1>2, <1>4, <2>1, RestForms, RestSettings DEF PortalInv, Rests
<1>5. CASE area = "settings" /\ SettingsNext /\ UNCHANGED <<formVars, newsVars, area>>
  <2>1. FlightOK'
    BY <1>2, <1>5, SettingsStepFlight
  <2>2. QED
    BY <1>2, <1>5, <2>1, RestForms, RestNews DEF PortalInv, Rests
<1>6. CASE UNCHANGED vars
  <2>1. FlightOK' /\ (NoJob => NoJob')
    BY <1>2, <1>6, StayOK DEF vars
  <2>2. QED
    BY <1>2, <1>6, <2>1, RestForms, RestNews, RestSettings DEF PortalInv, Rests, vars
<1>7. QED
  BY <1>1, <1>3, <1>4, <1>5, <1>6 DEF Next

LEMMA PortalHolds == Spec => []PortalInv
BY InitPortal, StepPortal, PTL DEF Spec

\* Every behaviour of the portal is one of FormRecords, of NewsCache or of QaSettings:
\* whichever handlers run, they take no step that their own specification does not have.
\* The handlers of the forms.
THEOREM PortalIsForms == Spec /\ area = "forms" => FormsSpec
<1>1. Init => FlightInit /\ FormsInit
  BY DEF Init
<1>2. area = "forms" /\ [Next]_vars => (area = "forms")' /\ [FormsNext]_FormsFlight
  BY DEF Next, vars, FormsFlight
<1>3. QED
  BY <1>1, <1>2, PTL DEF Spec, FormsSpec

\* The handlers of news, comments and bookmarks with their cache.
THEOREM PortalIsNews == Spec /\ area = "news" => NewsSpec
<1>1. Init => FlightInit /\ NewsInit
  BY DEF Init
<1>2. area = "news" /\ [Next]_vars => (area = "news")' /\ [NewsNext]_NewsFlight
  BY DEF Next, vars, NewsFlight
<1>3. QED
  BY <1>1, <1>2, PTL DEF Spec, NewsSpec

\* The handlers of the QA settings and of the agents' lookup table.
THEOREM PortalIsSettings == Spec /\ area = "settings" => SettingsSpec
<1>1. Init => FlightInit /\ SettingsInit
  BY DEF Init
<1>2. area = "settings" /\ [Next]_vars => (area = "settings")' /\ [SettingsNext]_SettingsFlight
  BY DEF Next, vars, SettingsFlight
<1>3. QED
  BY <1>1, <1>2, PTL DEF Spec, SettingsSpec

LEMMA AreaStays ==
  /\ Spec /\ area = "forms" => [](area = "forms")
  /\ Spec /\ area = "news" => [](area = "news")
  /\ Spec /\ area = "settings" => [](area = "settings")
<1>1. /\ area = "forms" /\ [Next]_vars => (area = "forms")'
      /\ area = "news" /\ [Next]_vars => (area = "news")'
      /\ area = "settings" /\ [Next]_vars => (area = "settings")'
  BY DEF Next, vars
<1>2. QED
  BY <1>1, PTL DEF Spec

LEMMA FormsAtRest == FormsInit => FormsTypeOK
<1>1. SUFFICES ASSUME FormsInit PROVE FormsTypeOK
  OBVIOUS
<1>2. forms = <<NewForm(SeedFields)>> /\ records = <<>> /\ story = <<>>
  BY <1>1 DEF FormsInit
<1>3. /\ DOMAIN forms = {1} /\ forms[1].live = TRUE /\ forms[1].active = TRUE
      /\ DOMAIN records = {} /\ DOMAIN story = {}
  BY <1>2 DEF NewForm
<1>4. CurrentForm = {1}
  BY <1>3 DEF CurrentForm
<1>5. Cardinality(CurrentForm) <= 1
  BY <1>4, FS_Singleton
<1>6. QED
  BY <1>3, <1>5 DEF FormsTypeOK

LEMMA NewsAtRest == NewsInit => NewsTypeOK
<1>1. SUFFICES ASSUME NewsInit PROVE NewsTypeOK
  OBVIOUS
<1>2. DOMAIN cache = {} /\ listKeys = {} /\ DOMAIN comments = {} /\ DOMAIN told = {}
  BY <1>1 DEF NewsInit
<1>3. Live(comments) = {}
  BY <1>2 DEF Live
<1>4. QED
  BY <1>2, <1>3 DEF NewsTypeOK

LEMMA SettingsAtRest == SettingsInit /\ NoJob => SettingsTypeOK
<1>1. SUFFICES ASSUME SettingsInit, NoJob PROVE SettingsTypeOK
  OBVIOUS
<1>2. targets = <<>> /\ work = Work /\ retroRunning = FALSE
  BY <1>1 DEF SettingsInit
<1>3. Range(targets) = {}
  BY <1>2 DEF Range
<1>4. QED
  BY <1>1, <1>2, <1>3, QaSettingsAssumption DEF SettingsTypeOK, NoJob

\* Every table and request of the portal has its type: a record that is there is of the
\* form that is, a reply is to a comment that is there, and the flag of the retroactive
\* job is up exactly while one runs.
THEOREM PortalTypeCorrect == None \notin Nat => (Spec => []PortalTypeOK)
<1>1. SUFFICES ASSUME None \notin Nat
               PROVE  Spec => []PortalTypeOK
  OBVIOUS
<1>2. NewsSpec => []NewsTypeOK
  BY <1>1, NewsTypeCorrect
<1>3. Init => area = "forms" \/ area = "news" \/ area = "settings"
  BY DEF Init
<1>4. /\ PortalInv /\ area = "forms" /\ FormsTypeOK => PortalTypeOK
      /\ PortalInv /\ area = "news" /\ NewsTypeOK => PortalTypeOK
      /\ PortalInv /\ area = "settings" /\ SettingsTypeOK => PortalTypeOK
  BY FormsAtRest, NewsAtRest, SettingsAtRest DEF PortalInv, Rests, FlightOK, PortalTypeOK
<1>5. Spec /\ area = "forms" => []PortalTypeOK
  BY <1>4, PortalHolds, PortalIsForms, FormsTypeCorrect, AreaStays, PTL
<1>6. Spec /\ area = "news" => []PortalTypeOK
  BY <1>2, <1>4, PortalHolds, PortalIsNews, AreaStays, PTL
<1>7. Spec /\ area = "settings" => []PortalTypeOK
  BY <1>4, PortalHolds, PortalIsSettings, SettingsTypeCorrect, AreaStays, PTL
<1>8. QED
  BY <1>3, <1>5, <1>6, <1>7, PTL DEF Spec

\* Beside them, the promises of each part hold of the portal.
THEOREM PortalKeepsPromises ==
  Spec => [](/\ area = "forms" => NoRecordLost /\ GeneratedIsCurrent /\ ImportOnce
             /\ area = "news" => SearchTextFresh /\ TogglesAsAnswered
             /\ area = "settings" => OnePeakOneTapper /\ SavingBackKeepsTargets)
<1> DEFINE Promises == /\ area = "forms" => NoRecordLost /\ GeneratedIsCurrent /\ ImportOnce
                       /\ area = "news" => SearchTextFresh /\ TogglesAsAnswered
                       /\ area = "settings" => OnePeakOneTapper /\ SavingBackKeepsTargets
<1>1. Init => area = "forms" \/ area = "news" \/ area = "settings"
  BY DEF Init
<1>2. /\ area = "forms" /\ NoRecordLost /\ GeneratedIsCurrent /\ ImportOnce => Promises
      /\ area = "news" /\ SearchTextFresh /\ TogglesAsAnswered => Promises
      /\ area = "settings" /\ OnePeakOneTapper /\ SavingBackKeepsTargets => Promises
  OBVIOUS
<1> HIDE DEF Promises
<1>3. Spec /\ area = "forms" => []Promises
  BY <1>2, PortalIsForms, NoRecordLostHolds, GeneratedIsCurrentHolds, ImportOnceHolds, AreaStays,
     PTL
<1>4. Spec /\ area = "news" => []Promises
  BY <1>2, PortalIsNews, SearchTextFreshHolds, TogglesAsAnsweredHolds, AreaStays, PTL
<1>5. Spec /\ area = "settings" => []Promises
  BY <1>2, PortalIsSettings, OnePeakOneTapperHolds, SavingBackKeepsTargetsHolds, AreaStays, PTL
<1>6. Spec => []Promises
  BY <1>1, <1>3, <1>4, <1>5, PTL DEF Spec
<1>7. QED
  BY <1>6 DEF Promises
=============================================================================
