------------------------------- MODULE NewsCache -------------------------------
(***************************************************************************)
(* NewsService and CommentService: articles read through a cache of lists  *)
(* and of single articles that every writer invalidates after its write,   *)
(* and the comments, bookmarks and likes beside them.                      *)
(*                                                                         *)
(* The cache (Redis, or a store in memory) outlives nothing but its time   *)
(* to live; the set of list keys to invalidate is a field of the service.  *)
(* An article is the version of its title and of its content, with the     *)
(* versions its searchText was built from.  Paging, the notifications of a *)
(* comment and roles are left out.                                         *)
(***************************************************************************)
EXTENDS InFlight, Integers

CONSTANTS
  Users,
  Lists     \* the queries that readers ask for, each with its key in the cache

VARIABLES
  articles, \* table News
  comments, \* table NewsComment
  marks,    \* tables NewsBookmark and NewsCommentLike
  cache,    \* cacheManager
  listKeys, \* listCacheKeys
  told      \* history: what the users were told of their marks, and what was never said

newsTables == <<articles, comments, marks>>
newsVars == <<newsTables, cache, listKeys, told>>

Live(table) == {n \in DOMAIN table : table[n].live}
Kill(table, S) ==
  [n \in DOMAIN table |-> IF n \in S THEN [table[n] EXCEPT !.live = FALSE] ELSE table[n]]

ListKey(q) == <<"list", q>>
DetailKey(n) == <<"detail", n>>
Cached(k) == k \in DOMAIN cache
DropKeys(S) == [k \in (DOMAIN cache) \ S |-> cache[k]]
WithKey(k, value) ==
  [x \in (DOMAIN cache) \union {k} |-> IF x = k THEN [value |-> value] ELSE cache[x]]

NewsInit ==
  /\ articles = <<[live |-> TRUE, title |-> 0, content |-> 0, search |-> <<0, 0>>, views |-> 0]>>
  /\ comments = <<>>
  /\ marks = <<>>
  /\ cache = <<>>
  /\ listKeys = {}
  /\ told = <<>>

-----------------------------------------------------------------------------
(* Readers.                                                                *)

\* What the database says under a key: the list, or the article if there is one.
ListNow ==
  {<<n, articles[n].title, articles[n].content, articles[n].views>> : n \in Live(articles)}
Reading(k) ==
  IF k[1] = "list" THEN ListNow
  ELSE {<<articles[n].title, articles[n].content, articles[n].views>> :
          n \in Live(articles) \intersect {k[2]}}

\* A hit is answered from the cache.
FindAll(r, q) ==
  /\ ~Cached(ListKey(q))
  /\ Start(r, [Idle EXCEPT !.op = "find", !.at = "read", !.id = ListKey(q)])
  /\ UNCHANGED newsVars

FindOne(r, n) ==
  /\ ~Cached(DetailKey(n))
  /\ Start(r, [Idle EXCEPT !.op = "find", !.at = "read", !.id = DetailKey(n)])
  /\ UNCHANGED newsVars

Read(r) ==
  /\ req[r].op \in {"find", "remove"} /\ req[r].at = "read"
  /\ IF Reading(req[r].id) = {} /\ req[r].id[1] = "detail"
     THEN Leave(r)
     ELSE Goto(r, "set", Reading(req[r].id))
  /\ UNCHANGED newsVars

\* Mutant: the detail is kept without a time to live.
ExpiresLists(k) == k[1] = "list"

\* Both kinds of keys are set with a time to live.
Expires(k) == k[1] \in {"list", "detail"}

Set(r) ==
  /\ req[r].op \in {"find", "remove"} /\ req[r].at = "set"
  /\ cache' = WithKey(req[r].id, req[r].data)
  /\ IF req[r].op = "remove" THEN Goto(r, "write", None)
     ELSE IF req[r].id[1] = "list" THEN Goto(r, "track", None)
     ELSE Leave(r)
  /\ UNCHANGED <<newsTables, listKeys, told>>

\* The key is added once the set has been awaited.
Track(r) ==
  /\ Is(r, "find", "track")
  /\ listKeys' = listKeys \union {req[r].id}
  /\ Leave(r)
  /\ UNCHANGED <<newsTables, cache, told>>

Expire(k) ==
  /\ Cached(k) /\ Expires(k)
  /\ cache' = DropKeys({k})
  /\ UNCHANGED <<newsTables, listKeys, told, flight>>

-----------------------------------------------------------------------------
(* Writers: their write, then the detail, then the lists.                  *)

CreateArticle(r) ==
  /\ Start(r, [Idle EXCEPT !.op = "create", !.at = "write"])
  /\ UNCHANGED newsVars

\* Mutant: searchText is built from what was sent alone.
SearchTextOfDto(article, part) ==
  IF part = "title" THEN <<article.title + 1, 0>> ELSE <<0, article.content + 1>>

SearchText(article, part) ==
  IF part = "title" THEN <<article.title + 1, article.content>>
  ELSE <<article.title, article.content + 1>>

\* update of the title or the content: the article is read, and the PDFs its content
\* links to are parsed before the write.
UpdateArticle(r, n, part) ==
  /\ articles[n].live
  /\ Start(r, [Idle EXCEPT !.op = "edit", !.at = "write", !.id = DetailKey(n),
                           !.topic = {<<"rewrite", n>>},
                           !.data = [part |-> part, search |-> SearchText(articles[n], part)]])
  /\ UNCHANGED newsVars

\* remove asks findOne, which may answer from the cache.
RemoveArticle(r, n) ==
  /\ Start(r, [Idle EXCEPT !.op = "remove", !.id = DetailKey(n),
                           !.at = IF Cached(DetailKey(n)) THEN "write" ELSE "read"])
  /\ UNCHANGED newsVars

WriteArticle(r) ==
  /\ req[r].at = "write"
  /\ \/ /\ req[r].op = "create"
        /\ articles' = Append(articles, [live |-> TRUE, title |-> 0, content |-> 0,
                                         search |-> <<0, 0>>, views |-> 0])
        /\ Goto(r, "lists", None)
     \/ /\ req[r].op = "edit"
        /\ LET n == req[r].id[2]
               d == req[r].data
           IN  articles' = [articles EXCEPT
                 ![n] = [articles[n] EXCEPT
                   !.search = d.search,
                   !.title = IF d.part = "title" THEN d.search[1] ELSE articles[n].title,
                   !.content = IF d.part = "content" THEN d.search[2] ELSE articles[n].content]]
        /\ Goto(r, "detail", None)
     \/ /\ req[r].op = "remove"
        /\ articles' = Kill(articles, {req[r].id[2]})
        /\ Goto(r, "detail", None)
  /\ UNCHANGED <<comments, marks, cache, listKeys, told>>

\* incrementView leaves the lists as they are.
IncrementView(r, n) ==
  /\ articles' = [articles EXCEPT ![n] = [articles[n] EXCEPT !.views = articles[n].views + 1]]
  /\ Start(r, [Idle EXCEPT !.op = "view", !.at = "detail", !.id = DetailKey(n)])
  /\ UNCHANGED <<comments, marks, cache, listKeys, told>>

DropDetail(r) ==
  /\ req[r].at = "detail"
  /\ cache' = DropKeys({req[r].id})
  /\ IF req[r].op = "view" THEN Leave(r) ELSE Goto(r, "lists", None)
  /\ UNCHANGED <<newsTables, listKeys, told>>

\* invalidateListCache: the known keys are deleted, and forgotten once that is awaited.
DropLists(r) ==
  /\ req[r].at = "lists"
  /\ cache' = DropKeys(listKeys)
  /\ Goto(r, "clear", None)
  /\ UNCHANGED <<newsTables, listKeys, told>>

ClearKeys(r) ==
  /\ req[r].at = "clear"
  /\ listKeys' = {}
  /\ Leave(r)
  /\ UNCHANGED <<newsTables, cache, told>>

-----------------------------------------------------------------------------
(* toggleBookmark, toggleLike, comments.                                   *)

\* Every mark has its unique key, (user, article) or (user, comment).
Mark(kind, u, n) == <<kind, u, n>>
RowsOfMark(m) == {i \in Live(marks) : marks[i].mark = m}

Toggle(r, kind, u, n) ==
  /\ n \in IF kind = "bookmark" THEN Live(articles) ELSE Live(comments)
  /\ Start(r, [Idle EXCEPT !.op = "toggle", !.at = "mark", !.id = Mark(kind, u, n),
                           !.data = RowsOfMark(Mark(kind, u, n))])
  /\ UNCHANGED newsVars

\* Mutant: without the unique key.
NotUnique(m) == TRUE

Unique(m) == RowsOfMark(m) = {}

\* What was found is deleted, by its id, or a mark is created; a call that the
\* database refuses is answered with an error.
WriteMark(r) ==
  /\ Is(r, "toggle", "mark")
  /\ LET m == req[r].id
         found == req[r].data
         deletes == found # {} /\ found \subseteq Live(marks)
         creates == found = {} /\ Unique(m) /\ (m[1] = "like" => m[3] \in Live(comments))
     IN  \/ deletes /\ marks' = Kill(marks, found) /\ Goto(r, "answer", FALSE)
         \/ creates /\ marks' = Append(marks, [live |-> TRUE, mark |-> m])
                    /\ Goto(r, "answer", TRUE)
         \/ ~deletes /\ ~creates /\ UNCHANGED marks /\ Leave(r)
  /\ UNCHANGED <<articles, comments, cache, listKeys, told>>

\* Of a mark: the answers that it is set less those that it is not, and the same of the
\* answers that were never given.
ToldOf(m) == IF m \in DOMAIN told THEN told[m] ELSE [said |-> 0, unsaid |-> 0]
Sign(b) == IF b THEN 1 ELSE -1
Tell(m, what) == told' = [x \in (DOMAIN told) \union {m} |-> IF x = m THEN what ELSE told[x]]

\* The answer follows the write: a like is first entered as an activity of the news, or
\* fails to be, and meanwhile another toggle may write and be answered.
AnswerMark(r) ==
  /\ Is(r, "toggle", "answer")
  /\ LET old == ToldOf(req[r].id)
     IN  Tell(req[r].id, [old EXCEPT !.said = old.said + Sign(req[r].data)])
  /\ Leave(r)
  /\ UNCHANGED <<newsTables, cache, listKeys>>

\* A toggle that ends after its write leaves its user untold.
NewsFail(r) ==
  /\ Fail(r)
  /\ IF Is(r, "toggle", "answer")
     THEN LET old == ToldOf(req[r].id)
          IN  Tell(req[r].id, [old EXCEPT !.unsaid = old.unsaid + Sign(req[r].data)])
     ELSE UNCHANGED told
  /\ UNCHANGED <<newsTables, cache, listKeys>>

\* A reply to a reply goes to the comment above it.
TopOf(c) == IF comments[c].parent = None THEN c ELSE comments[c].parent

AddComment(r, n, parent) ==
  /\ articles[n].live
  /\ parent # None => comments[parent].live /\ comments[parent].article = n
  /\ Start(r, [Idle EXCEPT !.op = "comment", !.at = "insert", !.id = n,
                           !.data = IF parent = None THEN None ELSE TopOf(parent)])
  /\ UNCHANGED newsVars

InsertComment(r) ==
  /\ Is(r, "comment", "insert")
  /\ comments' = IF req[r].data = None \/ req[r].data \in Live(comments)
                 THEN Append(comments, [live |-> TRUE, article |-> req[r].id,
                                        parent |-> req[r].data])
                 ELSE comments
  /\ Leave(r)
  /\ UNCHANGED <<articles, marks, cache, listKeys, told>>

\* The replies and the likes go with a comment.
RemoveComment(c) ==
  LET gone == {c} \union {d \in Live(comments) : comments[d].parent = c}
      likes == {i \in Live(marks) : marks[i].mark[1] = "like" /\ marks[i].mark[3] \in gone}
  IN  /\ Once
      /\ comments[c].live
      /\ comments' = Kill(comments, gone)
      /\ marks' = Kill(marks, likes)
      /\ UNCHANGED <<articles, cache, listKeys, told>>

-----------------------------------------------------------------------------
\* The process ends: Redis keeps the cache, listCacheKeys is empty again.
NewsRestart ==
  /\ listKeys # {}
  /\ Once
  /\ listKeys' = {}
  /\ UNCHANGED <<newsTables, cache, told>>

NewsSteps(r) ==
  \/ \E q \in Lists : FindAll(r, q)
  \/ CreateArticle(r)
  \/ \E n \in DOMAIN articles :
       \/ FindOne(r, n) \/ RemoveArticle(r, n) \/ IncrementView(r, n)
       \/ \E part \in {"title", "content"} : UpdateArticle(r, n, part)
       \/ \E u \in Users : Toggle(r, "bookmark", u, n)
       \/ \E parent \in (DOMAIN comments) \union {None} : AddComment(r, n, parent)
  \/ \E c \in DOMAIN comments, u \in Users : Toggle(r, "like", u, c)
  \/ Read(r) \/ Set(r) \/ Track(r)
  \/ WriteArticle(r) \/ DropDetail(r) \/ DropLists(r) \/ ClearKeys(r)
  \/ WriteMark(r) \/ AnswerMark(r) \/ InsertComment(r)
  \/ NewsFail(r)

NewsNext ==
  \/ \E r \in Requests : NewsSteps(r)
  \/ \E c \in DOMAIN comments : RemoveComment(c)
  \/ \E k \in DOMAIN cache : Expire(k)
  \/ NewsRestart

NewsFlight == <<flight, newsVars>>
NewsSpec == FlightInit /\ NewsInit /\ [][NewsNext]_NewsFlight

-----------------------------------------------------------------------------
(* Properties.                                                             *)

NewsTypeOK ==
  /\ \A k \in DOMAIN cache : k[1] \in {"list", "detail"}
  /\ listKeys \subseteq {ListKey(q) : q \in Lists}
  /\ \A c \in Live(comments) :
       comments[c].parent # None => /\ comments[c].parent \in Live(comments)
                                    /\ comments[comments[c].parent].parent = None
  /\ DOMAIN told \subseteq {marks[i].mark : i \in DOMAIN marks}

\* Whatever reader, writer or restart overlaps another, what is cached is up to date
\* again or gone in the end: the invalidation loses races, the time to live does not.
Outdated == \E k \in DOMAIN cache : cache[k].value # Reading(k)
OutdatedExpires == Outdated ~> ~Outdated

\* An article is found by the words it has: searchText is built from the title and
\* the content read before the PDFs are parsed, which is what is stored beside it
\* unless two updates of the article overlapped.
SearchTextFresh ==
  \A n \in DOMAIN articles :
    {<<"rewrite", n>>} \notin raced =>
      articles[n].search = <<articles[n].title, articles[n].content>>

\* isBookmarked and liked can be counted on: the toggles of a mark that changed it did so
\* in turn, on and off, so what its user was told, is about to be told, and was never told
\* because the process ended after the write, add up to how the mark stands.  Double
\* clicks, refused calls and answers in another order than the writes included: the
\* unique key and the delete by id see to it.  A comment takes its likes with it.
ToBeTold(m, b) == {r \in Requests : Is(r, "toggle", "answer") /\ req[r].id = m /\ req[r].data = b}
TogglesAsAnswered ==
  \A m \in {marks[i].mark : i \in DOMAIN marks} :
    m[1] = "bookmark" \/ m[3] \in Live(comments) =>
      ToldOf(m).said + ToldOf(m).unsaid
        + Cardinality(ToBeTold(m, TRUE)) - Cardinality(ToBeTold(m, FALSE))
      = IF RowsOfMark(m) = {} THEN 0 ELSE 1
=============================================================================
