--------------------------- MODULE CommunityFeed ----------------------------
(***************************************************************************)
(* The community page of one browser: site/app/(shell)/tools/community/    *)
(* community-feed.tsx.  The page shows the posts of the server while it    *)
(* answers and falls back to the posts of this browser when it does not;   *)
(* a text the server refuses is to be kept in this browser.  Requests are  *)
(* answered late, in any order, refused, or committed and never answered;  *)
(* the browser's own storage may be full, closed or not readable, which    *)
(* the page never notices.                                                 *)
(***************************************************************************)
EXTENDS FiniteSets, Naturals

CONSTANTS
  Texts,      \* the texts the reader may write
  Others,     \* the posts of other readers on the server
  Demos,      \* the example posts of the page
  NoParent,   \* a text that answers no other
  MaxLoads    \* bound: loads under way at once

ASSUME FeedAssumption ==
  /\ Texts \cap Others = {} /\ Demos \cap (Texts \cup Others) = {}
  /\ MaxLoads \in Nat \ {0}

VARIABLES
  held,      \* own texts in the server's tables, shown or waiting for the moderator
  stored,    \* localStorage: [posts, replies], replies a set of <<parent, text>>
  mode,      \* what the page shows: checking, server, local
  shown,     \* the posts on the page
  added,     \* replies to example posts, on the page only
  loads,     \* GETs of the list under way
  composer,  \* the text being sent: [state, text, parent]
  written,   \* history: <<parent, text>> the composer has let go of
  dropped    \* history: what a storage in order would have kept and this one did not

feedVars == <<held, stored, mode, shown, added, loads, composer, written, dropped>>

NothingSent == [state |-> "idle", text |-> NoParent, parent |-> NoParent]
Modes == {"checking", "server", "local"}
\* The copy of a text on the server and the one in this browser have ids of their own.
OnServer(t) == <<t, "server">>
InBrowser(t) == <<t, "local">>
Posts == (Texts \X {"server", "local"}) \cup Others \cup Demos

FeedInit ==
  /\ held = {} /\ stored = [posts |-> {}, replies |-> {}]
  /\ mode = "checking" /\ shown = {} /\ added = {}
  /\ loads = 1 /\ composer = NothingSent /\ written = {} /\ dropped = {}

\* Posts of the server: a text that answers another is shown under it.
OwnPosts == {OnServer(w[2]) : w \in {v \in held : v[1] = NoParent}}
ServerPosts == Others \cup OwnPosts
\* The posts of this browser and the examples
LocalPosts(kept) == {InBrowser(t) : t \in kept.posts} \cup Demos

\* readStored: content that is closed or cannot be parsed reads as no posts.
NoPosts == [posts |-> {}, replies |-> {}]
ReadHere == {stored, NoPosts}

\* writeStored: a store that fails leaves the content, and nobody learns of it.
Contents(kept) == {<<NoParent, t>> : t \in kept.posts} \cup kept.replies
Store(kept, due) ==
  /\ stored' \in {kept, stored}
  /\ dropped' = dropped \cup (Contents(due) \ Contents(stored'))

----------------------------------------------------------------------------
(* loadPosts: setMode renders the page anew, and its effect loads again *)

\* Some of the posts: a page of the list, or the posts of the chosen issue when the
\* deployment knows only the older route.
LoadAnswered ==
  /\ loads > 0
  /\ \E page \in SUBSET ServerPosts, append \in BOOLEAN :
       shown' = IF append THEN shown \cup page ELSE page
  /\ mode' = "server" /\ added' = {}
  /\ loads' = IF mode = "server" THEN loads - 1 ELSE loads
  /\ UNCHANGED <<held, stored, composer, written, dropped>>

LoadFails ==
  /\ loads > 0
  /\ mode' = "local" /\ added' = {}
  /\ \E read \in ReadHere : shown' = LocalPosts(read)
  /\ loads' = loads - 1
  /\ UNCHANGED <<held, stored, composer, written, dropped>>

\* The reader sorts, asks for more or chooses another issue.
Refresh ==
  /\ \/ /\ mode = "local" /\ added' = {} /\ UNCHANGED loads
        /\ \E read \in ReadHere : shown' = LocalPosts(read)
     \/ mode # "local" /\ loads < MaxLoads /\ loads' = loads + 1 /\ UNCHANGED <<shown, added>>
  /\ UNCHANGED <<held, stored, mode, composer, written, dropped>>

----------------------------------------------------------------------------
(* submit and submitReply *)

\* Fault: a text the server refuses is shown and not stored.
OnlyShown(kept, text) == kept
AppendLocal(kept, text) == [kept EXCEPT !.posts = @ \cup {text}]

\* Only a post this browser keeps can keep a reply.
AttachReply(kept, parent, text) ==
  [kept EXCEPT !.replies = IF parent \in LocalPosts(kept) \ Demos THEN @ \cup {<<parent, text>>} ELSE @]

Kept(read, parent, text) ==
  IF parent = NoParent THEN AppendLocal(read, text) ELSE AttachReply(read, parent, text)

\* The page shows what it meant to store, stored or not.
KeepHere(parent, text) ==
  \E read \in ReadHere :
    /\ Store(Kept(read, parent, text), Kept(stored, parent, text))
    /\ shown' = LocalPosts(Kept(read, parent, text))
    /\ added' = IF mode = "local" /\ parent \in Demos THEN {<<parent, text>>} ELSE {}
    /\ written' = written \cup {<<parent, text>>}

\* react without the server stores the posts anew, their counts apart.
React ==
  /\ mode = "local"
  /\ \E read \in ReadHere : Store(read, stored)
  /\ UNCHANGED <<held, mode, shown, added, loads, composer, written>>

Unwritten == {t \in Texts : \A w \in written \cup held : w[2] # t}

Submit(text, parent) ==
  /\ composer.state = "idle" /\ mode # "checking" /\ text \in Unwritten
  /\ parent = NoParent \/ parent \in shown
  /\ IF mode = "local"
     THEN KeepHere(parent, text) /\ UNCHANGED composer
     ELSE /\ composer' = [state |-> "posting", text |-> text, parent |-> parent]
          /\ UNCHANGED <<stored, shown, added, written, dropped>>
  /\ UNCHANGED <<held, mode, loads>>

Own == <<composer.parent, composer.text>>

\* The tables take the text; a reply needs its post there.
Commit ==
  /\ composer.state = "posting"
  /\ composer.parent = NoParent \/ composer.parent \in ServerPosts
  /\ held' = held \cup {Own}
  /\ composer' = [composer EXCEPT !.state = "committed"]
  /\ UNCHANGED <<stored, mode, shown, added, loads, written, dropped>>

SubmitAnswered ==
  /\ composer.state = "committed"
  /\ written' = written \cup {Own}
  /\ composer' = NothingSent
  /\ loads' = IF loads < MaxLoads THEN loads + 1 ELSE loads
  /\ UNCHANGED <<held, stored, mode, shown, added, dropped>>

\* Refused by both routes, or no answer, whether the tables have taken it or not
SubmitFails ==
  /\ composer.state \in {"posting", "committed"}
  /\ mode' = "local"
  /\ KeepHere(composer.parent, composer.text)
  /\ composer' = NothingSent
  /\ UNCHANGED <<held, loads>>

FeedNext ==
  \/ LoadAnswered \/ LoadFails \/ Refresh
  \/ \E t \in Texts, p \in Posts \cup {NoParent} : Submit(t, p)
  \/ Commit \/ SubmitAnswered \/ SubmitFails \/ React
FeedSpec == FeedInit /\ [][FeedNext]_feedVars

----------------------------------------------------------------------------
(* Properties *)

FeedTypeOK ==
  /\ held \subseteq (Posts \cup {NoParent}) \X Texts
  /\ stored.posts \subseteq Texts /\ stored.replies \subseteq Posts \X Texts
  /\ mode \in Modes /\ shown \subseteq Posts /\ added \subseteq Demos \X Texts
  /\ loads \in 0 .. MaxLoads
  /\ composer.state \in {"idle", "posting", "committed"}
  /\ written \subseteq (Posts \cup {NoParent}) \X Texts
  /\ dropped \subseteq (Posts \cup {NoParent}) \X Texts

IsKept(w) == w \in held \/ (w[1] = NoParent /\ w[2] \in stored.posts) \/ w \in stored.replies

\* A post whose text has left the composer is on the server or in this browser,
\* whatever was refused, lost or answered out of order (community-feed.tsx:219); only a
\* storage of the browser that is full, closed or unreadable loses it (20-35).
PostKept == \A w \in written : w[1] = NoParent => IsKept(w) \/ w \in dropped

\* The same for a reply to a post of the server, as the notices of lines 322 and 330 say,
\* with a browser that stores what it is given; it is not so.
FromServer(post) == post \in Others \cup {OnServer(t) : t \in Texts}
ReplyKept == \A w \in written : FromServer(w[1]) => IsKept(w) \/ w \in dropped
=============================================================================
