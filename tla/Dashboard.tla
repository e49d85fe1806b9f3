------------------------------ MODULE Dashboard ------------------------------
(***************************************************************************)
(* The page that app.py serves at / and its script, app.js.  It polls the  *)
(* selected node with several requests at a time, whose answers come back  *)
(* in any order, and posts transactions.  The page belongs to the node     *)
(* that served it, Home: app.py allows no other origin, so the browser     *)
(* refuses every request to another node.  Those run all the time here.    *)
(***************************************************************************)
EXTENDS Naturals, Sequences, FiniteSets, Bags

CONSTANTS
  Nodes,
  Home,           \* the node that served the page
  Fetches,        \* which requests a refresh makes
  Texts,          \* what the user types into the form
  Empty,          \* the form without text
  Unknown,        \* a field of the page that shows a dash; a request's missing answer
  MaxOpen,        \* bound: requests for data that are open at a time
  MaxSwitches,    \* bound: how often the user selects a node
  MaxSubmits,     \* bound: how often the user submits the form
  MaxLost,        \* bound: requests for data that fail although Home runs
  MaxStarts       \* bound: how often Home is stopped and started again

ASSUME DashboardAssumption ==
  /\ Home \in Nodes
  /\ {"status", "nodes"} \subseteq Fetches
  /\ Fetches \subseteq {"status", "chain", "pending", "nodes"}
  /\ Empty \notin Texts
  /\ {MaxOpen, MaxSwitches, MaxSubmits, MaxLost, MaxStarts} \subseteq Nat

VARIABLES
  \* Home:
  up,         \* whether it runs
  chain,      \* the number of its blocks
  pool,       \* the number of its pending transactions
  starts,
  \* the page:
  selected,   \* currentNodePort
  shown,      \* its fields
  asked,      \* the bag of open requests for data
  form,       \* the form's content
  posts,      \* the POSTs so far, in the order in which they were made
  disabled,   \* the submit button is disabled
  \* its user, and the network:
  typed,      \* the texts typed so far
  switches,
  lost

homeVars == <<up, chain, pool, starts>>
pageVars == <<selected, shown, asked>>
formVars == <<form, posts, disabled>>
userVars == <<typed, switches, lost>>
vars == <<homeVars, pageVars, formVars, userVars>>

\* The requests that refreshAll makes for node n.
Round(n) == SetToBag({[of |-> f, node |-> n, answer |-> Unknown] : f \in Fetches})

\* A POST: whether Home has made a transaction of it, and what the page has been told.
Post ==
  [node : Nodes, text : Texts, taken : BOOLEAN, result : {"open", "ok", "failed"}]

Init ==
  /\ up = TRUE /\ chain = 1 /\ pool = 0 /\ starts = 0
  /\ selected = Home
  /\ shown = [length |-> Unknown, valid |-> Unknown,
              pooled |-> Unknown, blocks |-> Unknown, card |-> Unknown]
  /\ asked = Round(Home)
  /\ form = Empty /\ posts = <<>> /\ disabled = FALSE
  /\ typed = {} /\ switches = 0 /\ lost = 0

-----------------------------------------------------------------------------
(***************************************************************************)
(* The node.                                                               *)
(***************************************************************************)

Current(f) ==
  CASE f = "status"  -> [length |-> chain, pooled |-> pool]
    [] f = "chain"   -> [length |-> chain]
    [] f = "pending" -> [pooled |-> pool]
    [] f = "nodes"   -> [total |-> Nodes]

\* A block with some of the pool is appended.
Commit ==
  /\ up
  /\ \E n \in 1 .. pool : pool' = pool - n
  /\ chain' = chain + 1
  /\ UNCHANGED <<up, starts, pageVars, formVars, userVars>>

\* The process ends, and nothing is on disk.  What Home had taken it may have
\* broadcast, so that stays taken.
Stop ==
  /\ up /\ starts < MaxStarts
  /\ up' = FALSE /\ chain' = 1 /\ pool' = 0
  /\ UNCHANGED <<starts, pageVars, formVars, userVars>>

Start ==
  /\ ~up
  /\ up' = TRUE /\ starts' = starts + 1
  /\ UNCHANGED <<chain, pool, pageVars, formVars, userVars>>

-----------------------------------------------------------------------------
(***************************************************************************)
(* Polling.                                                                *)
(***************************************************************************)

HasRoom == BagCardinality(asked) + BagCardinality(Round(Home)) <= MaxOpen

\* The interval timer, the Refresh button, and the timer set by a successful POST
Refresh ==
  /\ HasRoom
  /\ asked' = asked (+) Round(selected)
  /\ UNCHANGED <<homeVars, selected, shown, formVars, userVars>>

Select(n) ==
  /\ n # selected /\ HasRoom /\ switches < MaxSwitches
  /\ selected' = n
  /\ switches' = switches + 1
  /\ asked' = asked (+) Round(n)
  /\ UNCHANGED <<homeVars, shown, formVars, typed, lost>>

\* Home answers a request.
Serve(f) ==
  LET r == [of |-> f, node |-> Home, answer |-> Unknown]
  IN  /\ up /\ r \in BagToSet(asked)
      /\ asked' = (asked (-) SetToBag({r})) (+) SetToBag({[r EXCEPT !.answer = Current(f)]})
      /\ UNCHANGED <<homeVars, selected, shown, formVars, userVars>>

\* What the page does with an answer, the selected node being s.
\* (Seeded fault: a shorter chain is taken for a stale answer.)
Filled_NeverShrinks(s, f, a) ==
  CASE f = "status"  -> IF shown.length # Unknown /\ shown.length > a.length THEN shown
                        ELSE [shown EXCEPT !.length = a.length, !.pooled = a.pooled,
                                           !.valid = "Valid"]
    [] f = "chain"   -> [shown EXCEPT !.blocks = a.length]
    [] f = "pending" -> [shown EXCEPT !.pooled = a.pooled]
    [] f = "nodes"   -> [shown EXCEPT !.card = s]

Filled(s, f, a) ==
  CASE f = "status"  -> [shown EXCEPT !.length = a.length, !.pooled = a.pooled,
                                      !.valid = "Valid"]
    [] f = "chain"   -> [shown EXCEPT !.blocks = a.length]
    [] f = "pending" -> [shown EXCEPT !.pooled = a.pooled]
    [] f = "nodes"   -> [shown EXCEPT !.card = s]

\* What the page shows after a failure: fetchStatus alone resets two fields.
Cleared(f) ==
  IF f = "status" THEN [shown EXCEPT !.length = Unknown, !.valid = Unknown] ELSE shown

\* An answer arrives and is shown, whatever node is selected by now.
Show(r) ==
  /\ r \in BagToSet(asked) /\ r.answer # Unknown
  /\ shown' = Filled(selected, r.of, r.answer)
  /\ asked' = asked (-) SetToBag({r})
  /\ UNCHANGED <<homeVars, selected, formVars, userVars>>

\* The browser refuses the request, or no one is there to answer it; or it is
\* lost, or its answer is, although Home runs.
Fail(r) ==
  /\ r \in BagToSet(asked)
  /\ IF r.node = Home /\ up THEN lost < MaxLost /\ lost' = lost + 1 ELSE lost' = lost
  /\ shown' = Cleared(r.of)
  /\ asked' = asked (-) SetToBag({r})
  /\ UNCHANGED <<homeVars, selected, formVars, typed, switches>>

\* What was answered is shown, what fails is handled.
Handle(f) == \E r \in BagToSet(asked) : r.of = f /\ (Show(r) \/ Fail(r))

-----------------------------------------------------------------------------
(***************************************************************************)
(* The form.                                                               *)
(***************************************************************************)

\* The fields stay enabled while a POST is open.
Type(t) ==
  /\ t \notin typed
  /\ typed' = typed \cup {t}
  /\ form' = t
  /\ UNCHANGED <<homeVars, pageVars, posts, disabled, switches, lost>>

NewPost == [node |-> selected, text |-> form, taken |-> FALSE, result |-> "open"]

\* (Seeded fault: the button stays enabled.)
Submit_Again ==
  /\ form # Empty /\ Len(posts) < MaxSubmits
  /\ disabled' = TRUE
  /\ posts' = Append(posts, NewPost)
  /\ UNCHANGED <<homeVars, pageVars, form, userVars>>

Submit ==
  /\ ~disabled /\ form # Empty /\ Len(posts) < MaxSubmits
  /\ disabled' = TRUE
  /\ posts' = Append(posts, NewPost)
  /\ UNCHANGED <<homeVars, pageVars, form, userVars>>

\* A thread of Home serves POST /transactions/new: it makes a new transaction of
\* the text, whether or not the page still waits.  (That a POST may reach a Home
\* that was started after it was made is more than the code allows.)
Accept(i) ==
  /\ up /\ posts[i].node = Home /\ ~posts[i].taken
  /\ pool' = pool + 1
  /\ posts' = [posts EXCEPT ![i].taken = TRUE]
  /\ UNCHANGED <<up, chain, starts, pageVars, form, disabled, userVars>>

\* The form is cleared, whatever was typed into it meanwhile.
Posted(i) ==
  /\ posts[i].result = "open" /\ posts[i].taken
  /\ form' = Empty
  /\ posts' = [posts EXCEPT ![i].result = "ok"]
  /\ disabled' = FALSE
  /\ UNCHANGED <<homeVars, pageVars, userVars>>

\* The request failed, or its answer was lost: the page cannot tell.
NotPosted(i) ==
  /\ posts[i].result = "open"
  /\ posts' = [posts EXCEPT ![i].result = "failed"]
  /\ disabled' = FALSE
  /\ UNCHANGED <<homeVars, pageVars, form, userVars>>

-----------------------------------------------------------------------------
HomeStep == Commit \/ Stop \/ Start

Polling ==
  \/ Refresh
  \/ \E n \in Nodes : Select(n)
  \/ \E f \in Fetches : Serve(f) \/ Handle(f)

Posting ==
  \/ \E t \in Texts : Type(t)
  \/ Submit
  \/ \E i \in DOMAIN posts : Accept(i) \/ Posted(i) \/ NotPosted(i)

Next == HomeStep \/ Polling \/ Posting

\* Open requests of each kind go on being served and handled, and the timer goes on.
Fairness ==
  /\ WF_vars(Refresh)
  /\ \A f \in Fetches : WF_vars(Serve(f) \/ Handle(f))

Spec == Init /\ [][Next]_vars /\ Fairness

-----------------------------------------------------------------------------
(***************************************************************************)
(* Home makes a second transaction of one text only if the page has        *)
(* reported a failure of the first before: a double click, a late answer   *)
(* or something typed in between do not lead to one (app.js:217-247).  A   *)
(* failure it is, also if Home had taken the first: then the user's second *)
(* try is a duplicate that nothing recognises, under an id of its own      *)
(* (app.py:112).                                                           *)
(***************************************************************************)
DuplicateOnlyAfterFailure ==
  \A i, j \in DOMAIN posts :
    i < j /\ posts[i].text = posts[j].text /\ posts[i].taken /\ posts[j].taken =>
      posts[i].result = "failed"

(***************************************************************************)
(* With Home selected and running, every field comes to show its current   *)
(* state for good, however late earlier answers arrive (app.js:52).        *)
(***************************************************************************)
CatchesUp ==
  <>[](selected = Home /\ up) =>
    <>[](/\ shown.length = chain /\ shown.valid = "Valid" /\ shown.pooled = pool
         /\ shown.card = Home
         /\ "chain" \in Fetches => shown.blocks = chain)
=============================================================================
