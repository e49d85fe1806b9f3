--------------------------- MODULE DashboardProofs ---------------------------
(***************************************************************************)
(* When the dashboard's form makes a duplicate: proof for any nodes, any   *)
(* texts, any number of submissions, selections, lost answers and restarts *)
(* of Home.                                                                *)
(***************************************************************************)
EXTENDS Dashboard, TLAPS

FormTypes ==
  /\ posts \in Seq(Post)
  /\ typed \subseteq Texts
  /\ form \in typed \cup {Empty}
  /\ selected \in Nodes

\* The button is disabled while a POST is open, and that is the last one.
OneOpen ==
  \A i \in DOMAIN posts : posts[i].result = "open" => i = Len(posts) /\ disabled

\* What was posted had been typed; a success cleared it from the form, so what is
\* posted again has failed before.
FormInv ==
  /\ FormTypes /\ OneOpen
  /\ \A i \in DOMAIN posts : posts[i].text \in typed
  /\ \A i \in DOMAIN posts :
       form # Empty /\ posts[i].text = form => posts[i].result # "ok"
  /\ \A i, j \in DOMAIN posts :
       i < j /\ posts[i].text = posts[j].text => posts[i].result = "failed"

LEMMA FormInitially == Init => FormInv
BY DashboardAssumption DEF Init, FormInv, FormTypes, OneOpen

-----------------------------------------------------------------------------
\* What goes on elsewhere is no concern of the form's.
LEMMA OthersKeep ==
  ASSUME FormInv, UNCHANGED <<form, posts, disabled, typed>>, selected' \in Nodes
  PROVE  FormInv'
BY DEF FormInv, FormTypes, OneOpen

\* When Home takes a POST the page learns nothing of it.
LEMMA AcceptKeeps ==
  ASSUME FormInv, NEW i \in DOMAIN posts, Accept(i)
  PROVE  FormInv'
<1>1. posts \in Seq(Post) /\ posts[i] \in Post
  BY DEF FormInv, FormTypes
<1> DEFINE p == [posts[i] EXCEPT !.taken = TRUE]
<1>2. p \in Post /\ p.text = posts[i].text /\ p.result = posts[i].result
  BY <1>1 DEF Post
<1>3. posts' = [posts EXCEPT ![i] = p] /\ UNCHANGED <<selected, form, disabled, typed>>
  BY DEF Accept, pageVars, userVars
<1> HIDE DEF p
<1>4. /\ posts' \in Seq(Post) /\ Len(posts') = Len(posts) /\ DOMAIN posts' = DOMAIN posts
      /\ \A j \in DOMAIN posts :
           posts'[j].text = posts[j].text /\ posts'[j].result = posts[j].result
  BY <1>1, <1>2, <1>3
<1>5. FormTypes' /\ OneOpen'
  BY <1>3, <1>4 DEF FormInv, FormTypes, OneOpen
<1> QED
  BY <1>3, <1>4, <1>5 DEF FormInv

LEMMA TypeKeeps ==
  ASSUME FormInv, NEW t \in Texts, Type(t)
  PROVE  FormInv'
<1>1. /\ t \notin typed /\ typed' = typed \cup {t} /\ form' = t
      /\ UNCHANGED <<selected, posts, disabled>>
  BY DEF Type, pageVars
<1>2. FormTypes' /\ OneOpen'
  BY <1>1 DEF FormInv, FormTypes, OneOpen
<1>3. \A i \in DOMAIN posts : posts[i].text # t
  BY <1>1 DEF FormInv
<1> QED
  BY <1>1, <1>2, <1>3 DEF FormInv

\* Every earlier POST has been answered, and that of the same text was not a success.
LEMMA SubmitKeeps ==
  ASSUME FormInv, Submit
  PROVE  FormInv'
<1>1. /\ posts \in Seq(Post) /\ form \in typed /\ form \in Texts /\ form # Empty
      /\ selected \in Nodes /\ ~disabled
  BY DashboardAssumption DEF FormInv, FormTypes, Submit
<1>2. /\ disabled' = TRUE /\ posts' = Append(posts, NewPost)
      /\ UNCHANGED <<selected, form, typed>>
  BY DEF Submit, pageVars, userVars
<1>3. NewPost \in Post /\ NewPost.text = form /\ NewPost.result = "open"
  BY <1>1 DEF NewPost, Post
<1> DEFINE last == Len(posts) + 1
<1>4. /\ posts' \in Seq(Post) /\ Len(posts') = last
      /\ DOMAIN posts' = DOMAIN posts \cup {last} /\ last \notin DOMAIN posts
      /\ posts'[last] = NewPost
      /\ \A i \in DOMAIN posts : posts'[i] = posts[i] /\ i < last
  BY <1>1, <1>2, <1>3
<1> HIDE DEF last
<1>5. \A i \in DOMAIN posts :
        /\ posts[i].result # "open"
        /\ posts[i].text = form => posts[i].result = "failed"
  <2>1. \A i \in DOMAIN posts : posts[i] \in Post
    BY <1>1
  <2>2. \A i \in DOMAIN posts : posts[i].result \in {"open", "ok", "failed"}
    BY <2>1 DEF Post
  <2> QED
    BY <1>1, <2>2 DEF FormInv, OneOpen
<1>6. FormTypes' /\ OneOpen'
  BY <1>2, <1>3, <1>4, <1>5 DEF FormInv, FormTypes, OneOpen
<1>7. \A i \in DOMAIN posts' : posts'[i].text \in typed'
  BY <1>1, <1>2, <1>3, <1>4 DEF FormInv
<1>8. \A i \in DOMAIN posts' : posts'[i].text = form => posts'[i].result # "ok"
  BY <1>3, <1>4, <1>5
<1>9. ASSUME NEW i \in DOMAIN posts', NEW j \in DOMAIN posts', i < j,
             posts'[i].text = posts'[j].text
      PROVE  posts'[i].result = "failed"
  <2>1. i \in DOMAIN posts
    <3>1. i \in Nat /\ j \in Nat /\ j <= last
      BY <1>1, <1>4, <1>9 DEF last
    <3> QED
      BY <1>4, <1>9, <3>1
  <2>2. CASE j = last
    BY <1>3, <1>4, <1>5, <1>9, <2>1, <2>2
  <2>3. CASE j \in DOMAIN posts
    BY <1>4, <1>9, <2>1, <2>3 DEF FormInv
  <2> QED
    BY <1>4, <2>2, <2>3
<1> QED
  BY <1>2, <1>6, <1>7, <1>8, <1>9 DEF FormInv

\* An answer clears the form or leaves a failure behind.
LEMMA AnsweredKeeps ==
  ASSUME FormInv, NEW i \in DOMAIN posts, Posted(i) \/ NotPosted(i)
  PROVE  FormInv'
<1>1. PICK r \in {"ok", "failed"} :
        /\ posts' = [posts EXCEPT ![i].result = r]
        /\ r = "ok" => form' = Empty
        /\ r = "failed" => form' = form
  BY DEF Posted, NotPosted
<1>2. posts[i].result = "open" /\ UNCHANGED <<selected, typed>>
  BY DEF Posted, NotPosted, pageVars, userVars
<1>3. posts \in Seq(Post) /\ posts[i] \in Post
  BY DEF FormInv, FormTypes
<1> DEFINE p == [posts[i] EXCEPT !.result = r]
<1>4. p \in Post /\ p.text = posts[i].text /\ p.result = r
  BY <1>3 DEF Post
<1>5. posts' = [posts EXCEPT ![i] = p]
  BY <1>1
<1> HIDE DEF p
<1>6. /\ posts' \in Seq(Post) /\ DOMAIN posts' = DOMAIN posts
      /\ posts'[i] = p /\ \A j \in DOMAIN posts \ {i} : posts'[j] = posts[j]
  BY <1>3, <1>4, <1>5
\* The open one is the last.
<1>7. i = Len(posts) /\ \A j \in DOMAIN posts : posts[j].result = "open" => j = i
  BY <1>2 DEF FormInv, OneOpen
<1>8. FormTypes' /\ OneOpen'
  <2>1. FormTypes'
    BY <1>1, <1>2, <1>6 DEF FormInv, FormTypes
  <2>2. \A j \in DOMAIN posts' : posts'[j].result # "open"
    BY <1>1, <1>4, <1>6, <1>7
  <2> QED
    BY <2>1, <2>2 DEF OneOpen
<1>9. \A j \in DOMAIN posts' : posts'[j].text = posts[j].text
  BY <1>4, <1>6
<1>10. \A j \in DOMAIN posts' : form' # Empty /\ posts'[j].text = form' => posts'[j].result # "ok"
  BY <1>1, <1>4, <1>6, <1>9 DEF FormInv
<1>11. ASSUME NEW j \in DOMAIN posts, NEW k \in DOMAIN posts, j < k,
              posts[j].text = posts[k].text
       PROVE  posts'[j].result = "failed"
  <2>1. j # i
    BY <1>3, <1>7, <1>11
  <2> QED
    BY <1>6, <1>11, <2>1 DEF FormInv
<1> QED
  BY <1>2, <1>6, <1>8, <1>9, <1>10, <1>11 DEF FormInv

LEMMA FormStep == FormInv /\ [Next]_vars => FormInv'
<1> SUFFICES ASSUME FormInv, [Next]_vars PROVE FormInv'
  OBVIOUS
<1>1. CASE HomeStep \/ Polling \/ UNCHANGED vars
  <2>1. UNCHANGED <<form, posts, disabled, typed>> /\ selected' \in Nodes
    BY <1>1 DEF HomeStep, Commit, Stop, Start, Polling, Refresh, Select, Serve, Handle, Show,
                Fail, FormInv, FormTypes, vars, homeVars, pageVars, formVars, userVars
  <2> QED
    BY <2>1, OthersKeep
<1>2. ASSUME NEW t \in Texts, Type(t) PROVE FormInv'
  BY <1>2, TypeKeeps
<1>3. CASE Submit
  BY <1>3, SubmitKeeps
<1>4. ASSUME NEW i \in DOMAIN posts, Accept(i) PROVE FormInv'
  BY <1>4, AcceptKeeps
<1>5. ASSUME NEW i \in DOMAIN posts, Posted(i) \/ NotPosted(i) PROVE FormInv'
  BY <1>5, AnsweredKeeps
<1> QED
  BY <1>1, <1>2, <1>3, <1>4, <1>5 DEF Next, Posting

(***************************************************************************)
(* A text that is typed once becomes a second transaction only after the   *)
(* page has reported a failure of the first, whichever answers are lost,   *)
(* whatever is typed and clicked while a POST is open and however often    *)
(* Home is restarted (app.js:217-247, app.py:112).                         *)
(***************************************************************************)
THEOREM NoUnreportedDuplicate == Spec => []DuplicateOnlyAfterFailure
<1>1. FormInv => DuplicateOnlyAfterFailure
  BY DEF FormInv, DuplicateOnlyAfterFailure
<1> QED
  BY <1>1, FormInitially, FormStep, PTL DEF Spec
=============================================================================
