-------------------------- MODULE ToolHooks_proofs --------------------------
(***************************************************************************)
(* Theorems about the hooks around an agent's tools, for any integrations,     *)
(* modes, tool calls and number of claims.  They rest on the keys: whatever    *)
(* book or copy names a claim names it under the key of the tool call that     *)
(* took it, so hooks that disturb each other have a key in common.            *)
(***************************************************************************)
EXTENDS ToolHooks, TLAPS

Max == 1..Len(status)

\* A claim is named under a key: by a tool call, in its copy, or in the book.
Names(t, c, k) == t.copy[k] = c \/ (t.claim = c /\ t.key = k)
Mentions(c, k) == book[k] = c \/ \E i \in Tools : Names(tool[i], c, k)

\* A claim has one key wherever it is named.
Keyed ==
    \A c \in ClaimId, k \in Tools : Mentions(c, k) =>
        c \in Max /\ \A l \in Tools : Mentions(c, l) => k = l

\* Where a hook names a claim, and which hooks are Cursor's.
Place(t) ==
    /\ t.at \in {"idle", "mail", "claim"} => t.claim = NoClaim
    /\ t.at \in {"answer", "save", "write"} \cup PostHook => t.claim # NoClaim
    /\ t.at \in {"mail", "answer", "forget"} => harness # "cursor"
    /\ t.at \in {"save", "write", "unsave", "unwrite"} => harness = "cursor"

\* A claim in force whose release the hooks did not try in vain.
Open(c) == c \in Held \ stray

\* The history variables are told; a hook that has released its claim is through with it.
History == (Sharing => shared) /\ (Ending => ended) /\ (Overlapping => overlapped)
Through == \A i \in Tools, c \in ClaimId :
               tool[i].at \in {"forget", "unsave", "unwrite"} /\ tool[i].claim = c => ~Open(c)

Base == TypeOK /\ History /\ Keyed /\ (\A i \in Tools : Place(tool[i])) /\ Through

\* A claim is in force until the hook after its tool.
Covered ==
    \A i \in Tools, c \in ClaimId :
        /\ tool[i].at \in {"answer", "save", "write", "running"} /\ tool[i].claim = c
        /\ ~shared /\ ~ended
        => c \in Held

\* Timers are of claims in force, but for those that started while a session ended; a
\* claim whose answer has just come is nowhere else.
Timed ==
    /\ \A i \in Tools, c \in ClaimId : tool[i].at = "answer" /\ tool[i].claim = c =>
           /\ c \in Held
           /\ \A k \in Tools : book[k] # c
           /\ \A j \in Tools \ {i} : tool[j].claim # c
    /\ \A i \in Tools : tool[i].at = "release" => tool[i].claim \notin timers
    /\ timers \ late \subseteq Held
    /\ ender.at = "releasing" => timers \subseteq late

\* As long as nothing was shared, ended or overlapped: a claim that is open is in the
\* book or named by its tool call, one that is in the book is named by its tool call,
\* and the copy of a Cursor hook is the book but for the hook's own key.
Kept ==
    ~shared /\ ~ended /\ ~overlapped =>
        /\ \A c \in ClaimId : Open(c) =>
               (\E k \in Tools : book[k] = c) \/ (\E i \in Tools : tool[i].claim = c)
        /\ \A c \in ClaimId, k \in Tools : Open(c) /\ book[k] = c =>
               \E i \in Tools : /\ tool[i].at \in {"running", "release"}
                                /\ tool[i].key = k /\ tool[i].claim = c
        /\ \A i \in Tools : tool[i].at \in {"running"} \cup PostHook /\ tool[i].claim # NoClaim =>
               book[tool[i].key] = tool[i].claim
        /\ \A i \in Tools : harness = "cursor" /\ InHook(i) =>
               /\ \A k \in Tools \ {tool[i].key} : tool[i].copy[k] = book[k]
               /\ tool[i].at \in {"save", "write"} => tool[i].copy[tool[i].key] = tool[i].claim
               /\ tool[i].at \in {"unsave", "unwrite"} => tool[i].copy[tool[i].key] = NoClaim

HInv == Base /\ Covered /\ Timed /\ Kept

----------------------------------------------------------------------------
\* What each step does to the call that takes it.

Others(i) == tool' \in [Tools -> Tool] /\ \A j \in Tools \ {i} : tool'[j] = tool[j]

\* The call is as if it had never been.
Ends(i) == /\ tool'[i].at = "idle" /\ tool'[i].claim = NoClaim
           /\ \A k \in Tools : tool'[i].copy[k] = NoClaim

\* The call goes on with its key.
Goes(i, at) == tool'[i].at = at /\ tool'[i].key = tool[i].key

\* The call and its copy name the claims that they named.
Keeps(i) == tool'[i].claim = tool[i].claim /\ tool'[i].copy = tool[i].copy

\* A call names what the copy of a book names, or nothing.
Reads(i) == tool'[i].copy = book \/ \A k \in Tools : tool'[i].copy[k] = NoClaim

\* The session-end hook is to meet an entry again that a call has deleted.
EnderForgets == \E k \in Tools : ender' = [ender EXCEPT !.seen = @ \ {k}]

LEMMA EnderSees ==
  ASSUME TypeOK, ender' = ender \/ EnderForgets
  PROVE  /\ ender' \in Ender /\ ender'.at = ender.at /\ ender'.due = ender.due
         /\ ender'.copy = ender.copy /\ ender'.seen \subseteq ender.seen
<1>1. ender \in Ender
  BY DEF TypeOK
<1>2. CASE ender' = ender
  BY <1>1, <1>2
<1>3. ASSUME NEW k \in Tools, ender' = [ender EXCEPT !.seen = ender.seen \ {k}]
      PROVE  /\ ender' \in Ender /\ ender'.at = ender.at /\ ender'.due = ender.due
             /\ ender'.copy = ender.copy /\ ender'.seen \subseteq ender.seen
  BY <1>1, <1>3 DEF Ender
<1> QED
  BY <1>2, <1>3 DEF EnderForgets

\* Setting one call leaves the others as they are.
LEMMA SetOne ==
  ASSUME TypeOK, NEW i \in Tools, NEW n \in Tool, Set(i, n)
  PROVE  Others(i) /\ tool'[i] = n
BY DEF TypeOK, Set, Others

\* The fields of a call.
LEMMA ToolFields ==
  ASSUME TypeOK, NEW i \in Tools
  PROVE  /\ tool[i] \in Tool /\ tool[i].key \in Tools /\ tool[i].copy \in Book
         /\ tool[i].claim \in ClaimId \cup {NoClaim} /\ book \in Book
         /\ \A k \in Tools : NoBook[k] = NoClaim
         /\ NoBook \in Book /\ IdleTool(i) \in Tool
BY DEF TypeOK, Tool, IdleTool, NoBook, Book

With(t, at, claim, copy) == [t EXCEPT !.at = at, !.claim = claim, !.copy = copy]

LEMMA FieldsSet ==
  ASSUME NEW t \in Tool, NEW at \in {"idle", "running"} \cup PreHook \cup PostHook,
         NEW claim \in ClaimId \cup {NoClaim}, NEW copy \in Book
  PROVE  /\ With(t, at, claim, copy) \in Tool
         /\ With(t, at, claim, copy).at = at /\ With(t, at, claim, copy).key = t.key
         /\ With(t, at, claim, copy).claim = claim /\ With(t, at, claim, copy).copy = copy
BY DEF Tool, With

LEMMA ReturnDoes ==
  ASSUME TypeOK, NEW i \in Tools, Return(i)
  PROVE  Others(i) /\ Ends(i)
<1>1. Others(i) /\ tool'[i] = IdleTool(i)
  BY ToolFields, SetOne DEF Return
<1> QED
  BY <1>1, ToolFields DEF IdleTool, Ends

LEMMA StepDoes ==
  ASSUME TypeOK, NEW i \in Tools, NEW at \in {"idle", "running"} \cup PreHook \cup PostHook,
         Step(i, at)
  PROVE  Others(i) /\ Goes(i, at) /\ Keeps(i)
<1> DEFINE n == [tool[i] EXCEPT !.at = at]
<1>1. n \in Tool /\ n.at = at /\ n.key = tool[i].key /\ n.claim = tool[i].claim
      /\ n.copy = tool[i].copy
  BY ToolFields DEF Tool
<1>2. Others(i) /\ tool'[i] = n
  BY <1>1, SetOne DEF Step
<1> QED
  BY <1>1, <1>2 DEF Goes, Keeps

LEMMA BeginDoes ==
  ASSUME TypeOK, NEW i \in Tools, NEW key \in Tools,
         PreToolUse(i, key) \/ CursorPreToolUse(i, key)
  PROVE  /\ Others(i) /\ tool[i].at = "idle" /\ tool'[i].claim = NoClaim
         /\ \/ harness # "cursor" /\ tool'[i].at = "mail"
               /\ \A k \in Tools : tool'[i].copy[k] = NoClaim
            \/ harness = "cursor" /\ file = "ok" /\ tool'[i].at = "claim" /\ tool'[i].copy = book
            \/ harness = "cursor" /\ file # "ok" /\ tool'[i].at = "running"
               /\ \A k \in Tools : tool'[i].copy[k] = NoClaim
<1> DEFINE mail == [IdleTool(i) EXCEPT !.key = key, !.at = "mail"]
           claim == [IdleTool(i) EXCEPT !.key = key, !.at = "claim", !.copy = book]
           run == [IdleTool(i) EXCEPT !.key = key, !.at = "running"]
<1>1. /\ mail \in Tool /\ mail.at = "mail" /\ mail.claim = NoClaim /\ mail.copy = NoBook
      /\ claim \in Tool /\ claim.at = "claim" /\ claim.claim = NoClaim /\ claim.copy = book
      /\ run \in Tool /\ run.at = "running" /\ run.claim = NoClaim /\ run.copy = NoBook
  BY ToolFields DEF Tool, IdleTool, PreHook
<1> HIDE DEF mail, claim, run
<1>2. CASE PreToolUse(i, key)
  <2>1. Others(i) /\ tool'[i] = mail
    BY <1>1, <1>2, SetOne DEF PreToolUse, mail
  <2> QED
    BY <1>1, <1>2, <2>1, ToolFields DEF PreToolUse
<1>3. CASE CursorPreToolUse(i, key) /\ file = "ok"
  <2>1. Others(i) /\ tool'[i] = claim
    BY <1>1, <1>3, SetOne DEF CursorPreToolUse, claim
  <2> QED
    BY <1>1, <1>3, <2>1 DEF CursorPreToolUse
<1>4. CASE CursorPreToolUse(i, key) /\ file # "ok"
  <2>1. Others(i) /\ tool'[i] = run
    BY <1>1, <1>4, SetOne DEF CursorPreToolUse, run
  <2> QED
    BY <1>1, <1>4, <2>1, ToolFields DEF CursorPreToolUse
<1> QED
  BY <1>2, <1>3, <1>4

\* The claim that was granted, in the call, and for Cursor in the copy.
Granted(i) ==
    /\ tool'[i].claim = Len(status) + 1 /\ stray' = stray
    /\ \/ harness # "cursor" /\ Goes(i, "answer") /\ tool'[i].copy = tool[i].copy
       \/ harness = "cursor" /\ Goes(i, "save")
          /\ tool'[i].copy = [tool[i].copy EXCEPT ![tool[i].key] = Len(status) + 1]

LEMMA ClaimDoes ==
  ASSUME TypeOK, NEW i \in Tools, Claim(i)
  PROVE  /\ Others(i) /\ tool[i].at = "claim"
         /\ \/ /\ Len(status) < MaxClaims /\ status' = Append(status, "held")
               /\ \/ Granted(i)
                  \/ /\ stray' = stray \cup {Len(status) + 1}
                     /\ Goes(i, "running") /\ Keeps(i)
            \/ UNCHANGED <<status, stray>> /\ Goes(i, "running") /\ Keeps(i)
            \/ UNCHANGED <<status, stray>> /\ Ends(i)
<1> DEFINE t == tool[i]
           new == Len(status) + 1
           saves == [t EXCEPT !.claim = new, !.at = "save", !.copy[t.key] = new]
           answers == [t EXCEPT !.claim = new, !.at = "answer"]
           refused == [t EXCEPT !.at = "running", !.refused = TRUE]
<1>1. t \in Tool /\ t.key \in Tools /\ t.copy \in Book /\ t.claim \in ClaimId \cup {NoClaim}
  BY ToolFields
<1>2. refused \in Tool /\ refused.at = "running" /\ refused.key = t.key
      /\ refused.claim = t.claim /\ refused.copy = t.copy
  BY <1>1 DEF Tool
<1>3. ASSUME Len(status) < MaxClaims
      PROVE  /\ saves \in Tool /\ saves.at = "save" /\ saves.key = t.key /\ saves.claim = new
             /\ saves.copy = [t.copy EXCEPT ![t.key] = new]
             /\ answers \in Tool /\ answers.at = "answer" /\ answers.key = t.key
             /\ answers.claim = new /\ answers.copy = t.copy
  <2>1. new \in ClaimId
    BY <1>3, HookConstants DEF TypeOK, ClaimId
  <2>2. [t.copy EXCEPT ![t.key] = new] \in Book
    BY <1>1, <2>1 DEF Book
  <2> HIDE DEF new
  <2> QED
    BY <1>1, <2>1, <2>2 DEF Tool, PreHook
<1> HIDE DEF saves, answers, refused
<1>4. ASSUME Step(i, "running") PROVE Others(i) /\ Goes(i, "running") /\ Keeps(i)
  BY <1>4, StepDoes
<1>5. ASSUME Set(i, refused) PROVE Others(i) /\ Goes(i, "running") /\ Keeps(i)
  <2>1. Others(i) /\ tool'[i] = refused
    BY <1>2, <1>5, SetOne
  <2> QED
    BY <1>2, <2>1 DEF Goes, Keeps
<1>6. ASSUME Len(status) < MaxClaims, Set(i, IF harness = "cursor" THEN saves ELSE answers),
             stray' = stray
      PROVE  Others(i) /\ Granted(i)
  <2>1. CASE harness = "cursor"
    <3>1. Others(i) /\ tool'[i] = saves
      BY <1>3, <1>6, <2>1, SetOne
    <3> QED
      BY <1>3, <1>6, <2>1, <3>1 DEF Goes, Granted
  <2>2. CASE harness # "cursor"
    <3>1. Others(i) /\ tool'[i] = answers
      BY <1>3, <1>6, <2>2, SetOne
    <3> QED
      BY <1>3, <1>6, <2>2, <3>1 DEF Goes, Granted
  <2> QED
    BY <2>1, <2>2
<1>7. ASSUME Return(i) PROVE Others(i) /\ Ends(i)
  BY <1>7, ReturnDoes
<1> QED
  BY <1>4, <1>5, <1>6, <1>7 DEF Claim, saves, answers, refused

LEMMA ClaimAnsweredDoes ==
  ASSUME TypeOK, NEW i \in Tools, ClaimAnswered(i)
  PROVE  Others(i) /\ Goes(i, "running") /\ Keeps(i)
<1> DEFINE n == [tool[i] EXCEPT !.at = "running"]
<1>1. n \in Tool /\ n.at = "running" /\ n.key = tool[i].key /\ n.claim = tool[i].claim
      /\ n.copy = tool[i].copy
  BY ToolFields DEF Tool
<1>2. Others(i) /\ tool'[i] = n
  BY <1>1, SetOne DEF ClaimAnswered
<1> QED
  BY <1>1, <1>2 DEF Goes, Keeps

LEMMA TruncateDoes ==
  ASSUME TypeOK, NEW i \in Tools, Truncate(i)
  PROVE  /\ Others(i) /\ Keeps(i)
         /\ \/ tool[i].at = "save" /\ Goes(i, "write")
            \/ tool[i].at = "unsave" /\ Goes(i, "unwrite")
<1>1. CASE tool[i].at = "save"
  BY <1>1, StepDoes DEF Truncate, PreHook
<1>2. CASE tool[i].at = "unsave"
  BY <1>2, StepDoes DEF Truncate, PostHook
<1> QED
  BY <1>1, <1>2 DEF Truncate

\* A call whose copy has been written.
LEMMA Written ==
  ASSUME TypeOK, NEW i \in Tools
  PROVE  LET n == [tool[i] EXCEPT !.at = "running", !.copy = NoBook]
         IN  n \in Tool /\ n.at = "running" /\ n.key = tool[i].key /\ n.claim = tool[i].claim
             /\ n.copy = NoBook
<1> DEFINE n == [tool[i] EXCEPT !.at = "running", !.copy = NoBook]
<1>1. n = With(tool[i], "running", tool[i].claim, NoBook)
  BY ToolFields DEF Tool, With
<1>2. /\ tool[i] \in Tool /\ tool[i].claim \in ClaimId \cup {NoClaim} /\ NoBook \in Book
      /\ "running" \in {"idle", "running"} \cup PreHook \cup PostHook
  BY ToolFields
<1> HIDE DEF n
<1>3. n \in Tool /\ n.at = "running" /\ n.key = tool[i].key /\ n.claim = tool[i].claim
      /\ n.copy = NoBook
  BY <1>1, <1>2, FieldsSet
<1> QED
  BY <1>3 DEF n

LEMMA SaveDoes ==
  ASSUME TypeOK, NEW i \in Tools, SaveCursorState(i)
  PROVE  /\ Others(i)
         /\ \/ /\ tool[i].at = "write" /\ Goes(i, "running")
               /\ tool'[i].claim = tool[i].claim
               /\ \A k \in Tools : tool'[i].copy[k] = NoClaim
            \/ tool[i].at = "unwrite" /\ Ends(i)
<1> DEFINE n == [tool[i] EXCEPT !.at = "running", !.copy = NoBook]
<1>1. n \in Tool /\ n.at = "running" /\ n.key = tool[i].key /\ n.claim = tool[i].claim
      /\ n.copy = NoBook
  BY Written
<1>2. CASE tool[i].at = "write"
  <2>1. Others(i) /\ tool'[i] = n
    BY <1>1, <1>2, SetOne DEF SaveCursorState
  <2> QED
    BY <1>1, <1>2, <2>1, ToolFields DEF Goes
<1>3. CASE tool[i].at = "unwrite"
  BY <1>3, ReturnDoes DEF SaveCursorState
<1> QED
  BY <1>2, <1>3 DEF SaveCursorState, Writing

LEMMA PostDoes ==
  ASSUME TypeOK, NEW i \in Tools, PostToolUse(i) \/ CursorPostToolUse(i)
  PROVE  /\ Others(i) /\ tool[i].at = "running"
         /\ \/ /\ book[tool[i].key] = NoClaim \/ (harness = "cursor" /\ file # "ok")
               /\ Ends(i)
            \/ /\ book[tool[i].key] # NoClaim /\ Goes(i, "release")
               /\ tool'[i].claim = book[tool[i].key]
               /\ \/ harness = "cursor" /\ file = "ok" /\ tool'[i].copy = book
                  \/ harness # "cursor" /\ \A k \in Tools : tool'[i].copy[k] = NoClaim
<1> DEFINE n == [tool[i] EXCEPT !.at = "release", !.claim = book[tool[i].key],
                                !.copy = IF harness = "cursor" THEN book ELSE NoBook]
<1>1. /\ n \in Tool /\ n.at = "release" /\ n.key = tool[i].key
      /\ n.claim = book[tool[i].key] /\ n.copy = IF harness = "cursor" THEN book ELSE NoBook
  <2>1. book[tool[i].key] \in ClaimId \cup {NoClaim}
    BY ToolFields DEF Book
  <2> DEFINE copy == IF harness = "cursor" THEN book ELSE NoBook
  <2>2. copy \in Book
    BY ToolFields
  <2>3. n = With(tool[i], "release", book[tool[i].key], copy)
    BY DEF With
  <2>4. "release" \in {"idle", "running"} \cup PreHook \cup PostHook /\ tool[i] \in Tool
    BY ToolFields DEF PostHook
  <2> HIDE DEF n, copy
  <2>5. n \in Tool /\ n.at = "release" /\ n.key = tool[i].key /\ n.claim = book[tool[i].key]
        /\ n.copy = copy
    BY <2>1, <2>2, <2>3, <2>4, FieldsSet
  <2> QED
    BY <2>5 DEF copy
<1>2. ASSUME Return(i) PROVE Others(i) /\ Ends(i)
  BY <1>2, ReturnDoes
<1>3. ASSUME Set(i, n) PROVE Others(i) /\ tool'[i] = n
  BY <1>1, <1>3, SetOne
<1>4. ReleaseNext(i, book) => \/ (book[tool[i].key] = NoClaim /\ Return(i))
                             \/ (book[tool[i].key] # NoClaim /\ Set(i, n))
  BY DEF ReleaseNext
<1> HIDE DEF n
<1>5. CASE PostToolUse(i)
  BY <1>1, <1>2, <1>3, <1>4, <1>5, ToolFields DEF PostToolUse, Goes
<1>6. CASE CursorPostToolUse(i)
  BY <1>1, <1>2, <1>3, <1>4, <1>6, ToolFields DEF CursorPostToolUse, Goes
<1> QED
  BY <1>5, <1>6

LEMMA ReleaseDoes ==
  ASSUME TypeOK, NEW i \in Tools, Release(i)
  PROVE  /\ Others(i) /\ tool[i].at = "release" /\ tool'[i].claim = tool[i].claim
         /\ \/ harness = "cursor" /\ Goes(i, "unsave")
               /\ tool'[i].copy = [tool[i].copy EXCEPT ![tool[i].key] = NoClaim]
            \/ harness # "cursor" /\ Goes(i, "forget") /\ tool'[i].copy = tool[i].copy
<1> DEFINE t == tool[i]
           cursors == [t EXCEPT !.at = "unsave", !.copy[t.key] = NoClaim]
           others == [t EXCEPT !.at = "forget"]
<1>1. /\ cursors \in Tool /\ cursors.at = "unsave" /\ cursors.key = t.key
      /\ cursors.claim = t.claim /\ cursors.copy = [t.copy EXCEPT ![t.key] = NoClaim]
  <2> DEFINE copy == [t.copy EXCEPT ![t.key] = NoClaim]
  <2>1. copy \in Book
    BY ToolFields DEF Book
  <2>2. cursors = With(t, "unsave", t.claim, copy)
    BY ToolFields DEF Tool, With
  <2>3. /\ "unsave" \in {"idle", "running"} \cup PreHook \cup PostHook
        /\ t \in Tool /\ t.claim \in ClaimId \cup {NoClaim}
    BY ToolFields DEF PostHook
  <2> HIDE DEF cursors, copy
  <2>4. cursors \in Tool /\ cursors.at = "unsave" /\ cursors.key = t.key
        /\ cursors.claim = t.claim /\ cursors.copy = copy
    BY <2>1, <2>2, <2>3, FieldsSet
  <2> QED
    BY <2>4 DEF copy
<1>2. /\ others \in Tool /\ others.at = "forget" /\ others.key = t.key
      /\ others.claim = t.claim /\ others.copy = t.copy
  BY ToolFields DEF Tool, PostHook
<1>3. Set(i, IF harness = "cursor" THEN cursors ELSE others)
  BY DEF Release, Released
<1> HIDE DEF cursors, others
<1>4. CASE harness = "cursor"
  <2>1. Others(i) /\ tool'[i] = cursors
    BY <1>1, <1>3, <1>4, SetOne
  <2> QED
    BY <1>1, <1>4, <2>1 DEF Release, Goes
<1>5. CASE harness # "cursor"
  <2>1. Others(i) /\ tool'[i] = others
    BY <1>2, <1>3, <1>5, SetOne
  <2> QED
    BY <1>2, <1>5, <2>1 DEF Release, Goes
<1> QED
  BY <1>4, <1>5

LEMMA KilledDoes ==
  ASSUME TypeOK, NEW i \in Tools, Killed(i)
  PROVE  /\ Others(i) /\ InHook(i)
         /\ \/ /\ tool[i].at \in PreHook /\ Goes(i, "running") /\ tool'[i].claim = NoClaim
               /\ \A k \in Tools : tool'[i].copy[k] = NoClaim
            \/ tool[i].at \in PostHook /\ Ends(i)
<1> DEFINE n == [IdleTool(i) EXCEPT !.key = tool[i].key, !.at = "running"]
<1>1. n \in Tool /\ n.at = "running" /\ n.key = tool[i].key /\ n.claim = NoClaim
      /\ n.copy = NoBook
  BY ToolFields DEF Tool, IdleTool
<1>2. CASE tool[i].at \in PreHook
  <2>1. Set(i, n)
    BY <1>2 DEF Killed
  <2>2. Others(i) /\ tool'[i] = n
    BY <1>1, <2>1, SetOne
  <2> QED
    BY <1>1, <1>2, <2>2, ToolFields DEF Killed, Goes
<1>3. CASE tool[i].at \notin PreHook
  <2>1. tool[i].at \in PostHook
    BY <1>3, ToolFields DEF Killed, InHook, Tool
  <2> QED
    BY <1>3, <2>1, ReturnDoes DEF Killed
<1> QED
  BY <1>2, <1>3

----------------------------------------------------------------------------
\* What becomes of the claims.

\* No claim comes into force.
NoneComes == /\ status' \in Seq({"held", "released"}) /\ Len(status') = Len(status)
             /\ Held' \subseteq Held /\ stray' \subseteq Held'
             /\ \A c \in ClaimId : Open(c)' => Open(c)

LEMMA NoneChanges ==
  ASSUME TypeOK, UNCHANGED status, stray \subseteq stray', stray' \subseteq Held
  PROVE  NoneComes /\ Held' = Held
BY DEF TypeOK, NoneComes, Held, Open

LEMMA ReleaseDoesClaims ==
  ASSUME TypeOK, NEW c \in ClaimId, ReleaseClaim(c)
  PROVE  NoneComes /\ Held \subseteq Held' \cup {c} /\ ~Open(c)'
<1>1. status \in Seq({"held", "released"}) /\ stray \subseteq Held
  BY DEF TypeOK
<1>2. CASE status' = [status EXCEPT ![c] = "released"] /\ stray' = stray \ {c}
  <2>1. /\ status' \in Seq({"held", "released"}) /\ Len(status') = Len(status)
        /\ DOMAIN status' = DOMAIN status
        /\ \A x \in DOMAIN status : status'[x] = IF x = c THEN "released" ELSE status[x]
    <3>1. /\ Len(status) \in Nat /\ DOMAIN status = 1..Len(status)
          /\ status \in [1..Len(status) -> {"held", "released"}]
      BY <1>1
    <3>2. /\ status' \in [1..Len(status) -> {"held", "released"}]
          /\ \A x \in DOMAIN status : status'[x] = IF x = c THEN "released" ELSE status[x]
      BY <1>2, <3>1
    <3> QED
      BY <3>1, <3>2
  <2>2. Held' = Held \ {c}
    BY <2>1 DEF Held
  <2> QED
    BY <1>1, <1>2, <2>1, <2>2 DEF NoneComes, Open
<1>3. CASE stray' = stray \cup ({c} \cap Held) /\ UNCHANGED status
  <2>1. NoneComes /\ Held' = Held
    BY <1>1, <1>3, NoneChanges
  <2> QED
    BY <1>3, <2>1 DEF Open
<1> QED
  BY <1>2, <1>3 DEF ReleaseClaim

LEMMA GrantDoesClaims ==
  ASSUME TypeOK, Len(status) < MaxClaims, status' = Append(status, "held"),
         stray' \subseteq stray \cup {Len(status) + 1}, stray \subseteq stray'
  PROVE  /\ status' \in Seq({"held", "released"}) /\ Len(status') = Len(status) + 1
         /\ Len(status') <= MaxClaims /\ Len(status) + 1 \in ClaimId
         /\ Held' = Held \cup {Len(status) + 1} /\ stray' \subseteq Held'
         /\ \A c \in ClaimId : Open(c)' => Open(c) \/ c = Len(status) + 1
<1>1. /\ status \in Seq({"held", "released"}) /\ stray \subseteq Held /\ MaxClaims \in Nat
      /\ Len(status) \in Nat /\ DOMAIN status = 1..Len(status)
  BY HookConstants DEF TypeOK
<1>2. /\ status' \in Seq({"held", "released"}) /\ Len(status') = Len(status) + 1
      /\ DOMAIN status' = 1..(Len(status) + 1) /\ status'[Len(status) + 1] = "held"
      /\ \A x \in 1..Len(status) : status'[x] = status[x]
  BY <1>1
<1>3. \A x : x \in DOMAIN status' <=> x \in DOMAIN status \/ x = Len(status) + 1
  BY <1>1, <1>2
<1>4. Held' = Held \cup {Len(status) + 1}
  BY <1>1, <1>2, <1>3 DEF Held
<1>5. Len(status) + 1 \in ClaimId /\ Len(status) + 1 <= MaxClaims
  BY <1>1 DEF ClaimId
<1>6. stray' \subseteq Held'
  BY <1>1, <1>4
<1>7. \A c \in ClaimId : Open(c)' => Open(c) \/ c = Len(status) + 1
  BY <1>4 DEF Open
<1> QED
  BY <1>2, <1>4, <1>5, <1>6, <1>7

----------------------------------------------------------------------------
\* The names of claims.

\* What one step names was named before it.
LEMMA NamesStay ==
  ASSUME NEW i \in Tools, Others(i),
         \A c \in ClaimId, k \in Tools : book'[k] = c => Mentions(c, k),
         \A c \in ClaimId, k \in Tools : tool'[i].copy[k] = c => Mentions(c, k),
         \A c \in ClaimId, k \in Tools : tool'[i].claim = c /\ tool'[i].key = k => Mentions(c, k)
  PROVE  \A c \in ClaimId, k \in Tools : Mentions(c, k)' => Mentions(c, k)
<1> SUFFICES ASSUME NEW c \in ClaimId, NEW k \in Tools, Mentions(c, k)' PROVE Mentions(c, k)
  OBVIOUS
<1>1. CASE book'[k] = c
  BY <1>1
<1>2. ASSUME NEW j \in Tools, Names(tool[j], c, k)' PROVE Mentions(c, k)
  <2>1. CASE j = i
    BY <1>2, <2>1 DEF Names
  <2>2. CASE j # i
    <3>1. Names(tool[j], c, k)
      BY <1>2, <2>2 DEF Names, Others
    <3> QED
      BY <3>1 DEF Mentions
  <2> QED
    BY <2>1, <2>2
<1> QED
  BY <1>1, <1>2 DEF Mentions

\* What is named in a copy or in the book is a mention.
LEMMA Mentioned ==
  ASSUME NEW i \in Tools, NEW c \in ClaimId, NEW k \in Tools
  PROVE  /\ book[k] = c => Mentions(c, k)
         /\ tool[i].copy[k] = c => Mentions(c, k)
         /\ tool[i].claim = c /\ tool[i].key = k => Mentions(c, k)
BY DEF Mentions, Names

\* The keys stay apart if nothing new is named.
LEMMA KeyedStays ==
  ASSUME Keyed, Len(status) \in Nat, Len(status') \in Nat, Len(status) <= Len(status'),
         \A c \in ClaimId, k \in Tools : Mentions(c, k)' => Mentions(c, k)
  PROVE  Keyed'
<1>1. Max \subseteq Max'
  BY DEF Max
<1> QED
  BY <1>1 DEF Keyed

\* Or if only the call that was granted a claim names it.
LEMMA KeyedGrows ==
  ASSUME Keyed, TypeOK, NEW i \in Tools, Others(i), UNCHANGED book,
         Len(status') = Len(status) + 1,
         tool'[i].claim \in {NoClaim, Len(status) + 1}, tool'[i].key = tool[i].key,
         \/ tool'[i].copy = tool[i].copy
         \/ tool'[i].copy = [tool[i].copy EXCEPT ![tool[i].key] = Len(status) + 1]
  PROVE  Keyed'
<1> DEFINE new == Len(status) + 1
<1>1. Len(status) \in Nat /\ new \notin Max /\ new \in Max' /\ Max \subseteq Max'
      /\ tool[i].copy \in Book /\ tool[i].key \in Tools
  BY ToolFields DEF TypeOK, Max
<1>2. \A k \in Tools : new \in ClaimId => ~Mentions(new, k)
  BY <1>1 DEF Keyed
<1>3. ASSUME NEW c \in ClaimId, NEW k \in Tools, Mentions(c, k)'
      PROVE  Mentions(c, k) \/ (c = new /\ k = tool[i].key)
  <2>1. CASE book'[k] = c
    BY <2>1 DEF Mentions
  <2>2. ASSUME NEW j \in Tools, Names(tool[j], c, k)', j # i PROVE Mentions(c, k)
    <3>1. Names(tool[j], c, k)
      BY <2>2 DEF Names, Others
    <3> QED
      BY <3>1 DEF Mentions
  <2>3. ASSUME tool'[i].copy[k] = c PROVE Mentions(c, k) \/ (c = new /\ k = tool[i].key)
    <3>1. tool[i].copy[k] = c \/ (c = new /\ k = tool[i].key)
      BY <1>1, <2>3 DEF Book
    <3> QED
      BY <3>1, Mentioned
  <2>4. ASSUME tool'[i].claim = c, tool'[i].key = k PROVE c = new /\ k = tool[i].key
    BY <2>4 DEF NoClaim, ClaimId
  <2> QED
    BY <1>3, <2>1, <2>2, <2>3, <2>4 DEF Mentions, Names
<1> HIDE DEF new
<1>4. ASSUME NEW c \in ClaimId, NEW k \in Tools, NEW l \in Tools, Mentions(c, k)', Mentions(c, l)'
      PROVE  c \in Max' /\ k = l
  <2>1. CASE c = new
    BY <1>1, <1>2, <1>3, <1>4, <2>1
  <2>2. CASE c # new
    BY <1>1, <1>3, <1>4, <2>2 DEF Keyed
  <2> QED
    BY <2>1, <2>2
<1> QED
  BY <1>4 DEF Keyed

----------------------------------------------------------------------------
\* The base of the invariant.

\* The history variables tell what happened.
LEMMA HistoryTold == Observe => History' /\ (shared => shared') /\ (ended => ended')
                                /\ (overlapped => overlapped')
BY DEF Observe, History

\* The types of what a step leaves, but for the calls.
Leaves ==
    /\ book' \in Book /\ file' \in {"ok", "torn"} /\ (file' = "torn" => harness = "cursor")
    /\ status' \in Seq({"held", "released"}) /\ Len(status) <= Len(status')
    /\ Len(status') <= MaxClaims /\ stray' \subseteq Held'
    /\ timers' \subseteq 1..Len(status') /\ (timers' # {} => harness = "sdk")
    /\ UNCHANGED <<harness, mode>>

LEMMA LeavesTypes ==
  ASSUME TypeOK, Leaves, Keyed', Observe, tool' \in [Tools -> Tool], ender' \in Ender
  PROVE  TypeOK'
<1>1. Recorded(book)' \subseteq DOMAIN status'
  <2> SUFFICES ASSUME NEW k \in Tools, book'[k] # NoClaim PROVE book'[k] \in DOMAIN status'
    BY DEF Recorded
  <2>1. book'[k] \in ClaimId
    BY DEF Leaves, Book
  <2>2. PICK c \in ClaimId : book'[k] = c
    BY <2>1
  <2>3. Mentions(c, k)'
    BY <2>2 DEF Mentions
  <2>4. c \in 1..Len(status')
    BY <2>3 DEF Keyed, Max
  <2> QED
    BY <2>2, <2>4 DEF Leaves
<1>2. /\ shared' \in BOOLEAN /\ ended' \in BOOLEAN /\ overlapped' \in BOOLEAN
      /\ late' \subseteq timers'
  BY DEF Observe
<1> QED
  BY <1>1, <1>2 DEF TypeOK, Leaves

\* A step of one call.
LEMMA ToolBase ==
  ASSUME Base, NEW i \in Tools, Others(i), Observe, Leaves, Keyed',
         ender' = ender \/ EnderForgets,
         \A t : t = tool'[i] => Place(t),
         \A c \in ClaimId : c \in Max /\ Open(c)' => Open(c),
         \A c \in ClaimId : tool'[i].at \in {"forget", "unsave", "unwrite"} /\ tool'[i].claim = c
                               => ~Open(c)'
  PROVE  Base'
<1>1. TypeOK'
  <2>1. ender' \in Ender
    BY EnderSees DEF Base
  <2> QED
    BY <2>1, LeavesTypes DEF Base, TypeOK, Others
<1>2. \A j \in Tools : Place(tool[j])'
  BY DEF Base, Others, Place, Leaves
<1>3. Through'
  <2> SUFFICES ASSUME NEW j \in Tools, NEW c \in ClaimId, tool'[j].claim = c,
                      tool'[j].at \in {"forget", "unsave", "unwrite"}
               PROVE  ~Open(c)'
    BY DEF Through
  <2>1. CASE j # i
    <3>1. tool[j].claim = c /\ ~Open(c) /\ tool[j].key \in Tools
      BY <2>1, ToolFields DEF Base, Through, Others
    <3>2. PICK k \in Tools : tool[j].key = k
      BY <3>1
    <3>3. c \in Max
      BY <3>1, <3>2, Mentioned DEF Base, Keyed
    <3> QED
      BY <3>1, <3>3
  <2> QED
    BY <2>1
<1> QED
  BY <1>1, <1>2, <1>3, HistoryTold DEF Base

\* The same, when no claim comes into force.
LEMMA QuietToolBase ==
  ASSUME Base, NEW i \in Tools, Others(i), Observe, NoneComes, UNCHANGED <<harness, mode>>,
         ender' = ender \/ EnderForgets,
         file' \in {"ok", "torn"}, file' = "torn" => harness = "cursor",
         book' \in Book, timers' \subseteq timers \cup {tool[i].claim},
         timers' \subseteq timers \/ (tool[i].claim # NoClaim /\ harness = "sdk"),
         \A c \in ClaimId, k \in Tools : book'[k] = c => Mentions(c, k),
         \A c \in ClaimId, k \in Tools : tool'[i].copy[k] = c => Mentions(c, k),
         \A c \in ClaimId, k \in Tools : tool'[i].claim = c /\ tool'[i].key = k => Mentions(c, k),
         \A t : t = tool'[i] => Place(t),
         \A c \in ClaimId : tool'[i].at \in {"forget", "unsave", "unwrite"} /\ tool'[i].claim = c
                               => ~Open(c)'
  PROVE  Base'
<1>1. /\ Len(status) \in Nat /\ timers \subseteq 1..Len(status) /\ Len(status) <= MaxClaims
      /\ (timers # {} => harness = "sdk") /\ tool[i].key \in Tools /\ Keyed
      /\ tool[i].claim \in ClaimId \cup {NoClaim} /\ Len(status') = Len(status)
  BY ToolFields DEF Base, TypeOK, NoneComes
<1>2. Keyed'
  BY <1>1, NamesStay, KeyedStays
<1>3. tool[i].claim # NoClaim => tool[i].claim \in 1..Len(status)
  <2> SUFFICES ASSUME NEW c \in ClaimId, NEW k \in Tools, tool[i].claim = c, tool[i].key = k
               PROVE  c \in 1..Len(status)
    BY <1>1
  <2> QED
    BY <1>1, Mentioned DEF Keyed, Max
<1>4. timers' \subseteq 1..Len(status') /\ (timers' # {} => harness = "sdk")
  BY <1>1, <1>3
<1>5. Leaves
  BY <1>1, <1>4 DEF NoneComes, Leaves
<1> QED
  BY <1>2, <1>5, ToolBase DEF NoneComes

\* Nothing else is touched by a step of the call alone.
Alone == UNCHANGED <<harness, mode, book, file, timers, status, stray, ender>>

LEMMA AloneQuiet ==
  ASSUME TypeOK, Alone
  PROVE  /\ NoneComes /\ Held' = Held /\ UNCHANGED <<harness, mode, ender, book, timers, file>>
         /\ file' \in {"ok", "torn"} /\ (file' = "torn" => harness = "cursor")
         /\ book' \in Book /\ \A c : Open(c)' <=> Open(c)
<1>1. NoneComes /\ Held' = Held
  BY NoneChanges DEF TypeOK, Alone
<1> QED
  BY <1>1 DEF TypeOK, Alone, Open

\* A step of the call alone that names what was named.
LEMMA AloneBase ==
  ASSUME Base, NEW i \in Tools, Others(i), Observe, Alone,
         \A c \in ClaimId, k \in Tools : tool'[i].copy[k] = c => Mentions(c, k),
         \A c \in ClaimId, k \in Tools : tool'[i].claim = c /\ tool'[i].key = k => Mentions(c, k),
         \A t : t = tool'[i] => Place(t),
         \A c \in ClaimId : tool'[i].at \in {"forget", "unsave", "unwrite"} /\ tool'[i].claim = c
                               => ~Open(c)
  PROVE  Base'
<1>1. \A c \in ClaimId, k \in Tools : book'[k] = c => Mentions(c, k)
  BY DEF Mentions, Alone
<1> QED
  BY <1>1, AloneQuiet, QuietToolBase DEF Base

LEMMA EndsNames ==
  ASSUME NEW i \in Tools, Ends(i)
  PROVE  /\ \A c \in ClaimId, k \in Tools : ~(tool'[i].copy[k] = c)
         /\ \A c \in ClaimId : ~(tool'[i].claim = c)
         /\ \A t : t = tool'[i] => Place(t)
         /\ tool'[i].at \notin {"forget", "unsave", "unwrite"}
BY DEF Ends, Place, ClaimId, NoClaim, PostHook

LEMMA BaseBegin ==
  ASSUME Base, Observe, NEW i \in Tools, NEW key \in Tools,
         PreToolUse(i, key) \/ CursorPreToolUse(i, key)
  PROVE  Base'
<1>1. Alone
  BY DEF PreToolUse, CursorPreToolUse, Alone
<1>2. /\ Others(i) /\ tool'[i].claim = NoClaim
      /\ \/ harness # "cursor" /\ tool'[i].at = "mail"
         \/ tool'[i].at \in {"claim", "running"}
      /\ tool'[i].copy = book \/ \A k \in Tools : tool'[i].copy[k] = NoClaim
  BY BeginDoes DEF Base
<1>3. \A c \in ClaimId, k \in Tools : tool'[i].copy[k] = c => Mentions(c, k)
  BY <1>2, Mentioned DEF ClaimId, NoClaim
<1>4. \A t : t = tool'[i] => Place(t)
  BY <1>2 DEF Place, PostHook
<1> QED
  BY <1>1, <1>2, <1>3, <1>4, AloneBase DEF ClaimId, NoClaim

LEMMA BaseMailbox ==
  ASSUME Base, Observe, NEW i \in Tools, CheckCriticalMailbox(i)
  PROVE  Base'
<1>1. Alone
  BY DEF CheckCriticalMailbox, Alone
<1>2. CASE Return(i)
  BY <1>1, <1>2, ReturnDoes, EndsNames, AloneBase DEF Base
<1>3. CASE Step(i, "claim")
  <2>1. Others(i) /\ Goes(i, "claim") /\ Keeps(i)
    BY <1>3, StepDoes DEF PreHook, Base
  <2>2. tool[i].claim = NoClaim
    BY DEF CheckCriticalMailbox, Base, Place
  <2>3. \A t : t = tool'[i] => Place(t)
    BY <2>1, <2>2 DEF Place, Goes, Keeps, PostHook
  <2> QED
    BY <1>1, <2>1, <2>2, <2>3, AloneBase, Mentioned DEF Goes, Keeps
<1> QED
  BY <1>2, <1>3 DEF CheckCriticalMailbox

LEMMA BaseTruncate ==
  ASSUME Base, Observe, NEW i \in Tools, Truncate(i)
  PROVE  Base'
<1>1. /\ Others(i) /\ Keeps(i)
      /\ \/ tool[i].at = "save" /\ Goes(i, "write")
         \/ tool[i].at = "unsave" /\ Goes(i, "unwrite")
  BY TruncateDoes DEF Base
<1>2. NoneComes /\ Held' = Held /\ \A c : Open(c)' <=> Open(c)
  <2>1. NoneComes /\ Held' = Held
    BY NoneChanges DEF Base, TypeOK, Truncate
  <2> QED
    BY <2>1 DEF Truncate, Open
<1>3. harness = "cursor" /\ tool[i].claim # NoClaim
  BY <1>1 DEF Base, Place, PostHook
<1>4. \A t : t = tool'[i] => Place(t)
  BY <1>1, <1>3 DEF Place, Goes, Keeps, PostHook
<1>5. \A c \in ClaimId : tool'[i].at \in {"forget", "unsave", "unwrite"} /\ tool'[i].claim = c
         => ~Open(c)'
  <2> SUFFICES ASSUME NEW c \in ClaimId, tool'[i].at \in {"forget", "unsave", "unwrite"},
                      tool'[i].claim = c
               PROVE  ~Open(c)
    BY <1>2
  <2> QED
    BY <1>1 DEF Base, Through, Goes, Keeps
<1>6. /\ \A c \in ClaimId, k \in Tools : book'[k] = c => Mentions(c, k)
      /\ \A c \in ClaimId, k \in Tools : tool'[i].copy[k] = c => Mentions(c, k)
      /\ \A c \in ClaimId, k \in Tools : tool'[i].claim = c /\ tool'[i].key = k
            => Mentions(c, k)
  BY <1>1, Mentioned DEF Goes, Keeps, Truncate
<1>7. UNCHANGED <<harness, mode, ender, timers, book>> /\ file' = "torn" /\ book \in Book
  BY DEF Truncate, Base, TypeOK
<1> QED
  BY <1>1, <1>2, <1>3, <1>4, <1>5, <1>6, <1>7, QuietToolBase

LEMMA BaseSave ==
  ASSUME Base, Observe, NEW i \in Tools, SaveCursorState(i)
  PROVE  Base'
<1>1. /\ Others(i)
      /\ \/ /\ tool[i].at = "write" /\ Goes(i, "running")
            /\ tool'[i].claim = tool[i].claim
            /\ \A k \in Tools : tool'[i].copy[k] = NoClaim
         \/ tool[i].at = "unwrite" /\ Ends(i)
  BY SaveDoes DEF Base
<1>2. NoneComes
  BY NoneChanges DEF Base, TypeOK, SaveCursorState
<1>3. harness = "cursor"
  BY <1>1 DEF Base, Place
<1>4. UNCHANGED <<harness, mode, ender, timers>> /\ file' \in {"ok", "torn"} /\ book' \in Book
      /\ book' = tool[i].copy
  BY ToolFields DEF SaveCursorState, Base
<1>5. \A c \in ClaimId, k \in Tools : book'[k] = c => Mentions(c, k)
  BY <1>4, Mentioned
<1>6. CASE tool[i].at = "unwrite"
  <2>1. Ends(i)
    BY <1>1, <1>6
  <2> QED
    BY <1>1, <1>2, <1>3, <1>4, <1>5, <2>1, EndsNames, QuietToolBase
<1>7. CASE tool[i].at = "write"
  <2>1. /\ tool'[i].at = "running" /\ tool'[i].key = tool[i].key
        /\ tool'[i].claim = tool[i].claim /\ \A k \in Tools : tool'[i].copy[k] = NoClaim
    BY <1>1, <1>7 DEF Goes
  <2>2. \A t : t = tool'[i] => Place(t)
    BY <2>1 DEF Place, PostHook
  <2>3. /\ \A c \in ClaimId, k \in Tools : tool'[i].copy[k] = c => Mentions(c, k)
        /\ \A c \in ClaimId, k \in Tools : tool'[i].claim = c /\ tool'[i].key = k
              => Mentions(c, k)
    BY <2>1, Mentioned DEF ClaimId, NoClaim
  <2> QED
    BY <1>1, <1>2, <1>3, <1>4, <1>5, <2>1, <2>2, <2>3, QuietToolBase
<1> QED
  BY <1>1, <1>6, <1>7

LEMMA BaseClaim ==
  ASSUME Base, Observe, NEW i \in Tools, Claim(i)
  PROVE  Base'
<1>1. /\ Others(i) /\ tool[i].at = "claim"
      /\ \/ /\ Len(status) < MaxClaims /\ status' = Append(status, "held")
            /\ \/ Granted(i)
               \/ /\ stray' = stray \cup {Len(status) + 1}
                  /\ Goes(i, "running") /\ Keeps(i)
         \/ UNCHANGED <<status, stray>> /\ Goes(i, "running") /\ Keeps(i)
         \/ UNCHANGED <<status, stray>> /\ Ends(i)
  BY ClaimDoes DEF Base
<1>2. UNCHANGED <<harness, mode, book, file, timers, ender>> /\ tool[i].claim = NoClaim
  BY <1>1 DEF Claim, Base, Place
<1>3. CASE UNCHANGED <<status, stray>>
  <2>1. Alone
    BY <1>2, <1>3 DEF Alone
  <2>2. CASE Ends(i)
    BY <1>1, <2>1, <2>2, EndsNames, AloneBase
  <2>3. CASE Goes(i, "running") /\ Keeps(i)
    <3>1. \A t : t = tool'[i] => Place(t)
      BY <2>3, <1>2 DEF Place, Goes, Keeps, PostHook
    <3> QED
      BY <1>1, <1>2, <2>1, <2>3, <3>1, AloneBase, Mentioned DEF Goes, Keeps
  <2>4. Ends(i) \/ (Goes(i, "running") /\ Keeps(i))
    <3>1. status # Append(status, "held")
      <4>1. Len(status) \in Nat /\ Len(Append(status, "held")) = Len(status) + 1
        BY DEF Base, TypeOK
      <4> QED
        BY <4>1
    <3> QED
      BY <1>1, <1>3, <3>1
  <2> QED
    BY <2>2, <2>3, <2>4
<1>4. CASE /\ Len(status) < MaxClaims /\ status' = Append(status, "held")
           /\ \/ Granted(i)
              \/ /\ stray' = stray \cup {Len(status) + 1}
                 /\ Goes(i, "running") /\ Keeps(i)
  <2>1. stray \subseteq stray' /\ stray' \subseteq stray \cup {Len(status) + 1}
    BY <1>4 DEF Granted
  <2>2. /\ status' \in Seq({"held", "released"}) /\ Len(status') = Len(status) + 1
        /\ Len(status') <= MaxClaims /\ Len(status) + 1 \in ClaimId
        /\ Held' = Held \cup {Len(status) + 1} /\ stray' \subseteq Held'
        /\ \A c \in ClaimId : Open(c)' => Open(c) \/ c = Len(status) + 1
    BY <1>4, <2>1, GrantDoesClaims DEF Base
  <2>3. /\ tool'[i].claim \in {NoClaim, Len(status) + 1} /\ tool'[i].key = tool[i].key
        /\ \/ tool'[i].copy = tool[i].copy
           \/ tool'[i].copy = [tool[i].copy EXCEPT ![tool[i].key] = Len(status) + 1]
        /\ \/ tool'[i].at = "running" /\ tool'[i].claim = NoClaim
           \/ tool'[i].at = "answer" /\ tool'[i].claim = Len(status) + 1 /\ harness # "cursor"
           \/ tool'[i].at = "save" /\ tool'[i].claim = Len(status) + 1 /\ harness = "cursor"
    BY <1>2, <1>4 DEF Granted, Goes, Keeps
  <2>4. Keyed'
    BY <1>1, <1>2, <2>2, <2>3, KeyedGrows DEF Base
  <2>5. Len(status) \in Nat /\ timers \subseteq 1..Len(status) /\ (timers # {} => harness = "sdk")
        /\ book \in Book /\ file \in {"ok", "torn"} /\ (file = "torn" => harness = "cursor")
    BY DEF Base, TypeOK
  <2>6. Leaves
    BY <1>2, <2>2, <2>5 DEF Leaves
  <2>7. \A t : t = tool'[i] => Place(t)
    BY <1>2, <2>2, <2>3 DEF Place, PostHook, ClaimId, NoClaim
  <2>8. \A c \in ClaimId : c \in Max /\ Open(c)' => Open(c)
    BY <2>2, <2>5 DEF Max
  <2> QED
    BY <1>1, <1>2, <2>3, <2>4, <2>6, <2>7, <2>8, ToolBase
<1> QED
  BY <1>1, <1>3, <1>4

LEMMA BaseAnswered ==
  ASSUME Base, Observe, NEW i \in Tools, ClaimAnswered(i)
  PROVE  Base'
<1>1. Others(i) /\ Goes(i, "running") /\ Keeps(i)
  BY ClaimAnsweredDoes DEF Base
<1>2. tool[i].claim # NoClaim /\ tool[i].claim \in ClaimId /\ tool[i].key \in Tools
      /\ book \in Book
  BY ToolFields DEF ClaimAnswered, Base, Place
<1>3. NoneComes
  BY NoneChanges DEF Base, TypeOK, ClaimAnswered
<1>4. /\ UNCHANGED <<harness, mode, ender, file>>
      /\ file \in {"ok", "torn"} /\ (file = "torn" => harness = "cursor")
      /\ book' = [book EXCEPT ![tool[i].key] = tool[i].claim]
      /\ timers' = IF harness = "sdk" THEN timers \cup {tool[i].claim} ELSE timers
  BY DEF ClaimAnswered, Base, TypeOK
<1>5. book' \in Book
  BY <1>2, <1>4 DEF Book
<1>6. \A c \in ClaimId, k \in Tools : book'[k] = c => Mentions(c, k)
  <2> SUFFICES ASSUME NEW c \in ClaimId, NEW k \in Tools, book'[k] = c PROVE Mentions(c, k)
    OBVIOUS
  <2>1. book[k] = c \/ (k = tool[i].key /\ c = tool[i].claim)
    BY <1>2, <1>4 DEF Book
  <2> QED
    BY <2>1, Mentioned
<1>7. \A t : t = tool'[i] => Place(t)
  BY <1>1 DEF Place, Goes, PostHook
<1>8. /\ \A c \in ClaimId, k \in Tools : tool'[i].copy[k] = c => Mentions(c, k)
      /\ \A c \in ClaimId, k \in Tools : tool'[i].claim = c /\ tool'[i].key = k
            => Mentions(c, k)
  BY <1>1, Mentioned DEF Goes, Keeps
<1>9. tool'[i].at \notin {"forget", "unsave", "unwrite"}
  BY <1>1 DEF Goes
<1>10. timers' \subseteq timers \cup {tool[i].claim}
       /\ (timers' \subseteq timers \/ (tool[i].claim # NoClaim /\ harness = "sdk"))
  BY <1>2, <1>4
<1> QED
  BY <1>1, <1>3, <1>4, <1>5, <1>6, <1>7, <1>8, <1>9, <1>10, QuietToolBase

LEMMA BasePost ==
  ASSUME Base, Observe, NEW i \in Tools, PostToolUse(i) \/ CursorPostToolUse(i)
  PROVE  Base'
<1>1. /\ Others(i) /\ tool[i].at = "running"
      /\ \/ Ends(i)
         \/ /\ book[tool[i].key] # NoClaim /\ Goes(i, "release")
            /\ tool'[i].claim = book[tool[i].key]
            /\ tool'[i].copy = book \/ \A k \in Tools : tool'[i].copy[k] = NoClaim
  BY PostDoes DEF Base
<1>2. /\ UNCHANGED <<harness, mode, book, file, status, stray, ender>>
      /\ timers' \subseteq timers
      /\ file \in {"ok", "torn"} /\ (file = "torn" => harness = "cursor") /\ book \in Book
  BY DEF PostToolUse, CursorPostToolUse, Base, TypeOK
<1>3. NoneComes
  BY <1>2, NoneChanges DEF Base, TypeOK
<1>4. \A c \in ClaimId, k \in Tools : book'[k] = c => Mentions(c, k)
  BY <1>2, Mentioned
<1>5. CASE Ends(i)
  BY <1>1, <1>2, <1>3, <1>4, <1>5, EndsNames, QuietToolBase
<1>6. CASE /\ book[tool[i].key] # NoClaim /\ Goes(i, "release")
           /\ tool'[i].claim = book[tool[i].key]
           /\ tool'[i].copy = book \/ \A k \in Tools : tool'[i].copy[k] = NoClaim
  <2>1. \A t : t = tool'[i] => Place(t)
    BY <1>6 DEF Place, Goes, PostHook
  <2>2. /\ \A c \in ClaimId, k \in Tools : tool'[i].copy[k] = c => Mentions(c, k)
        /\ \A c \in ClaimId, k \in Tools : tool'[i].claim = c /\ tool'[i].key = k
              => Mentions(c, k)
    BY <1>6, Mentioned DEF Goes, ClaimId, NoClaim
  <2>3. tool'[i].at \notin {"forget", "unsave", "unwrite"}
    BY <1>6 DEF Goes
  <2> QED
    BY <1>1, <1>2, <1>3, <1>4, <2>1, <2>2, <2>3, QuietToolBase
<1> QED
  BY <1>1, <1>5, <1>6

LEMMA BaseRelease ==
  ASSUME Base, Observe, NEW i \in Tools, Release(i)
  PROVE  Base'
<1>1. /\ Others(i) /\ tool[i].at = "release" /\ tool'[i].claim = tool[i].claim
      /\ \/ harness = "cursor" /\ Goes(i, "unsave")
            /\ tool'[i].copy = [tool[i].copy EXCEPT ![tool[i].key] = NoClaim]
         \/ harness # "cursor" /\ Goes(i, "forget") /\ tool'[i].copy = tool[i].copy
  BY ReleaseDoes DEF Base
<1>2. /\ UNCHANGED <<harness, mode, book, file, timers, ender>>
      /\ file \in {"ok", "torn"} /\ (file = "torn" => harness = "cursor") /\ book \in Book
      /\ tool[i].claim # NoClaim /\ tool[i].claim \in ClaimId /\ tool[i].copy \in Book
      /\ ReleaseClaim(tool[i].claim)
  BY <1>1, ToolFields DEF Release, Base, TypeOK, Place, PostHook
<1>3. PICK c \in ClaimId : c = tool[i].claim
  BY <1>2
<1>4. NoneComes /\ ~Open(c)'
  BY <1>2, <1>3, ReleaseDoesClaims DEF Base
<1>5. \A x \in ClaimId, k \in Tools : book'[k] = x => Mentions(x, k)
  BY <1>2, Mentioned
<1>6. \A t : t = tool'[i] => Place(t)
  BY <1>1, <1>2 DEF Place, Goes, PostHook
<1>7. \A x \in ClaimId, k \in Tools : tool'[i].copy[k] = x => Mentions(x, k)
  <2> SUFFICES ASSUME NEW x \in ClaimId, NEW k \in Tools, tool'[i].copy[k] = x PROVE Mentions(x, k)
    OBVIOUS
  <2>1. tool[i].copy[k] = x
    BY <1>1, <1>2 DEF Book, ClaimId, NoClaim
  <2> QED
    BY <2>1, Mentioned
<1>8. \A x \in ClaimId, k \in Tools : tool'[i].claim = x /\ tool'[i].key = k => Mentions(x, k)
  BY <1>1, Mentioned DEF Goes
<1>9. \A x \in ClaimId : tool'[i].at \in {"forget", "unsave", "unwrite"} /\ tool'[i].claim = x
         => ~Open(x)'
  BY <1>1, <1>3, <1>4
<1> QED
  BY <1>1, <1>2, <1>4, <1>5, <1>6, <1>7, <1>8, <1>9, QuietToolBase

LEMMA BaseForget ==
  ASSUME Base, Observe, NEW i \in Tools, Forget(i)
  PROVE  Base'
<1>1. Others(i) /\ Ends(i)
  BY ReturnDoes DEF Forget, Base
<1>2. /\ UNCHANGED <<harness, mode, file, timers, status, stray>>
      /\ file \in {"ok", "torn"} /\ (file = "torn" => harness = "cursor") /\ book \in Book
      /\ book' = [book EXCEPT ![tool[i].key] = NoClaim] /\ tool[i].key \in Tools
  BY ToolFields DEF Forget, Base, TypeOK
<1>3. NoneComes
  BY <1>2, NoneChanges DEF Base, TypeOK
<1>4. book' \in Book /\ \A c \in ClaimId, k \in Tools : book'[k] = c => Mentions(c, k)
  BY <1>2, Mentioned DEF Book, ClaimId, NoClaim
<1>5. EnderForgets
  BY <1>2 DEF Forget, EnderForgets
<1> QED
  BY <1>1, <1>2, <1>3, <1>4, <1>5, EndsNames, QuietToolBase

LEMMA BaseKilled ==
  ASSUME Base, Observe, NEW i \in Tools, Killed(i)
  PROVE  Base'
<1>1. /\ Others(i)
      /\ \/ /\ tool'[i].at = "running" /\ tool'[i].claim = NoClaim
            /\ \A k \in Tools : tool'[i].copy[k] = NoClaim
         \/ Ends(i)
  BY KilledDoes DEF Base, Goes
<1>2. /\ UNCHANGED <<harness, mode, book, file, timers, status, ender>>
      /\ file \in {"ok", "torn"} /\ (file = "torn" => harness = "cursor") /\ book \in Book
      /\ stray \subseteq stray' /\ stray' \subseteq Held
  BY DEF Killed, Base, TypeOK
<1>3. NoneComes
  BY <1>2, NoneChanges DEF Base
<1>4. \A c \in ClaimId, k \in Tools : book'[k] = c => Mentions(c, k)
  BY <1>2, Mentioned
<1>5. CASE Ends(i)
  BY <1>1, <1>2, <1>3, <1>4, <1>5, EndsNames, QuietToolBase
<1>6. CASE /\ tool'[i].at = "running" /\ tool'[i].claim = NoClaim
           /\ \A k \in Tools : tool'[i].copy[k] = NoClaim
  <2>1. \A t : t = tool'[i] => Place(t)
    BY <1>6 DEF Place, PostHook
  <2>2. /\ \A c \in ClaimId, k \in Tools : ~(tool'[i].copy[k] = c)
        /\ \A c \in ClaimId : ~(tool'[i].claim = c)
        /\ tool'[i].at \notin {"forget", "unsave", "unwrite"}
    BY <1>6 DEF ClaimId, NoClaim
  <2> QED
    BY <1>1, <1>2, <1>3, <1>4, <2>1, <2>2, QuietToolBase
<1> QED
  BY <1>1, <1>5, <1>6

LEMMA BaseTool ==
  ASSUME Base, Observe, NEW i \in Tools, ToolStep(i)
  PROVE  Base'
BY BaseBegin, BaseMailbox, BaseClaim, BaseAnswered, BaseTruncate, BaseSave, BasePost,
   BaseRelease, BaseForget, BaseKilled DEF ToolStep

\* Steps of the session-end hook that leave the calls alone.
LEMMA BaseEnd ==
  ASSUME Base, Observe, UNCHANGED <<harness, mode, book, file, tool>>, NoneComes,
         timers' \subseteq timers, ender' \in Ender
  PROVE  Base'
<1>1. \A c \in ClaimId, k \in Tools : Mentions(c, k)' <=> Mentions(c, k)
  BY DEF Mentions, Names
<1>2. Len(status) \in Nat /\ Len(status') = Len(status) /\ Max' = Max
  BY DEF Base, TypeOK, NoneComes, Max
<1>3. Keyed'
  BY <1>1, <1>2 DEF Base, Keyed
<1>4. Leaves
  BY <1>2 DEF Base, TypeOK, NoneComes, Leaves
<1>5. TypeOK'
  BY <1>3, <1>4, LeavesTypes DEF Base, TypeOK
<1>6. \A i \in Tools : Place(tool[i])'
  BY DEF Base, Place
<1>7. Through'
  BY DEF Base, Through, NoneComes
<1> QED
  BY <1>3, <1>5, <1>6, <1>7, HistoryTold DEF Base

LEMMA BaseEndBegin ==
  ASSUME Base, Observe, EndBegin
  PROVE  Base'
<1>1. UNCHANGED <<harness, mode, book, file, tool, status, stray>> /\ timers' = {}
  BY DEF EndBegin
<1>2. NoneComes
  BY <1>1, NoneChanges DEF Base, TypeOK
<1>3. Recorded(book) \subseteq ClaimId
  BY DEF Base, TypeOK, Recorded, Book
<1>4. (IF harness = "cursor" THEN book ELSE NoBook) \in Book
  BY DEF Base, TypeOK, NoBook, Book
<1>5. ender' \in Ender
  BY <1>3, <1>4 DEF EndBegin, Ender
<1> QED
  BY <1>1, <1>2, <1>5, BaseEnd

LEMMA BaseEndKilled ==
  ASSUME Base, Observe, EndKilled
  PROVE  Base'
<1>1. UNCHANGED <<harness, mode, book, file, tool, status, stray, timers>>
  BY DEF EndKilled
<1>2. NoneComes
  BY <1>1, NoneChanges DEF Base, TypeOK
<1>3. ender' \in Ender
  BY DEF EndKilled, IdleEnder, Ender, NoBook, Book
<1> QED
  BY <1>1, <1>2, <1>3, BaseEnd

LEMMA BaseEndRelease ==
  ASSUME Base, Observe, NEW k \in Tools, EndRelease(k)
  PROVE  Base'
<1>1. UNCHANGED <<harness, mode, book, file, tool, timers>> /\ ReleaseClaim(EndBook[k])
      /\ EndBook[k] # NoClaim
  BY DEF EndRelease
<1>2. EndBook \in Book /\ ender \in Ender
  BY DEF EndBook, Base, TypeOK, Ender
<1>3. PICK c \in ClaimId : c = EndBook[k]
  BY <1>1, <1>2 DEF Book
<1>4. NoneComes
  BY <1>1, <1>3, ReleaseDoesClaims DEF Base
<1>5. ender' \in Ender
  BY <1>2 DEF EndRelease, Ender
<1> QED
  BY <1>1, <1>4, <1>5, BaseEnd

\* Removing the state file lets the writers of it go on.
LEMMA EndFinishDoes ==
  ASSUME Base, EndFinish
  PROVE  /\ tool' \in [Tools -> Tool] /\ ender' \in Ender /\ ender'.at = "idle"
         /\ \A k \in Tools : book'[k] = NoClaim
         /\ \A i \in Tools : \/ /\ tool[i].at = "write" /\ Goes(i, "running")
                                /\ tool'[i].claim = tool[i].claim
                                /\ \A k \in Tools : tool'[i].copy[k] = NoClaim
                             \/ tool[i].at = "unwrite" /\ Ends(i)
                             \/ ~Writing(i) /\ tool'[i] = tool[i]
<1>1. ASSUME NEW i \in Tools
      PROVE  /\ AfterRemove(i) \in Tool
             /\ \/ /\ tool[i].at = "write" /\ AfterRemove(i).at = "running"
                   /\ AfterRemove(i).key = tool[i].key
                   /\ AfterRemove(i).claim = tool[i].claim /\ AfterRemove(i).copy = NoBook
                \/ tool[i].at = "unwrite" /\ AfterRemove(i) = IdleTool(i)
                \/ ~Writing(i) /\ AfterRemove(i) = tool[i]
  <2> DEFINE n == [tool[i] EXCEPT !.at = "running", !.copy = NoBook]
  <2>1. NoBook \in Book /\ IdleTool(i) \in Tool /\ tool[i] \in Tool
    BY ToolFields DEF Base
  <2>2. n \in Tool /\ n.at = "running" /\ n.key = tool[i].key /\ n.claim = tool[i].claim
        /\ n.copy = NoBook
    BY Written DEF Base
  <2> HIDE DEF n
  <2>3. AfterRemove(i) = IF tool[i].at = "write" THEN n
                         ELSE IF tool[i].at = "unwrite" THEN IdleTool(i) ELSE tool[i]
    BY DEF AfterRemove, n
  <2> QED
    BY <2>1, <2>2, <2>3 DEF Writing
<1>2. tool' = [i \in Tools |-> AfterRemove(i)] /\ ender' = IdleEnder /\ book' = NoBook
  BY DEF EndFinish
<1>3. /\ \A k \in Tools : NoBook[k] = NoClaim
      /\ \A i \in Tools : IdleTool(i).at = "idle" /\ IdleTool(i).claim = NoClaim
                            /\ IdleTool(i).copy = NoBook
  BY DEF NoBook, IdleTool
<1>4. NoBook \in Book /\ IdleEnder \in Ender /\ IdleEnder.at = "idle"
  BY DEF NoBook, Book, IdleEnder, Ender
<1>5. \A i \in Tools : tool'[i] = AfterRemove(i)
  BY <1>2
<1>6. tool' \in [Tools -> Tool]
  BY <1>1, <1>2
<1> QED
  BY <1>1, <1>2, <1>3, <1>4, <1>5, <1>6 DEF Goes, Ends

LEMMA BaseEndFinish ==
  ASSUME Base, Observe, EndFinish
  PROVE  Base'
<1>1. UNCHANGED <<harness, mode, timers, status, stray>> /\ file' = "ok" /\ book' = NoBook
  BY DEF EndFinish
<1>2. NoneComes /\ Held' = Held
  BY <1>1, NoneChanges DEF Base, TypeOK
<1>3. \A c \in ClaimId, k \in Tools : Mentions(c, k)' => Mentions(c, k)
  <2> SUFFICES ASSUME NEW c \in ClaimId, NEW k \in Tools, Mentions(c, k)' PROVE Mentions(c, k)
    OBVIOUS
  <2>1. ~(book'[k] = c)
    BY EndFinishDoes DEF ClaimId, NoClaim
  <2>2. PICK i \in Tools : tool'[i].copy[k] = c \/ (tool'[i].claim = c /\ tool'[i].key = k)
    BY <2>1 DEF Mentions, Names
  <2>3. tool[i].copy[k] = c \/ (tool[i].claim = c /\ tool[i].key = k)
    BY <2>2, EndFinishDoes DEF Goes, Ends, ClaimId, NoClaim
  <2> QED
    BY <2>3, Mentioned
<1>4. Len(status) \in Nat /\ Len(status') = Len(status)
  BY <1>1 DEF Base, TypeOK
<1>5. Keyed'
  BY <1>3, <1>4, KeyedStays DEF Base
<1>6. NoBook \in Book /\ Len(status) <= MaxClaims
      /\ timers \subseteq 1..Len(status) /\ (timers # {} => harness = "sdk")
  BY DEF NoBook, Book, Base, TypeOK
<1>7. Leaves
  BY <1>1, <1>2, <1>4, <1>6 DEF NoneComes, Leaves
<1>8. TypeOK'
  BY <1>5, <1>7, EndFinishDoes, LeavesTypes DEF Base
<1>9. \A i \in Tools : Place(tool[i])'
  BY <1>1, EndFinishDoes DEF Base, Place, Goes, Ends, PostHook
<1>10. Through'
  <2> SUFFICES ASSUME NEW j \in Tools, NEW c \in ClaimId, tool'[j].claim = c,
                      tool'[j].at \in {"forget", "unsave", "unwrite"}
               PROVE  ~Open(c)'
    BY DEF Through
  <2>1. tool'[j] = tool[j]
    BY EndFinishDoes DEF Goes, Ends
  <2> QED
    BY <1>2, <2>1 DEF Base, Through, NoneComes
<1> QED
  BY <1>5, <1>8, <1>9, <1>10, HistoryTold DEF Base

LEMMA BaseStep == Base /\ [Next]_vars => Base'
<1> SUFFICES ASSUME Base, [Next]_vars PROVE Base'
  OBVIOUS
<1>1. CASE Next
  <2>1. Observe
    BY <1>1 DEF Next
  <2> QED
    BY <1>1, <2>1, BaseTool, BaseEndBegin, BaseEndRelease, BaseEndFinish,
       BaseEndKilled DEF Next, EndStep
<1>2. CASE UNCHANGED vars
  <2>1. TypeOK'
    BY <1>2 DEF vars, Base, TypeOK, Held, Recorded
  <2>2. History'
    BY <1>2 DEF vars, Base, History, Sharing, Ending, Overlapping, Alive, InHook, Writing
  <2>3. Keyed'
    BY <1>2 DEF vars, Base, Keyed, Mentions, Names, Max
  <2>4. (\A i \in Tools : Place(tool[i]))' /\ Through'
    BY <1>2 DEF vars, Base, Place, Through, Open, Held
  <2> QED
    BY <2>1, <2>2, <2>3, <2>4 DEF Base
<1> QED
  BY <1>1, <1>2

\* At first nothing is named.
LEMMA AtFirst ==
  ASSUME Init
  PROVE  /\ \A i \in Tools : /\ tool[i].at = "idle" /\ tool[i].claim = NoClaim /\ tool[i] \in Tool
                             /\ \A k \in Tools : tool[i].copy[k] = NoClaim
         /\ \A k \in Tools : book[k] = NoClaim
         /\ book \in Book /\ ender \in Ender /\ ender.at = "idle" /\ tool \in [Tools -> Tool]
         /\ Held = {}
<1>1. \A i \in Tools : IdleTool(i) \in Tool /\ IdleTool(i).at = "idle"
                         /\ IdleTool(i).claim = NoClaim /\ IdleTool(i).copy = NoBook
  BY DEF IdleTool, Tool, NoBook, Book
<1>2. NoBook \in Book /\ IdleEnder \in Ender /\ IdleEnder.at = "idle"
      /\ \A k \in Tools : NoBook[k] = NoClaim
  BY DEF NoBook, Book, IdleEnder, Ender
<1>3. Held = {}
  BY DEF Init, Held
<1> QED
  BY <1>1, <1>2, <1>3 DEF Init

LEMMA InitBase == Init => Base
<1> SUFFICES ASSUME Init PROVE Base
  OBVIOUS
<1>1. TypeOK
  <2>1. Recorded(book) = {}
    BY AtFirst DEF Recorded
  <2>2. status = <<>> /\ timers = {} /\ stray = {} /\ file = "ok" /\ MaxClaims \in Nat
    BY HookConstants DEF Init
  <2>3. status \in Seq({"held", "released"}) /\ Len(status) = 0 /\ Len(status) <= MaxClaims
    BY <2>2
  <2> QED
    BY AtFirst, <2>1, <2>2, <2>3 DEF Init, TypeOK
<1>2. History
  BY AtFirst DEF Init, History, Sharing, Ending, Overlapping, Alive, InHook
<1>3. Keyed
  BY AtFirst DEF Keyed, Mentions, Names, ClaimId, NoClaim
<1>4. (\A i \in Tools : Place(tool[i])) /\ Through
  BY AtFirst DEF Place, Through, PostHook
<1> QED
  BY <1>1, <1>2, <1>3, <1>4 DEF Base

----------------------------------------------------------------------------
\* A claim is in force until the hook after its tool.

Using == {"answer", "save", "write", "running"}

LEMMA CoveredTool ==
  ASSUME Covered, NEW i \in Tools, Others(i), Observe,
         \A j \in Tools \ {i}, c \in ClaimId :
             c \in Held /\ tool[j].at \in Using /\ tool[j].claim = c /\ ~shared => c \in Held',
         \A c \in ClaimId : tool'[i].at \in Using /\ tool'[i].claim = c =>
             c \in Held' \/ (tool[i].at \in Using /\ tool[i].claim = c /\ (c \in Held => c \in Held'))
  PROVE  Covered'
<1> SUFFICES ASSUME NEW j \in Tools, NEW c \in ClaimId, tool'[j].at \in Using,
                    tool'[j].claim = c, ~shared', ~ended'
             PROVE  c \in Held'
  BY DEF Covered, Using
<1>1. ~shared /\ ~ended
  BY HistoryTold
<1>2. CASE j = i
  BY <1>1, <1>2 DEF Covered, Using
<1>3. CASE j # i
  BY <1>1, <1>3 DEF Covered, Using, Others
<1> QED
  BY <1>2, <1>3

\* A step that ends no claim and takes no claim up.
LEMMA CoveredQuiet ==
  ASSUME Covered, NEW i \in Tools, Others(i), Observe, Held \subseteq Held',
         \A c \in ClaimId : tool'[i].at \in Using /\ tool'[i].claim = c =>
             c \in Held' \/ (tool[i].at \in Using /\ tool[i].claim = c)
  PROVE  Covered'
BY CoveredTool

LEMMA HeldStays ==
  ASSUME UNCHANGED status PROVE Held' = Held
BY DEF Held

LEMMA CoveredStep ==
  ASSUME Base, Covered, Observe, NEW i \in Tools, ToolStep(i)
  PROVE  Covered'
<1>1. ASSUME NEW key \in Tools, PreToolUse(i, key) \/ CursorPreToolUse(i, key)
      PROVE  Covered'
  <2>1. Others(i) /\ tool'[i].claim = NoClaim
    BY <1>1, BeginDoes DEF Base
  <2>2. Held' = Held
    BY <1>1, HeldStays DEF PreToolUse, CursorPreToolUse
  <2> QED
    BY <2>1, <2>2, CoveredQuiet DEF ClaimId, NoClaim
<1>2. CASE CheckCriticalMailbox(i)
  <2>1. Held' = Held
    BY <1>2, HeldStays DEF CheckCriticalMailbox
  <2>2. CASE Return(i)
    BY <2>1, <2>2, ReturnDoes, EndsNames, CoveredQuiet DEF Base
  <2>3. CASE Step(i, "claim")
    <3>1. Others(i) /\ tool'[i].at = "claim"
      BY <2>3, StepDoes DEF PreHook, Base, Goes
    <3> QED
      BY <2>1, <3>1, CoveredQuiet DEF Using
  <2> QED
    BY <1>2, <2>2, <2>3 DEF CheckCriticalMailbox
<1>3. CASE Claim(i)
  <2>1. /\ Others(i) /\ tool[i].at = "claim"
        /\ \/ /\ Len(status) < MaxClaims /\ status' = Append(status, "held")
              /\ \/ Granted(i)
                 \/ /\ stray' = stray \cup {Len(status) + 1}
                    /\ Goes(i, "running") /\ Keeps(i)
           \/ UNCHANGED <<status, stray>> /\ Goes(i, "running") /\ Keeps(i)
           \/ UNCHANGED <<status, stray>> /\ Ends(i)
    BY <1>3, ClaimDoes DEF Base
  <2>2. tool[i].claim = NoClaim
    BY <2>1 DEF Base, Place
  <2>3. CASE UNCHANGED <<status, stray>>
    <3>1. Held' = Held
      BY <2>3, HeldStays
    <3>2. \A c \in ClaimId : tool'[i].claim = c => c = Len(status) + 1 /\ Granted(i)
      BY <2>1, <2>2 DEF Granted, Goes, Keeps, Ends, ClaimId, NoClaim
    <3>3. ~Granted(i) \/ Append(status, "held") = status
      BY <2>1, <2>2, <2>3 DEF Granted, Goes, Keeps, Ends
    <3>4. status # Append(status, "held")
      <4>1. Len(status) \in Nat /\ Len(Append(status, "held")) = Len(status) + 1
        BY DEF Base, TypeOK
      <4> QED
        BY <4>1
    <3> QED
      BY <2>1, <3>1, <3>2, <3>3, <3>4, CoveredQuiet
  <2>4. CASE /\ Len(status) < MaxClaims /\ status' = Append(status, "held")
             /\ \/ Granted(i)
                \/ /\ stray' = stray \cup {Len(status) + 1}
                   /\ Goes(i, "running") /\ Keeps(i)
    <3>1. stray \subseteq stray' /\ stray' \subseteq stray \cup {Len(status) + 1}
      BY <2>4 DEF Granted
    <3>2. Held' = Held \cup {Len(status) + 1}
      BY <2>4, <3>1, GrantDoesClaims DEF Base
    <3>3. tool'[i].claim \in {NoClaim, Len(status) + 1}
      BY <2>2, <2>4 DEF Granted, Keeps
    <3> QED
      BY <2>1, <3>2, <3>3, CoveredQuiet DEF ClaimId, NoClaim
  <2> QED
    BY <2>1, <2>3, <2>4
<1>4. CASE ClaimAnswered(i)
  <2>1. Others(i) /\ Keeps(i)
    BY <1>4, ClaimAnsweredDoes DEF Base
  <2>2. Held' = Held /\ tool[i].at = "answer"
    BY <1>4, HeldStays DEF ClaimAnswered
  <2> QED
    BY <2>1, <2>2, CoveredQuiet DEF Keeps, Using
<1>5. CASE Truncate(i)
  <2>1. /\ Others(i) /\ Keeps(i)
        /\ tool[i].at = "save" \/ tool'[i].at = "unwrite"
    BY <1>5, TruncateDoes DEF Base, Goes
  <2>2. Held' = Held
    BY <1>5, HeldStays DEF Truncate
  <2> QED
    BY <2>1, <2>2, CoveredQuiet DEF Keeps, Using
<1>6. CASE SaveCursorState(i)
  <2>1. Held' = Held
    BY <1>6, HeldStays DEF SaveCursorState
  <2> QED
    BY <1>6, <2>1, SaveDoes, EndsNames, CoveredQuiet DEF Base, Using
<1>7. CASE PostToolUse(i) \/ CursorPostToolUse(i)
  <2>1. Held' = Held
    BY <1>7, HeldStays DEF PostToolUse, CursorPostToolUse
  <2>2. Others(i) /\ (Ends(i) \/ tool'[i].at = "release")
    BY <1>7, PostDoes DEF Base, Goes
  <2> QED
    BY <2>1, <2>2, EndsNames, CoveredQuiet DEF Using
<1>8. CASE Release(i)
  <2>1. Others(i) /\ tool'[i].at \in {"unsave", "forget"}
    BY <1>8, ReleaseDoes DEF Base, Goes
  <2>2. /\ tool[i].claim \in ClaimId /\ tool[i].key \in Tools /\ tool[i].at = "release"
        /\ ReleaseClaim(tool[i].claim)
    <3>1. tool[i].at = "release" /\ ReleaseClaim(tool[i].claim)
      BY <1>8 DEF Release
    <3> QED
      BY <3>1, ToolFields DEF Base, Place, PostHook
  <2>3. PICK r \in ClaimId : r = tool[i].claim
    BY <2>2
  <2>4. Held \subseteq Held' \cup {r}
    BY <2>2, <2>3, ReleaseDoesClaims DEF Base
  <2>5. ASSUME NEW j \in Tools \ {i}, tool[j].claim = r, tool[j].at \in Using PROVE shared
    <3>1. tool[j].key \in Tools
      BY ToolFields DEF Base
    <3>2. tool[j].key = tool[i].key
      <4>1. PICK k \in Tools : k = tool[i].key
        BY <2>2
      <4>2. PICK l \in Tools : l = tool[j].key
        BY <3>1
      <4>3. Mentions(r, k) /\ Mentions(r, l)
        BY <2>3, <2>5, <4>1, <4>2, Mentioned
      <4> QED
        BY <4>1, <4>2, <4>3 DEF Base, Keyed
    <3> QED
      BY <2>2, <2>5, <3>2 DEF Base, History, Sharing, Alive, Using
  <2>6. \A j \in Tools \ {i}, c \in ClaimId :
             c \in Held /\ tool[j].at \in Using /\ tool[j].claim = c /\ ~shared => c \in Held'
    BY <2>4, <2>5
  <2> QED
    BY <2>1, <2>6, CoveredTool DEF Using
<1>9. CASE Forget(i)
  <2>1. Held' = Held
    BY <1>9, HeldStays DEF Forget
  <2> QED
    BY <1>9, <2>1, ReturnDoes, EndsNames, CoveredQuiet DEF Base, Forget
<1>10. CASE Killed(i)
  <2>1. Held' = Held
    BY <1>10, HeldStays DEF Killed
  <2>2. Others(i) /\ (Ends(i) \/ tool'[i].claim = NoClaim)
    BY <1>10, KilledDoes DEF Base
  <2> QED
    BY <2>1, <2>2, EndsNames, CoveredQuiet DEF ClaimId, NoClaim
<1> QED
  BY <1>1, <1>2, <1>3, <1>4, <1>5, <1>6, <1>7, <1>8, <1>9, <1>10 DEF ToolStep

\* The session-end hook goes on under a tool only if the session has ended under it.
LEMMA EnderAlone ==
  ASSUME Base, ~ended, ender.at = "releasing", NEW i \in Tools
  PROVE  tool[i].at = "idle" /\ tool[i].claim = NoClaim
BY DEF Base, History, Ending, Alive, Place

LEMMA CoveredEnd ==
  ASSUME Base, Covered, Observe, EndBegin \/ EndStep \/ EndKilled
  PROVE  Covered'
<1> SUFFICES ASSUME NEW j \in Tools, NEW c \in ClaimId, tool'[j].at \in Using,
                    tool'[j].claim = c, ~shared', ~ended'
             PROVE  c \in Held'
  BY DEF Covered, Using
<1>1. ~shared /\ ~ended
  BY HistoryTold
<1>2. CASE EndBegin
  BY <1>1, <1>2, HeldStays DEF EndBegin, Covered, Using
<1>3. CASE \E k \in Tools : EndRelease(k)
  <2>1. ender.at = "releasing" /\ tool'[j] = tool[j]
    BY <1>3 DEF EndRelease
  <2> QED
    BY <1>1, <2>1, EnderAlone DEF ClaimId, NoClaim
<1>4. CASE EndFinish
  <2>1. tool[j].claim = NoClaim /\ tool'[j].claim \in {tool[j].claim, NoClaim}
    BY <1>1, <1>4, EnderAlone, EndFinishDoes DEF EndFinish, Ends
  <2> QED
    BY <2>1 DEF ClaimId, NoClaim
<1>5. CASE EndKilled
  BY <1>1, <1>5, HeldStays DEF EndKilled, Covered, Using
<1> QED
  BY <1>2, <1>3, <1>4, <1>5 DEF EndStep

----------------------------------------------------------------------------
\* The timers.

Answer(t, c) == t.at = "answer" /\ t.claim = c

\* What started while the session ended stays marked as long as it goes on.
LEMMA LateTold ==
  ASSUME Observe
  PROVE  /\ late \cap timers' \subseteq late'
         /\ ender.at = "releasing" => timers' \ timers \subseteq late'
BY DEF Observe

LEMMA LateKeeps ==
  ASSUME Timed, Observe, timers' \subseteq timers
  PROVE  /\ timers' \ late' \subseteq Held /\ timers' \ late' \subseteq timers
         /\ ender.at = "releasing" => timers' \subseteq late'
BY LateTold DEF Timed

LEMMA TimedTool ==
  ASSUME Timed, NEW i \in Tools, Others(i), Observe, ender'.at = ender.at,
         \A j \in Tools \ {i}, c \in ClaimId : Answer(tool[j], c) =>
             c \in Held' /\ (\A k \in Tools : book'[k] # c) /\ tool'[i].claim # c,
         \A c \in ClaimId : tool'[i].at = "answer" /\ tool'[i].claim = c =>
             /\ c \in Held' /\ \A k \in Tools : book'[k] # c
             /\ \A j \in Tools \ {i} : tool[j].claim # c,
         \A j \in Tools \ {i} : tool[j].at = "release" => tool[j].claim \notin timers',
         tool'[i].at = "release" => tool'[i].claim \notin timers',
         timers' \ late' \subseteq Held', ender.at = "releasing" => timers' \subseteq late'
  PROVE  Timed'
<1>1. \A j \in Tools, c \in ClaimId : tool'[j].at = "answer" /\ tool'[j].claim = c =>
           /\ c \in Held'
           /\ \A k \in Tools : book'[k] # c
           /\ \A l \in Tools \ {j} : tool'[l].claim # c
  <2> SUFFICES ASSUME NEW j \in Tools, NEW c \in ClaimId, tool'[j].at = "answer",
                      tool'[j].claim = c
               PROVE  /\ c \in Held' /\ \A k \in Tools : book'[k] # c
                      /\ \A l \in Tools \ {j} : tool'[l].claim # c
    OBVIOUS
  <2>1. CASE j = i
    BY <2>1 DEF Others
  <2>2. CASE j # i
    <3>1. Answer(tool[j], c)
      BY <2>2 DEF Answer, Others
    <3>2. \A l \in Tools \ {j} : tool[l].claim # c
      BY <3>1 DEF Timed, Answer
    <3> QED
      BY <2>2, <3>1, <3>2 DEF Others
  <2> QED
    BY <2>1, <2>2
<1>2. \A j \in Tools : tool'[j].at = "release" => tool'[j].claim \notin timers'
  BY DEF Others
<1> QED
  BY <1>1, <1>2 DEF Timed

\* A step that ends no claim, starts no timer and awaits no answer.
LEMMA TimedQuiet ==
  ASSUME Timed, NEW i \in Tools, Others(i), Observe, ender'.at = ender.at,
         Held \subseteq Held', timers' \subseteq timers,
         \A j \in Tools : tool[j].at = "answer" =>
             \A c \in ClaimId, k \in Tools : book'[k] = c => \E l \in Tools : book[l] = c,
         \A j \in Tools \ {i} : tool[j].at = "answer" => \A c \in ClaimId : tool'[i].claim = c =>
             tool[i].claim = c \/ (\E k \in Tools : book[k] = c) \/ c \notin Held,
         tool'[i].at # "answer",
         tool'[i].at = "release" => tool'[i].claim \notin timers'
  PROVE  Timed'
<1>2. \A j \in Tools \ {i}, c \in ClaimId : Answer(tool[j], c) =>
             c \in Held' /\ (\A k \in Tools : book'[k] # c) /\ tool'[i].claim # c
  <2> SUFFICES ASSUME NEW j \in Tools \ {i}, NEW c \in ClaimId, Answer(tool[j], c)
               PROVE  c \in Held' /\ (\A k \in Tools : book'[k] # c) /\ tool'[i].claim # c
    OBVIOUS
  <2>1. c \in Held /\ (\A k \in Tools : book[k] # c) /\ \A l \in Tools \ {j} : tool[l].claim # c
    BY DEF Timed, Answer
  <2> QED
    BY <2>1 DEF Answer
<1>3. \A j \in Tools \ {i} : tool[j].at = "release" => tool[j].claim \notin timers'
  BY DEF Timed
<1>4. timers' \ late' \subseteq Held' /\ (ender.at = "releasing" => timers' \subseteq late')
  BY LateKeeps
<1> QED
  BY <1>2, <1>3, <1>4, TimedTool

LEMMA TimedStep ==
  ASSUME Base, Timed, Observe, NEW i \in Tools, ToolStep(i)
  PROVE  Timed'
<1>a. \A j \in Tools : tool[j].at = "answer" => harness # "cursor"
  BY DEF Base, Place
<1>1. ASSUME NEW key \in Tools, PreToolUse(i, key) \/ CursorPreToolUse(i, key)
      PROVE  Timed'
  <2>1. Others(i) /\ tool'[i].claim = NoClaim /\ tool'[i].at \in {"mail", "claim", "running"}
    BY <1>1, BeginDoes DEF Base
  <2>2. Held' = Held /\ UNCHANGED <<ender, timers, book>>
    BY <1>1, HeldStays DEF PreToolUse, CursorPreToolUse
  <2> QED
    BY <2>1, <2>2, TimedQuiet DEF ClaimId, NoClaim
<1>2. CASE CheckCriticalMailbox(i)
  <2>1. Held' = Held /\ UNCHANGED <<ender, timers, book>>
    BY <1>2, HeldStays DEF CheckCriticalMailbox
  <2>2. Others(i) /\ (Ends(i) \/ (tool'[i].at = "claim" /\ tool'[i].claim = tool[i].claim))
    BY <1>2, StepDoes, ReturnDoes DEF PreHook, Base, Goes, Keeps, CheckCriticalMailbox
  <2> QED
    BY <2>1, <2>2, TimedQuiet DEF ClaimId, NoClaim, Ends
<1>3. CASE Claim(i)
  <2>1. /\ Others(i) /\ tool[i].at = "claim"
        /\ \/ /\ Len(status) < MaxClaims /\ status' = Append(status, "held")
              /\ \/ Granted(i)
                 \/ /\ stray' = stray \cup {Len(status) + 1}
                    /\ Goes(i, "running") /\ Keeps(i)
           \/ UNCHANGED <<status, stray>> /\ Goes(i, "running") /\ Keeps(i)
           \/ UNCHANGED <<status, stray>> /\ Ends(i)
    BY <1>3, ClaimDoes DEF Base
  <2>2. tool[i].claim = NoClaim /\ UNCHANGED <<ender, timers, book>>
    BY <1>3, <2>1 DEF Base, Place, Claim
  <2>3. Held \subseteq Held'
    <3>1. CASE UNCHANGED <<status, stray>>
      BY <3>1, HeldStays
    <3>2. CASE /\ Len(status) < MaxClaims /\ status' = Append(status, "held")
               /\ stray \subseteq stray' /\ stray' \subseteq stray \cup {Len(status) + 1}
      BY <3>2, GrantDoesClaims DEF Base
    <3> QED
      BY <2>1, <3>1, <3>2 DEF Granted
  <2>4. CASE tool'[i].at \in {"running", "idle"} /\ tool'[i].claim = NoClaim
    BY <2>1, <2>2, <2>3, <2>4, TimedQuiet DEF ClaimId, NoClaim
  <2>5. CASE Len(status) < MaxClaims /\ status' = Append(status, "held") /\ Granted(i)
    <3> DEFINE new == Len(status) + 1
    <3>1. stray' \subseteq stray \cup {new} /\ stray \subseteq stray'
      BY <2>5 DEF Granted
    <3>2. Held' = Held \cup {new} /\ new \in ClaimId
      BY <2>5, <3>1, GrantDoesClaims DEF Base
    <3>3. new \notin Max /\ new \notin Held
      BY DEF Base, TypeOK, Max, Held
    <3>4. (\A k \in Tools : book[k] # new) /\ \A j \in Tools : tool[j].claim # new
      <4>1. \A k \in Tools : ~Mentions(new, k)
        BY <3>2, <3>3 DEF Base, Keyed
      <4>2. \A j \in Tools : tool[j].key \in Tools
        BY ToolFields DEF Base
      <4> HIDE DEF new
      <4> QED
        BY <3>2, <4>1, <4>2, Mentioned
    <3>5. tool'[i].claim = new /\ tool'[i].at # "release"
      BY <2>5 DEF Granted, Goes
    <3> HIDE DEF new
    <3>6. \A j \in Tools \ {i}, c \in ClaimId : Answer(tool[j], c) =>
             c \in Held' /\ (\A k \in Tools : book'[k] # c) /\ tool'[i].claim # c
      BY <2>2, <3>2, <3>3, <3>5 DEF Timed, Answer
    <3>7. \A c \in ClaimId : tool'[i].at = "answer" /\ tool'[i].claim = c =>
             /\ c \in Held' /\ \A k \in Tools : book'[k] # c
             /\ \A j \in Tools \ {i} : tool[j].claim # c
      BY <2>2, <3>2, <3>4, <3>5
    <3>8. /\ timers' \ late' \subseteq Held' /\ (ender.at = "releasing" => timers' \subseteq late')
          /\ \A j \in Tools \ {i} : tool[j].at = "release" => tool[j].claim \notin timers'
      BY <2>2, <2>3, LateKeeps DEF Timed
    <3> QED
      BY <2>1, <2>2, <3>5, <3>6, <3>7, <3>8, TimedTool
  <2> QED
    BY <2>1, <2>2, <2>4, <2>5 DEF Goes, Keeps, Ends
<1>4. CASE ClaimAnswered(i)
  <2>1. Others(i) /\ tool'[i].at = "running" /\ tool'[i].claim = tool[i].claim
    BY <1>4, ClaimAnsweredDoes DEF Base, Goes, Keeps
  <2>2. Held' = Held /\ tool[i].at = "answer" /\ UNCHANGED ender /\ tool[i].claim \in ClaimId
        /\ book' = [book EXCEPT ![tool[i].key] = tool[i].claim] /\ book \in Book
        /\ timers' \subseteq timers \cup {tool[i].claim}
    BY <1>4, HeldStays, ToolFields DEF ClaimAnswered, Base, Place
  <2>3. PICK r \in ClaimId : r = tool[i].claim
    BY <2>2
  <2>4. r \in Held /\ \A j \in Tools \ {i} : tool[j].claim # r
    BY <2>2, <2>3 DEF Timed
  <2>5. \A j \in Tools \ {i}, c \in ClaimId : Answer(tool[j], c) =>
             c \in Held' /\ (\A k \in Tools : book'[k] # c) /\ tool'[i].claim # c
    <3> SUFFICES ASSUME NEW j \in Tools \ {i}, NEW c \in ClaimId, Answer(tool[j], c)
                 PROVE  c \in Held' /\ (\A k \in Tools : book'[k] # c) /\ tool'[i].claim # c
      OBVIOUS
    <3>1. c \in Held /\ (\A k \in Tools : book[k] # c) /\ tool[i].claim # c
      BY DEF Timed, Answer
    <3>2. \A k \in Tools : book'[k] \in {book[k], tool[i].claim}
      BY <2>2 DEF Book
    <3> QED
      BY <2>1, <2>2, <3>1, <3>2
  <2>6. \A j \in Tools \ {i} : tool[j].at = "release" => tool[j].claim \notin timers'
    BY <2>2, <2>3, <2>4 DEF Timed
  <2>7. timers' \ late' \subseteq Held'
    BY <2>2, <2>3, <2>4, LateTold DEF Timed
  <2>8. ender.at = "releasing" => timers' \subseteq late'
    BY LateTold DEF Timed
  <2> QED
    BY <2>1, <2>2, <2>5, <2>6, <2>7, <2>8, TimedTool
<1>5. CASE Truncate(i)
  <2>1. Others(i) /\ Keeps(i) /\ tool'[i].at \in {"write", "unwrite"}
    BY <1>5, TruncateDoes DEF Base, Goes
  <2>2. Held' = Held /\ UNCHANGED <<ender, timers, book>>
    BY <1>5, HeldStays DEF Truncate
  <2> QED
    BY <2>1, <2>2, TimedQuiet DEF Keeps
<1>6. CASE SaveCursorState(i)
  <2>1. Held' = Held /\ UNCHANGED <<ender, timers>>
    BY <1>6, HeldStays DEF SaveCursorState
  <2>2. Others(i) /\ tool'[i].at \in {"running", "idle"} /\ harness = "cursor"
    BY <1>6, SaveDoes DEF Base, Goes, Ends, Place
  <2> QED
    BY <2>1, <2>2, <1>a, TimedQuiet
<1>7. CASE PostToolUse(i) \/ CursorPostToolUse(i)
  <2>1. Held' = Held /\ UNCHANGED <<ender, book>> /\ timers' \subseteq timers
    BY <1>7, HeldStays DEF PostToolUse, CursorPostToolUse
  <2>2. /\ Others(i) /\ tool'[i].at \in {"idle", "release"}
        /\ tool'[i].at = "idle" => tool'[i].claim = NoClaim
        /\ tool'[i].at = "release" => tool'[i].claim = book[tool[i].key]
    BY <1>7, PostDoes DEF Base, Goes, Ends
  <2>3. tool'[i].at = "release" => tool'[i].claim \notin timers'
    <3>1. CASE PostToolUse(i)
      BY <2>2, <3>1 DEF PostToolUse
    <3>2. CASE CursorPostToolUse(i)
      <4>1. timers' = {}
        BY <3>2 DEF CursorPostToolUse, Base, TypeOK
      <4> QED
        BY <4>1
    <3> QED
      BY <1>7, <3>1, <3>2
  <2>4. tool[i].key \in Tools
    BY ToolFields DEF Base
  <2> QED
    BY <2>1, <2>2, <2>3, <2>4, TimedQuiet DEF ClaimId, NoClaim
<1>8. CASE Release(i)
  <2>1. Others(i) /\ tool'[i].at \in {"unsave", "forget"} /\ tool'[i].claim = tool[i].claim
    BY <1>8, ReleaseDoes DEF Base, Goes
  <2>2. /\ tool[i].claim \in ClaimId /\ tool[i].at = "release"
        /\ ReleaseClaim(tool[i].claim) /\ UNCHANGED <<ender, book, timers>>
    <3>1. tool[i].at = "release" /\ ReleaseClaim(tool[i].claim)
          /\ UNCHANGED <<ender, book, timers>>
      BY <1>8 DEF Release
    <3> QED
      BY <3>1, ToolFields DEF Base, Place, PostHook
  <2>3. PICK r \in ClaimId : r = tool[i].claim
    BY <2>2
  <2>4. Held \subseteq Held' \cup {r} /\ r \notin timers
    BY <2>2, <2>3, ReleaseDoesClaims DEF Base, Timed
  <2>5. \A j \in Tools \ {i}, c \in ClaimId : Answer(tool[j], c) =>
             c \in Held' /\ (\A k \in Tools : book'[k] # c) /\ tool'[i].claim # c
    BY <2>1, <2>2, <2>3, <2>4 DEF Timed, Answer
  <2>6. timers' \ late' \subseteq Held' /\ (ender.at = "releasing" => timers' \subseteq late')
    BY <2>2, <2>4, LateKeeps
  <2>7. \A j \in Tools \ {i} : tool[j].at = "release" => tool[j].claim \notin timers'
    BY <2>2 DEF Timed
  <2> QED
    BY <2>1, <2>2, <2>5, <2>6, <2>7, TimedTool
<1>9. CASE Forget(i)
  <2>1. Held' = Held /\ UNCHANGED timers
        /\ book' = [book EXCEPT ![tool[i].key] = NoClaim] /\ book \in Book
    BY <1>9, HeldStays DEF Forget, Base, TypeOK
  <2>2. Others(i) /\ Ends(i)
    BY <1>9, ReturnDoes DEF Forget, Base
  <2>3. \A c \in ClaimId, k \in Tools : book'[k] = c => book[k] = c
    BY <2>1 DEF Book, ClaimId, NoClaim
  <2>4. ender'.at = ender.at
    BY <1>9 DEF Forget, Base, TypeOK, Ender
  <2> QED
    BY <2>1, <2>2, <2>3, <2>4, TimedQuiet DEF Ends, ClaimId, NoClaim
<1>10. CASE Killed(i)
  <2>1. Held' = Held /\ UNCHANGED <<ender, timers, book>>
    BY <1>10, HeldStays DEF Killed
  <2>2. Others(i) /\ tool'[i].claim = NoClaim /\ tool'[i].at \in {"running", "idle"}
    BY <1>10, KilledDoes DEF Base, Goes, Ends
  <2> QED
    BY <2>1, <2>2, TimedQuiet DEF ClaimId, NoClaim
<1> QED
  BY <1>1, <1>2, <1>3, <1>4, <1>5, <1>6, <1>7, <1>8, <1>9, <1>10 DEF ToolStep

LEMMA TimedEnd ==
  ASSUME Base, Timed, Observe, EndBegin \/ EndStep \/ EndKilled
  PROVE  Timed'
<1>a. \A j \in Tools : tool[j].at = "answer" => harness # "cursor"
  BY DEF Base, Place
<1>1. CASE EndBegin
  <2>1. UNCHANGED <<tool, book>> /\ timers' = {} /\ Held' = Held
    BY <1>1, HeldStays DEF EndBegin
  <2> QED
    BY <2>1 DEF Timed
<1>2. ASSUME NEW k \in Tools, EndRelease(k) PROVE Timed'
  <2>1. /\ UNCHANGED <<tool, book, timers>> /\ ender.at = "releasing" /\ ender'.at = ender.at
        /\ ReleaseClaim(EndBook[k]) /\ EndBook[k] # NoClaim
    BY <1>2 DEF EndRelease, Base, TypeOK, Ender
  <2>2. EndBook \in Book
    BY DEF EndBook, Base, TypeOK, Ender
  <2>3. PICK r \in ClaimId : r = EndBook[k]
    BY <2>1, <2>2 DEF Book
  <2>4. Held \subseteq Held' \cup {r}
    BY <2>1, <2>3, ReleaseDoesClaims DEF Base
  <2>5. \A i \in Tools, c \in ClaimId : tool[i].at = "answer" /\ tool[i].claim = c => c # r
    BY <1>a, <2>3 DEF Timed, EndBook
  <2>6. timers' \subseteq late'
    BY <2>1, LateKeeps
  <2> QED
    BY <2>1, <2>4, <2>5, <2>6 DEF Timed
<1>3. CASE EndFinish
  <2>1. Held' = Held /\ UNCHANGED timers /\ timers' \ late' \subseteq Held'
    BY <1>3, HeldStays, LateKeeps DEF EndFinish
  <2>2. /\ ender'.at = "idle" /\ \A k \in Tools : book'[k] = NoClaim
        /\ \A i \in Tools : \/ tool'[i].at \in {"running", "idle"}
                               /\ tool'[i].claim \in {tool[i].claim, NoClaim}
                            \/ tool'[i] = tool[i]
    BY <1>3, EndFinishDoes DEF Goes, Ends
  <2> QED
    BY <2>1, <2>2 DEF Timed, ClaimId, NoClaim
<1>4. CASE EndKilled
  <2>1. UNCHANGED <<tool, book, timers>> /\ Held' = Held /\ ender'.at = "idle"
    BY <1>4, HeldStays DEF EndKilled, IdleEnder
  <2> QED
    BY <2>1, LateKeeps DEF Timed
<1> QED
  BY <1>1, <1>2, <1>3, <1>4 DEF EndStep

----------------------------------------------------------------------------
\* What is open is kept.

Calm == ~shared /\ ~ended /\ ~overlapped

\* The parts of Kept: where an open claim is, whose an open claim of the book is, what
\* the book has of a call, and what the copy of a Cursor hook has.
Placed == \A c \in ClaimId : Open(c) =>
              (\E k \in Tools : book[k] = c) \/ (\E i \in Tools : tool[i].claim = c)
Owned == \A c \in ClaimId, k \in Tools : Open(c) /\ book[k] = c =>
             \E i \in Tools : /\ tool[i].at \in {"running", "release"}
                              /\ tool[i].key = k /\ tool[i].claim = c
InBook(t, b) == t.at \in {"running"} \cup PostHook /\ t.claim # NoClaim => b[t.key] = t.claim
Copied(t, b) == /\ \A k \in Tools \ {t.key} : t.copy[k] = b[k]
                /\ t.at \in {"save", "write"} => t.copy[t.key] = t.claim
                /\ t.at \in {"unsave", "unwrite"} => t.copy[t.key] = NoClaim
Copies == \A i \in Tools : harness = "cursor" /\ InHook(i) => Copied(tool[i], book)

LEMMA KeptParts ==
  Kept <=> (Calm => Placed /\ Owned /\ (\A i \in Tools : InBook(tool[i], book)) /\ Copies)
BY DEF Kept, Calm, Placed, Owned, InBook, Copied, Copies

\* What holds before a step after which nothing was shared, ended or overlapped.
LEMMA CalmBefore ==
  ASSUME Base, Kept, Observe, Calm'
  PROVE  /\ Calm /\ Placed /\ Owned /\ (\A i \in Tools : InBook(tool[i], book)) /\ Copies
         /\ ~Sharing /\ ~Ending /\ ~Overlapping /\ ~MeetsTornFile
<1>1. Calm /\ ~MeetsTornFile
  BY HistoryTold DEF Calm, Observe
<1> QED
  BY <1>1, KeptParts DEF Base, History, Calm

\* Calls in progress have different keys.
LEMMA KeysApart ==
  ASSUME ~Sharing, NEW i \in Tools, NEW j \in Tools \ {i},
         tool[i].at # "idle", tool[j].at # "idle"
  PROVE  tool[i].key # tool[j].key
BY DEF Sharing, Alive

\* A step that leaves the book alone.
LEMMA KeptTool ==
  ASSUME Base, Kept, Observe, NEW i \in Tools, Others(i), UNCHANGED <<harness, book>>,
         Calm' => \A c \in ClaimId : Open(c)' =>
             Open(c) \/ (tool'[i].claim = c /\ \A k \in Tools : book[k] # c),
         Calm' => \A c \in ClaimId : Open(c)' /\ tool[i].claim = c =>
             tool'[i].claim = c \/ \E k \in Tools : book[k] = c,
         Calm' => \A c \in ClaimId : /\ Open(c)' /\ tool[i].claim = c /\ book[tool[i].key] = c
                                     /\ tool[i].at \in {"running", "release"}
             => /\ tool'[i].at \in {"running", "release"} /\ tool'[i].key = tool[i].key
                /\ tool'[i].claim = c,
         \A t : Calm' /\ t = tool'[i] => InBook(t, book),
         \A t : Calm' /\ t = tool'[i] /\ harness = "cursor" /\ t.at \notin {"idle", "running"}
             => Copied(t, book)
  PROVE  Kept'
<1> SUFFICES ASSUME Calm'
             PROVE  (Placed /\ Owned /\ (\A j \in Tools : InBook(tool[j], book)) /\ Copies)'
  BY DEF Kept, Calm, Placed, Owned, InBook, Copied, Copies
<1>1. /\ Placed /\ Owned /\ (\A j \in Tools : InBook(tool[j], book)) /\ Copies
  BY CalmBefore
<1>2. Placed'
  <2> SUFFICES ASSUME NEW c \in ClaimId, Open(c)'
               PROVE  (\E k \in Tools : book'[k] = c) \/ (\E j \in Tools : tool'[j].claim = c)
    BY DEF Placed
  <2>1. CASE tool'[i].claim = c
    BY <2>1
  <2>2. CASE tool'[i].claim # c
    <3>1. Open(c)
      BY <2>2
    <3>2. CASE \E k \in Tools : book[k] = c
      BY <3>2
    <3>3. ASSUME NEW j \in Tools, tool[j].claim = c
          PROVE  (\E k \in Tools : book'[k] = c) \/ (\E l \in Tools : tool'[l].claim = c)
      BY <2>2, <3>3 DEF Others
    <3> QED
      BY <1>1, <3>1, <3>2, <3>3 DEF Placed
  <2> QED
    BY <2>1, <2>2
<1>3. Owned'
  <2> SUFFICES ASSUME NEW c \in ClaimId, NEW k \in Tools, Open(c)', book'[k] = c
               PROVE  \E j \in Tools : /\ tool'[j].at \in {"running", "release"}
                                       /\ tool'[j].key = k /\ tool'[j].claim = c
    BY DEF Owned
  <2>1. Open(c) /\ book[k] = c
    OBVIOUS
  <2>2. PICK j \in Tools : /\ tool[j].at \in {"running", "release"}
                           /\ tool[j].key = k /\ tool[j].claim = c
    BY <1>1, <2>1 DEF Owned
  <2>3. CASE j = i
    <3>1. /\ tool'[i].at \in {"running", "release"} /\ tool'[i].key = tool[i].key
          /\ tool'[i].claim = c
      BY <2>1, <2>2, <2>3
    <3> QED
      BY <2>2, <2>3, <3>1
  <2>4. CASE j # i
    BY <2>2, <2>4 DEF Others
  <2> QED
    BY <2>3, <2>4
<1>4. (\A j \in Tools : InBook(tool[j], book))'
  BY <1>1 DEF Others, InBook
<1>5. Copies'
  <2> SUFFICES ASSUME NEW j \in Tools, harness = "cursor", tool'[j].at \notin {"idle", "running"}
               PROVE  Copied(tool[j], book)'
    BY DEF Copies, InHook
  <2>1. CASE j = i
    BY <2>1 DEF Copied
  <2>2. CASE j # i
    BY <1>1, <2>2 DEF Others, Copied, Copies, InHook
  <2> QED
    BY <2>1, <2>2
<1> QED
  BY <1>2, <1>3, <1>4, <1>5

\* A step that writes the call's own key.
LEMMA KeptWrites ==
  ASSUME Base, Kept, Observe, NEW i \in Tools, Others(i), UNCHANGED harness, NoneComes,
         NEW v \in ClaimId \cup {NoClaim},
         Calm' => book' = [book EXCEPT ![tool[i].key] = v],
         InHook(i), tool[i].at # "release",
         \/ /\ v = tool[i].claim /\ tool'[i].at = "running" /\ tool'[i].key = tool[i].key
            /\ tool'[i].claim = v
         \/ v = NoClaim /\ tool[i].at \in {"forget", "unwrite"} /\ Ends(i)
  PROVE  Kept'
<1> SUFFICES ASSUME Calm'
             PROVE  (Placed /\ Owned /\ (\A j \in Tools : InBook(tool[j], book)) /\ Copies)'
  BY DEF Kept, Calm, Placed, Owned, InBook, Copied, Copies
<1>1. /\ Placed /\ Owned /\ (\A j \in Tools : InBook(tool[j], book)) /\ Copies
      /\ ~Sharing /\ ~Overlapping
  BY CalmBefore
<1>2. /\ tool[i].key \in Tools /\ book \in Book /\ tool[i].at \notin {"idle", "running", "release"}
      /\ \A j \in Tools : tool[j].key \in Tools
  BY ToolFields DEF Base, InHook
<1>3. \A k \in Tools : book'[k] = IF k = tool[i].key THEN v ELSE book[k]
  BY <1>2 DEF Book
\* What was open under the key was this call's own.
<1>4. ASSUME NEW c \in ClaimId, Open(c), book[tool[i].key] = c PROVE FALSE
  <2>1. PICK j \in Tools : /\ tool[j].at \in {"running", "release"}
                           /\ tool[j].key = tool[i].key /\ tool[j].claim = c
    BY <1>1, <1>2, <1>4 DEF Owned
  <2> QED
    BY <1>1, <1>2, <2>1, KeysApart
<1>5. ASSUME NEW c \in ClaimId, Open(c), tool[i].claim = c, v = NoClaim PROVE FALSE
  BY <1>5 DEF Base, Through, ClaimId, NoClaim
<1>6. Placed'
  <2> SUFFICES ASSUME NEW c \in ClaimId, Open(c)'
               PROVE  (\E k \in Tools : book'[k] = c) \/ (\E j \in Tools : tool'[j].claim = c)
    BY DEF Placed
  <2>1. Open(c)
    BY DEF NoneComes
  <2>2. ASSUME NEW k \in Tools, book[k] = c
        PROVE  (\E l \in Tools : book'[l] = c) \/ (\E j \in Tools : tool'[j].claim = c)
    BY <1>3, <1>4, <2>1, <2>2
  <2>3. ASSUME NEW j \in Tools, tool[j].claim = c
        PROVE  (\E l \in Tools : book'[l] = c) \/ (\E l \in Tools : tool'[l].claim = c)
    <3>1. CASE j = i
      BY <1>5, <2>1, <2>3, <3>1
    <3>2. CASE j # i
      BY <2>3, <3>2 DEF Others
    <3> QED
      BY <3>1, <3>2
  <2> QED
    BY <1>1, <2>1, <2>2, <2>3 DEF Placed
<1>7. Owned'
  <2> SUFFICES ASSUME NEW c \in ClaimId, NEW k \in Tools, Open(c)', book'[k] = c
               PROVE  \E j \in Tools : /\ tool'[j].at \in {"running", "release"}
                                       /\ tool'[j].key = k /\ tool'[j].claim = c
    BY DEF Owned
  <2>1. Open(c)
    BY DEF NoneComes
  <2>2. CASE k = tool[i].key
    BY <1>3, <2>2 DEF ClaimId, NoClaim
  <2>3. CASE k # tool[i].key
    <3>1. PICK j \in Tools : /\ tool[j].at \in {"running", "release"}
                             /\ tool[j].key = k /\ tool[j].claim = c
      BY <1>1, <1>3, <2>1, <2>3 DEF Owned
    <3>2. j # i
      BY <1>2, <3>1
    <3> QED
      BY <3>1, <3>2 DEF Others
  <2> QED
    BY <2>2, <2>3
<1>8. (\A j \in Tools : InBook(tool[j], book))'
  <2> SUFFICES ASSUME NEW j \in Tools, tool'[j].at \in {"running"} \cup PostHook,
                      tool'[j].claim # NoClaim
               PROVE  book'[tool'[j].key] = tool'[j].claim
    BY DEF InBook
  <2>1. CASE j = i
    BY <1>2, <1>3, <2>1 DEF Ends
  <2>2. CASE j # i
    <3>1. tool'[j] = tool[j]
      BY <2>2 DEF Others
    <3>2. book[tool[j].key] = tool[j].claim
      BY <1>1, <3>1 DEF InBook
    <3>3. tool[j].at # "idle"
      BY <3>1 DEF PostHook
    <3>4. tool[j].key # tool[i].key
      BY <1>1, <1>2, <2>2, <3>3, KeysApart
    <3> QED
      BY <1>2, <1>3, <3>1, <3>2, <3>4
  <2> QED
    BY <2>1, <2>2
<1>9. Copies'
  <2> SUFFICES ASSUME NEW j \in Tools, harness = "cursor", tool'[j].at \notin {"idle", "running"}
               PROVE  FALSE
    BY DEF Copies, InHook
  <2>1. j # i
    BY DEF Ends
  <2>2. InHook(j)
    BY <2>1 DEF Others, InHook
  <2> QED
    BY <1>1, <2>1, <2>2 DEF Overlapping
<1> QED
  BY <1>6, <1>7, <1>8, <1>9

\* Claims are as they were.
LEMMA OpenStays ==
  ASSUME UNCHANGED <<status, stray>> PROVE \A c : Open(c)' <=> Open(c)
BY DEF Open, Held

LEMMA KeptStep ==
  ASSUME Base, Kept, Observe, NEW i \in Tools, ToolStep(i)
  PROVE  Kept'
<1>k. tool[i].key \in Tools /\ tool[i].claim \in ClaimId \cup {NoClaim} /\ book \in Book
      /\ tool[i].copy \in Book
  BY ToolFields DEF Base
<1>1. ASSUME NEW key \in Tools, PreToolUse(i, key) \/ CursorPreToolUse(i, key)
      PROVE  Kept'
  <2>1. /\ Others(i) /\ tool[i].at = "idle" /\ tool'[i].claim = NoClaim
        /\ \/ harness # "cursor" /\ tool'[i].at = "mail"
           \/ harness = "cursor" /\ tool'[i].at = "claim" /\ tool'[i].copy = book
           \/ harness = "cursor" /\ file # "ok" /\ tool'[i].at = "running"
    BY <1>1, BeginDoes DEF Base
  <2>2. tool[i].claim = NoClaim /\ UNCHANGED <<harness, book>> /\ \A c : Open(c)' <=> Open(c)
    BY <1>1, <2>1, OpenStays DEF PreToolUse, CursorPreToolUse, Base, Place
  <2>3. \A t : t = tool'[i] => InBook(t, book)
    BY <2>1 DEF InBook
  <2>4. \A t : t = tool'[i] /\ harness = "cursor" /\ t.at \notin {"idle", "running"}
             => Copied(t, book)
    BY <2>1 DEF Copied
  <2> QED
    BY <2>1, <2>2, <2>3, <2>4, KeptTool DEF ClaimId, NoClaim
<1>2. CASE CheckCriticalMailbox(i)
  <2>1. tool[i].at = "mail" /\ harness # "cursor" /\ tool[i].claim = NoClaim
        /\ UNCHANGED <<harness, book>> /\ \A c : Open(c)' <=> Open(c)
    BY <1>2, OpenStays DEF CheckCriticalMailbox, Base, Place
  <2>2. Others(i) /\ tool'[i].claim = NoClaim
    BY <1>2, <2>1, StepDoes, ReturnDoes DEF PreHook, Base, Keeps, Ends, CheckCriticalMailbox
  <2>3. \A t : t = tool'[i] => InBook(t, book)
    BY <2>2 DEF InBook
  <2> QED
    BY <2>1, <2>2, <2>3, KeptTool DEF ClaimId, NoClaim
<1>3. CASE Claim(i)
  <2>1. /\ Others(i) /\ tool[i].at = "claim"
        /\ \/ /\ Len(status) < MaxClaims /\ status' = Append(status, "held")
              /\ \/ Granted(i)
                 \/ /\ stray' = stray \cup {Len(status) + 1}
                    /\ Goes(i, "running") /\ Keeps(i)
           \/ UNCHANGED <<status, stray>> /\ Goes(i, "running") /\ Keeps(i)
           \/ UNCHANGED <<status, stray>> /\ Ends(i)
    BY <1>3, ClaimDoes DEF Base
  <2>2. tool[i].claim = NoClaim /\ UNCHANGED <<harness, book>>
    BY <1>3, <2>1 DEF Base, Place, Claim
  <2>3. CASE tool'[i].at \in {"running", "idle"} /\ tool'[i].claim = NoClaim
    <3>1. \A c \in ClaimId : Open(c)' => Open(c)
      <4>1. CASE UNCHANGED <<status, stray>>
        BY <4>1, OpenStays
      <4>2. CASE /\ Len(status) < MaxClaims /\ status' = Append(status, "held")
                 /\ stray' = stray \cup {Len(status) + 1}
        BY <4>2, GrantDoesClaims DEF Base, Open
      <4> QED
        BY <2>1, <2>3, <4>1, <4>2 DEF Granted, Goes
    <3>2. \A t : t = tool'[i] => InBook(t, book)
      BY <2>3 DEF InBook
    <3> QED
      BY <2>1, <2>2, <2>3, <3>1, <3>2, KeptTool DEF ClaimId, NoClaim
  <2>4. CASE Len(status) < MaxClaims /\ status' = Append(status, "held") /\ Granted(i)
    <3> DEFINE new == Len(status) + 1
    <3>1. stray' \subseteq stray \cup {new} /\ stray \subseteq stray'
      BY <2>4 DEF Granted
    <3>2. new \in ClaimId /\ \A c \in ClaimId : Open(c)' => Open(c) \/ c = new
      BY <2>4, <3>1, GrantDoesClaims DEF Base
    <3>3. new \notin Max
      BY DEF Base, TypeOK, Max
    <3>4. \A k \in Tools : book[k] # new
      <4>1. \A k \in Tools : ~Mentions(new, k)
        BY <3>2, <3>3 DEF Base, Keyed
      <4> HIDE DEF new
      <4> QED
        BY <3>2, <4>1, Mentioned
    <3>5. /\ tool'[i].claim = new /\ tool'[i].key = tool[i].key /\ tool'[i].at \in {"answer", "save"}
          /\ harness = "cursor" => tool'[i].copy = [tool[i].copy EXCEPT ![tool[i].key] = new]
      BY <2>4 DEF Granted, Goes
    <3> HIDE DEF new
    <3>6. \A t : t = tool'[i] => InBook(t, book)
      BY <3>5 DEF InBook, PostHook
    <3>7. \A t : Calm' /\ t = tool'[i] /\ harness = "cursor" /\ t.at \notin {"idle", "running"}
             => Copied(t, book)
      <4> SUFFICES ASSUME Calm', harness = "cursor" PROVE \A t : t = tool'[i] => Copied(t, book)
        OBVIOUS
      <4>1. \A k \in Tools \ {tool[i].key} : tool[i].copy[k] = book[k]
        BY <2>1, CalmBefore DEF Copies, Copied, InHook
      <4>2. \A k \in Tools : tool'[i].copy[k] = IF k = tool[i].key THEN new ELSE tool[i].copy[k]
        BY <1>k, <3>5 DEF Book
      <4> QED
        BY <1>k, <3>5, <4>1, <4>2 DEF Copied
    <3> QED
      BY <2>1, <2>2, <3>2, <3>4, <3>5, <3>6, <3>7, KeptTool DEF ClaimId, NoClaim
  <2> QED
    BY <2>1, <2>2, <2>3, <2>4 DEF Goes, Keeps, Ends
<1>4. CASE ClaimAnswered(i)
  <2>1. Others(i) /\ Goes(i, "running") /\ Keeps(i)
    BY <1>4, ClaimAnsweredDoes DEF Base
  <2>2. NoneComes /\ UNCHANGED harness /\ book' = [book EXCEPT ![tool[i].key] = tool[i].claim]
        /\ tool[i].at = "answer" /\ InHook(i)
    BY <1>4, NoneChanges DEF ClaimAnswered, Base, TypeOK, InHook
  <2> QED
    BY <1>k, <2>1, <2>2, KeptWrites DEF Goes, Keeps
<1>5. CASE Truncate(i)
  <2>1. /\ Others(i) /\ Keeps(i)
        /\ \/ tool[i].at = "save" /\ Goes(i, "write")
           \/ tool[i].at = "unsave" /\ Goes(i, "unwrite")
    BY <1>5, TruncateDoes DEF Base
  <2>2. UNCHANGED <<harness, book>> /\ \A c : Open(c)' <=> Open(c)
    BY <1>5, OpenStays DEF Truncate
  <2>3. \A t : Calm' /\ t = tool'[i] => InBook(t, book)
    <3> SUFFICES ASSUME Calm' PROVE \A t : t = tool'[i] => InBook(t, book)
      OBVIOUS
    <3>1. InBook(tool[i], book)
      BY CalmBefore
    <3> QED
      BY <2>1, <3>1 DEF InBook, Goes, Keeps, PostHook
  <2>4. \A t : Calm' /\ t = tool'[i] /\ harness = "cursor" /\ t.at \notin {"idle", "running"}
             => Copied(t, book)
    <3> SUFFICES ASSUME Calm', harness = "cursor" PROVE \A t : t = tool'[i] => Copied(t, book)
      OBVIOUS
    <3>1. Copied(tool[i], book)
      BY <2>1, CalmBefore DEF Copies, InHook
    <3> QED
      BY <2>1, <3>1 DEF Copied, Goes, Keeps
  <2> QED
    BY <2>1, <2>2, <2>3, <2>4, KeptTool DEF Keeps
<1>6. CASE SaveCursorState(i)
  <2>1. /\ Others(i)
        /\ \/ /\ tool[i].at = "write" /\ Goes(i, "running")
              /\ tool'[i].claim = tool[i].claim
           \/ tool[i].at = "unwrite" /\ Ends(i)
    BY <1>6, SaveDoes DEF Base
  <2>2. NoneComes /\ UNCHANGED harness /\ book' = tool[i].copy /\ harness = "cursor"
        /\ tool[i].at \in {"write", "unwrite"} /\ InHook(i)
    BY <1>6, <2>1, NoneChanges DEF SaveCursorState, Base, TypeOK, InHook, Place
  <2> DEFINE v == IF tool[i].at = "write" THEN tool[i].claim ELSE NoClaim
  <2>3. v \in ClaimId \cup {NoClaim}
    BY <1>k
  <2>4. Calm' => book' = [book EXCEPT ![tool[i].key] = v]
    <3> SUFFICES ASSUME Calm' PROVE tool[i].copy = [book EXCEPT ![tool[i].key] = v]
      BY <2>2
    <3>1. /\ \A k \in Tools \ {tool[i].key} : tool[i].copy[k] = book[k]
          /\ tool[i].copy[tool[i].key] = v
      BY <2>2, CalmBefore DEF Copies, Copied
    <3>2. [book EXCEPT ![tool[i].key] = v] \in Book
      BY <1>k, <2>3 DEF Book
    <3>3. \A k \in Tools : tool[i].copy[k] = [book EXCEPT ![tool[i].key] = v][k]
      BY <1>k, <3>1 DEF Book
    <3> HIDE DEF v
    <3> QED
      BY <1>k, <3>2, <3>3 DEF Book
  <2>5. \/ /\ v = tool[i].claim /\ tool'[i].at = "running" /\ tool'[i].key = tool[i].key
           /\ tool'[i].claim = v
        \/ v = NoClaim /\ tool[i].at \in {"forget", "unwrite"} /\ Ends(i)
    BY <2>1 DEF Goes
  <2> HIDE DEF v
  <2> QED
    BY <2>1, <2>2, <2>3, <2>4, <2>5, KeptWrites
<1>7. CASE PostToolUse(i) \/ CursorPostToolUse(i)
  <2>1. /\ Others(i) /\ tool[i].at = "running"
        /\ \/ /\ book[tool[i].key] = NoClaim \/ (harness = "cursor" /\ file # "ok")
              /\ Ends(i)
           \/ /\ book[tool[i].key] # NoClaim /\ Goes(i, "release")
              /\ tool'[i].claim = book[tool[i].key]
              /\ harness = "cursor" => tool'[i].copy = book
    BY <1>7, PostDoes DEF Base
  <2>2. UNCHANGED <<harness, book>> /\ \A c : Open(c)' <=> Open(c)
    BY <1>7, OpenStays DEF PostToolUse, CursorPostToolUse
  <2>3. Calm' => InBook(tool[i], book) /\ ~MeetsTornFile
    BY CalmBefore
  <2>4. ASSUME Calm', harness = "cursor", file # "ok", Ends(i) PROVE FALSE
    <3>1. file = "torn" /\ ~InHook(i) /\ tool'[i] # tool[i]
      BY <2>1, <2>4 DEF Base, TypeOK, InHook, Ends
    <3> QED
      BY <2>3, <2>4, <3>1 DEF MeetsTornFile
  <2>5. Calm' => /\ \A c \in ClaimId : tool[i].claim = c => book[tool[i].key] = c
                 /\ \/ book[tool[i].key] = NoClaim /\ Ends(i)
                    \/ /\ Goes(i, "release") /\ tool'[i].claim = book[tool[i].key]
                       /\ harness = "cursor" => tool'[i].copy = book
    BY <2>1, <2>3, <2>4 DEF InBook, ClaimId, NoClaim
  <2>6. \A t : Calm' /\ t = tool'[i] => InBook(t, book)
    BY <2>5 DEF InBook, Goes, Ends
  <2>7. \A t : Calm' /\ t = tool'[i] /\ harness = "cursor" /\ t.at \notin {"idle", "running"}
             => Copied(t, book)
    BY <2>5 DEF Copied, Goes, Ends
  <2>8. Calm' => \A c \in ClaimId : Open(c)' /\ tool[i].claim = c =>
             tool'[i].claim = c \/ \E k \in Tools : book[k] = c
    BY <1>k, <2>5
  <2>9. Calm' => \A c \in ClaimId : /\ Open(c)' /\ tool[i].claim = c /\ book[tool[i].key] = c
                                    /\ tool[i].at \in {"running", "release"}
             => /\ tool'[i].at \in {"running", "release"} /\ tool'[i].key = tool[i].key
                /\ tool'[i].claim = c
    BY <2>5 DEF Goes, ClaimId, NoClaim
  <2> QED
    BY <2>1, <2>2, <2>6, <2>7, <2>8, <2>9, KeptTool
<1>8. CASE Release(i)
  <2>1. /\ Others(i) /\ tool[i].at = "release" /\ tool'[i].claim = tool[i].claim
        /\ \/ harness = "cursor" /\ Goes(i, "unsave")
              /\ tool'[i].copy = [tool[i].copy EXCEPT ![tool[i].key] = NoClaim]
           \/ harness # "cursor" /\ Goes(i, "forget") /\ tool'[i].copy = tool[i].copy
    BY <1>8, ReleaseDoes DEF Base
  <2>2. tool[i].claim \in ClaimId /\ ReleaseClaim(tool[i].claim) /\ UNCHANGED <<harness, book>>
    BY <1>8, <1>k, <2>1 DEF Release, Base, Place, PostHook
  <2>3. PICK r \in ClaimId : r = tool[i].claim
    BY <2>2
  <2>4. NoneComes /\ ~Open(r)'
    BY <2>2, <2>3, ReleaseDoesClaims DEF Base
  <2>5. \A t : Calm' /\ t = tool'[i] => InBook(t, book)
    <3> SUFFICES ASSUME Calm' PROVE \A t : t = tool'[i] => InBook(t, book)
      OBVIOUS
    <3>1. InBook(tool[i], book)
      BY CalmBefore
    <3> QED
      BY <2>1, <3>1 DEF InBook, Goes, PostHook
  <2>6. \A t : Calm' /\ t = tool'[i] /\ harness = "cursor" /\ t.at \notin {"idle", "running"}
             => Copied(t, book)
    <3> SUFFICES ASSUME Calm', harness = "cursor" PROVE \A t : t = tool'[i] => Copied(t, book)
      OBVIOUS
    <3>1. Copied(tool[i], book)
      BY <2>1, CalmBefore DEF Copies, InHook
    <3>2. \A k \in Tools : tool'[i].copy[k] = IF k = tool[i].key THEN NoClaim ELSE tool[i].copy[k]
      BY <1>k, <2>1 DEF Book
    <3> QED
      BY <1>k, <2>1, <3>1, <3>2 DEF Copied, Goes
  <2> QED
    BY <2>1, <2>2, <2>3, <2>4, <2>5, <2>6, KeptTool DEF NoneComes
<1>9. CASE Forget(i)
  <2>1. Others(i) /\ Ends(i)
    BY <1>9, ReturnDoes DEF Forget, Base
  <2>2. NoneComes /\ UNCHANGED harness /\ book' = [book EXCEPT ![tool[i].key] = NoClaim]
        /\ tool[i].at = "forget" /\ InHook(i)
    BY <1>9, NoneChanges DEF Forget, Base, TypeOK, InHook
  <2> QED
    BY <2>1, <2>2, KeptWrites
<1>10. CASE Killed(i)
  <2>1. /\ Others(i) /\ tool'[i].at \in {"running", "idle"} /\ tool'[i].claim = NoClaim
    BY <1>10, KilledDoes DEF Base, Goes, Ends
  <2>2. /\ UNCHANGED <<harness, book, status>> /\ stray' = stray \cup ({tool[i].claim} \cap Held)
    BY <1>10 DEF Killed
  <2>3. NoneComes
    BY <2>2, NoneChanges DEF Base, TypeOK
  <2>4. \A c \in ClaimId : tool[i].claim = c => ~Open(c)'
    BY <2>2, HeldStays DEF Open
  <2>5. \A t : t = tool'[i] => InBook(t, book)
    BY <2>1 DEF InBook
  <2> QED
    BY <2>1, <2>2, <2>3, <2>4, <2>5, KeptTool DEF NoneComes
<1> QED
  BY <1>1, <1>2, <1>3, <1>4, <1>5, <1>6, <1>7, <1>8, <1>9, <1>10 DEF ToolStep

\* Without a tool call in progress nothing is open.
LEMMA NothingOpen ==
  ASSUME Placed, Owned, \A i \in Tools : tool[i].at = "idle" /\ tool[i].claim = NoClaim,
         NEW c \in ClaimId
  PROVE  ~Open(c)
<1>1. \A k \in Tools : Open(c) => book[k] # c
  BY DEF Owned
<1> QED
  BY <1>1 DEF Placed, ClaimId, NoClaim

LEMMA KeptEnd ==
  ASSUME Base, Kept, Observe, EndBegin \/ EndStep \/ EndKilled
  PROVE  Kept'
<1> SUFFICES ASSUME Calm'
             PROVE  (Placed /\ Owned /\ (\A j \in Tools : InBook(tool[j], book)) /\ Copies)'
  BY DEF Kept, Calm, Placed, Owned, InBook, Copied, Copies
<1>1. /\ Calm /\ Placed /\ Owned /\ (\A j \in Tools : InBook(tool[j], book)) /\ Copies
  BY CalmBefore
<1>2. ASSUME UNCHANGED <<harness, book, tool>>, \A c \in ClaimId : Open(c)' => Open(c)
      PROVE  (Placed /\ Owned /\ (\A j \in Tools : InBook(tool[j], book)) /\ Copies)'
  <2>1. Placed' /\ Owned'
    BY <1>1, <1>2 DEF Placed, Owned
  <2>2. (\A j \in Tools : InBook(tool[j], book))' /\ Copies'
    BY <1>1, <1>2 DEF InBook, Copies, Copied, InHook
  <2> QED
    BY <2>1, <2>2
<1>3. CASE EndBegin
  BY <1>2, <1>3, OpenStays DEF EndBegin
<1>4. ASSUME NEW k \in Tools, EndRelease(k)
      PROVE  (Placed /\ Owned /\ (\A j \in Tools : InBook(tool[j], book)) /\ Copies)'
  <2>1. UNCHANGED <<harness, book, tool>> /\ ReleaseClaim(EndBook[k]) /\ EndBook[k] # NoClaim
    BY <1>4 DEF EndRelease
  <2>2. EndBook \in Book
    BY DEF EndBook, Base, TypeOK, Ender
  <2>3. PICK r \in ClaimId : r = EndBook[k]
    BY <2>1, <2>2 DEF Book
  <2>4. NoneComes
    BY <2>1, <2>3, ReleaseDoesClaims DEF Base
  <2> QED
    BY <1>2, <2>1, <2>4 DEF NoneComes
<1>5. CASE EndFinish
  <2>1. \A i \in Tools : tool[i].at = "idle" /\ tool[i].claim = NoClaim
    BY <1>1, <1>5, EnderAlone DEF EndFinish, Calm
  <2>2. \A i \in Tools : tool'[i] = tool[i]
    BY <1>5, <2>1, EndFinishDoes
  <2>3. \A c \in ClaimId : ~Open(c)'
    <3>1. \A c : Open(c)' <=> Open(c)
      BY <1>5, OpenStays DEF EndFinish
    <3> QED
      BY <1>1, <2>1, <3>1, NothingOpen
  <2>4. Placed' /\ Owned'
    BY <2>3 DEF Placed, Owned
  <2>5. (\A j \in Tools : InBook(tool[j], book))' /\ Copies'
    BY <2>1, <2>2 DEF InBook, Copies, InHook, PostHook
  <2> QED
    BY <2>4, <2>5
<1>6. CASE EndKilled
  BY <1>2, <1>6, OpenStays DEF EndKilled
<1> QED
  BY <1>3, <1>4, <1>5, <1>6 DEF EndStep

----------------------------------------------------------------------------
\* The invariant, and what follows from it.

LEMMA Initially == Init => HInv
<1> SUFFICES ASSUME Init PROVE HInv
  OBVIOUS
<1>1. Base
  BY InitBase
<1>2. Covered
  BY AtFirst DEF Covered
<1>3. Timed
  BY AtFirst DEF Timed, Init
<1>4. Kept
  BY AtFirst DEF Kept, Open, InHook, PostHook
<1> QED
  BY <1>1, <1>2, <1>3, <1>4 DEF HInv

LEMMA Inductive == HInv /\ [Next]_vars => HInv'
<1> SUFFICES ASSUME HInv, [Next]_vars PROVE HInv'
  OBVIOUS
<1>1. Base /\ Covered /\ Timed /\ Kept /\ Base'
  BY BaseStep DEF HInv
<1>2. CASE Next
  <2>1. Observe
    BY <1>2 DEF Next
  <2>2. CASE \E i \in Tools : ToolStep(i)
    BY <1>1, <2>1, <2>2, CoveredStep, TimedStep, KeptStep DEF HInv
  <2>3. CASE EndBegin \/ EndStep \/ EndKilled
    BY <1>1, <2>1, <2>3, CoveredEnd, TimedEnd, KeptEnd DEF HInv
  <2> QED
    BY <1>2, <2>2, <2>3 DEF Next
<1>3. CASE UNCHANGED vars
  <2>1. Covered'
    BY <1>1, <1>3 DEF vars, Covered, Held
  <2>2. Timed'
    BY <1>1, <1>3 DEF vars, Timed, Held
  <2>3. Kept'
    BY <1>1, <1>3 DEF vars, Kept, Open, Held, InHook
  <2> QED
    BY <1>1, <2>1, <2>2, <2>3 DEF HInv
<1> QED
  BY <1>2, <1>3

LEMMA Invariant == Spec => []HInv
BY Initially, Inductive, PTL DEF Spec

\* The state of the hooks stays within its types, whatever they do to each other's books.
THEOREM TypeCorrect == Spec => []TypeOK
BY Invariant, PTL DEF HInv, Base

\* As long as no key is shared and no session ends under a tool, the claim of a running
\* tool stays in force: a hook that releases it would have named it under its own key
\* (hooks.ts:164-201, cursor.go:245-324).
THEOREM RunningToolCovered == Spec => []ClaimCoversTool
<1>1. HInv => ClaimCoversTool
  <2> SUFFICES ASSUME HInv, NEW i \in Tools, tool[i].at = "running", tool[i].claim # NoClaim,
                      ~shared, ~ended
               PROVE  status[tool[i].claim] # "released"
    BY DEF ClaimCoversTool
  <2>1. tool[i].claim \in ClaimId
    BY ToolFields DEF HInv, Base
  <2>2. tool[i].claim \in Held
    BY <2>1 DEF HInv, Covered
  <2> QED
    BY <2>2 DEF Held
<1> QED
  BY <1>1, Invariant, PTL

\* The hooks send no heartbeat for a claim that they have released, whatever keys are
\* shared and sessions end under tools: each timer is stopped before the release, and a
\* claim whose answer has just come is known to no other hook.  The exception is the
\* timer that starts while the session-end hook awaits its releases (hooks.ts:173-196).
THEOREM TimersStop == Spec => []TimersStopBeforeRelease
<1>1. HInv => TimersStopBeforeRelease
  BY DEF HInv, Timed, TimersStopBeforeRelease, Held
<1> QED
  BY <1>1, Invariant, PTL

\* A hook that runs to its end leaves no claim behind: what is in force is in the book or
\* with a tool call in progress, however the calls of different keys are interleaved
\* (hooks.ts:164-201, cursor.go:245-324).
THEOREM ClaimsTracked == Spec => []Tracked
<1>1. HInv => Tracked
  <2> SUFFICES ASSUME HInv, NEW c \in DOMAIN status, status[c] = "held", c \notin stray, Calm
               PROVE  c \in Recorded(book) \/ \E i \in Tools : Alive(i) /\ tool[i].claim = c
    BY DEF Tracked, Calm
  <2>1. c \in ClaimId /\ Open(c)
    <3>1. Len(status) \in Nat /\ DOMAIN status = 1..Len(status) /\ Len(status) <= MaxClaims
          /\ MaxClaims \in Nat
      BY HookConstants DEF HInv, Base, TypeOK
    <3>2. c \in ClaimId
      BY <3>1 DEF ClaimId
    <3> QED
      BY <3>2 DEF Open, Held
  <2>2. (\E k \in Tools : book[k] = c) \/ (\E i \in Tools : tool[i].claim = c)
    BY <2>1, KeptParts DEF HInv, Placed
  <2>3. c # NoClaim
    BY <2>1 DEF ClaimId, NoClaim
  <2>4. \A i \in Tools : tool[i].claim = c => Alive(i)
    BY <2>3 DEF HInv, Base, Place, Alive
  <2> QED
    BY <2>2, <2>3, <2>4 DEF Recorded
<1> QED
  BY <1>1, Invariant, PTL

----------------------------------------------------------------------------
\* What the session-end hook still has to release.

\* In the harnesses with a live map: every entry of the book is that of a call in
\* progress, and a call that is to delete its entry finds its own claim there or none.
Engaged ==
    harness # "cursor" /\ ~shared =>
        /\ \A k \in Tools : book[k] # NoClaim =>
               \E i \in Tools : /\ tool[i].at \in {"running", "release", "forget"}
                                /\ tool[i].key = k
        /\ \A i \in Tools : tool[i].at \in {"release", "forget"} =>
               book[tool[i].key] \in {NoClaim, tool[i].claim}

\* What was in the book when the hook began and is still open is under a key that it
\* has not seen yet.
Due ==
    ender.at = "releasing" /\ ~shared => \A c \in ender.due :
        /\ c \in Max
        /\ Open(c) => \E k \in Tools \ ender.seen : EndBook[k] = c

EInv == HInv /\ Engaged /\ Due

\* A step of a call that leaves the book as it is.
LEMMA EngagedTool ==
  ASSUME Engaged, NEW i \in Tools, Others(i), Observe, UNCHANGED <<harness, book>>,
         tool[i].at \in {"idle", "mail", "claim"}
             \/ (book[tool[i].key] = NoClaim /\ tool[i].at = "running")
             \/ (Goes(i, "release") \/ Goes(i, "forget")),
         tool'[i].at \in {"release", "forget"} =>
             book[tool'[i].key] \in {NoClaim, tool'[i].claim}
  PROVE  Engaged'
<1> SUFFICES ASSUME harness # "cursor", ~shared' PROVE
        /\ \A k \in Tools : book[k] # NoClaim =>
               \E j \in Tools : /\ tool'[j].at \in {"running", "release", "forget"}
                                /\ tool'[j].key = k
        /\ \A j \in Tools : tool'[j].at \in {"release", "forget"} =>
               book[tool'[j].key] \in {NoClaim, tool'[j].claim}
  BY DEF Engaged
<1>1. ~shared
  BY HistoryTold
<1>2. ASSUME NEW k \in Tools, book[k] # NoClaim
      PROVE  \E j \in Tools : /\ tool'[j].at \in {"running", "release", "forget"}
                              /\ tool'[j].key = k
  <2>1. PICK j \in Tools : tool[j].at \in {"running", "release", "forget"} /\ tool[j].key = k
    BY <1>1, <1>2 DEF Engaged
  <2>2. CASE j # i
    BY <2>1, <2>2 DEF Others
  <2>3. CASE j = i
    BY <1>2, <2>1, <2>3 DEF Goes
  <2> QED
    BY <2>2, <2>3
<1>3. ASSUME NEW j \in Tools, tool'[j].at \in {"release", "forget"}
      PROVE  book[tool'[j].key] \in {NoClaim, tool'[j].claim}
  BY <1>1, <1>3 DEF Engaged, Others
<1> QED
  BY <1>2, <1>3

LEMMA EngagedCursor ==
  ASSUME harness = "cursor", UNCHANGED harness PROVE Engaged'
BY DEF Engaged

LEMMA EngagedAnswered ==
  ASSUME Base, Engaged, Observe, NEW i \in Tools, ClaimAnswered(i)
  PROVE  Engaged'
<1> SUFFICES ASSUME harness # "cursor", ~shared' PROVE
        /\ \A k \in Tools : book'[k] # NoClaim =>
               \E j \in Tools : /\ tool'[j].at \in {"running", "release", "forget"}
                                /\ tool'[j].key = k
        /\ \A j \in Tools : tool'[j].at \in {"release", "forget"} =>
               book'[tool'[j].key] \in {NoClaim, tool'[j].claim}
  BY DEF Engaged, ClaimAnswered
<1>1. ~shared /\ ~Sharing
  BY HistoryTold DEF Base, History
<1>2. Others(i) /\ Goes(i, "running") /\ tool[i].at = "answer" /\ tool[i].key \in Tools
  BY ClaimAnsweredDoes, ToolFields DEF Base, ClaimAnswered
<1>3. \A k \in Tools \ {tool[i].key} : book'[k] = book[k]
  BY DEF ClaimAnswered, Base, TypeOK, Book
<1>4. ASSUME NEW k \in Tools, book'[k] # NoClaim
      PROVE  \E j \in Tools : /\ tool'[j].at \in {"running", "release", "forget"}
                              /\ tool'[j].key = k
  <2>1. CASE k = tool[i].key
    BY <1>2, <2>1 DEF Goes
  <2>2. CASE k # tool[i].key
    <3>1. PICK j \in Tools : tool[j].at \in {"running", "release", "forget"} /\ tool[j].key = k
      BY <1>1, <1>3, <1>4, <2>2 DEF Engaged
    <3> QED
      BY <1>2, <2>2, <3>1 DEF Others
  <2> QED
    BY <2>1, <2>2
<1>5. ASSUME NEW j \in Tools, tool'[j].at \in {"release", "forget"}
      PROVE  book'[tool'[j].key] \in {NoClaim, tool'[j].claim}
  <2>1. j # i /\ tool'[j] = tool[j]
    BY <1>2, <1>5 DEF Goes, Others
  <2>2. tool[j].key # tool[i].key /\ tool[j].key \in Tools
    BY <1>1, <1>2, <1>5, <2>1, KeysApart, ToolFields DEF Base
  <2> QED
    BY <1>1, <1>3, <1>5, <2>1, <2>2 DEF Engaged
<1> QED
  BY <1>4, <1>5

LEMMA EngagedForget ==
  ASSUME Base, Engaged, Observe, NEW i \in Tools, Forget(i)
  PROVE  Engaged'
<1> SUFFICES ASSUME harness # "cursor", ~shared' PROVE
        /\ \A k \in Tools : book'[k] # NoClaim =>
               \E j \in Tools : /\ tool'[j].at \in {"running", "release", "forget"}
                                /\ tool'[j].key = k
        /\ \A j \in Tools : tool'[j].at \in {"release", "forget"} =>
               book'[tool'[j].key] \in {NoClaim, tool'[j].claim}
  BY DEF Engaged, Forget
<1>1. ~shared
  BY HistoryTold
<1>2. Others(i) /\ Ends(i) /\ tool[i].key \in Tools
  BY ReturnDoes, ToolFields DEF Base, Forget
<1>3. /\ book'[tool[i].key] = NoClaim
      /\ \A k \in Tools \ {tool[i].key} : book'[k] = book[k]
  BY <1>2 DEF Forget, Base, TypeOK, Book
<1>4. ASSUME NEW k \in Tools, book'[k] # NoClaim
      PROVE  \E j \in Tools : /\ tool'[j].at \in {"running", "release", "forget"}
                              /\ tool'[j].key = k
  <2>1. k # tool[i].key /\ book[k] # NoClaim
    BY <1>2, <1>3, <1>4
  <2>2. PICK j \in Tools : tool[j].at \in {"running", "release", "forget"} /\ tool[j].key = k
    BY <1>1, <2>1 DEF Engaged
  <2> QED
    BY <1>2, <2>1, <2>2 DEF Others
<1>5. ASSUME NEW j \in Tools, tool'[j].at \in {"release", "forget"}
      PROVE  book'[tool'[j].key] \in {NoClaim, tool'[j].claim}
  <2>1. j # i /\ tool'[j] = tool[j] /\ tool[j].key \in Tools
    BY <1>2, <1>5, ToolFields DEF Ends, Others, Base
  <2> QED
    BY <1>1, <1>2, <1>3, <1>5, <2>1 DEF Engaged
<1> QED
  BY <1>4, <1>5

LEMMA EngagedStep ==
  ASSUME Base, Engaged, Observe, NEW i \in Tools, ToolStep(i)
  PROVE  Engaged'
<1>1. ASSUME NEW key \in Tools, PreToolUse(i, key) \/ CursorPreToolUse(i, key)
      PROVE  Engaged'
  <2>1. CASE harness = "cursor"
    BY <1>1, <2>1, EngagedCursor DEF PreToolUse, CursorPreToolUse
  <2>2. CASE harness # "cursor"
    <3>1. Others(i) /\ tool[i].at = "idle" /\ tool'[i].at = "mail"
      BY <1>1, <2>2, BeginDoes DEF Base
    <3> QED
      BY <1>1, <3>1, EngagedTool DEF PreToolUse, CursorPreToolUse
  <2> QED
    BY <2>1, <2>2
<1>2. CASE CheckCriticalMailbox(i)
  <2>1. Others(i) /\ tool'[i].at \in {"claim", "idle"}
    BY <1>2, ReturnDoes, StepDoes DEF CheckCriticalMailbox, PreHook, Base, Goes, Ends
  <2> QED
    BY <1>2, <2>1, EngagedTool DEF CheckCriticalMailbox
<1>3. CASE Claim(i)
  <2>1. Others(i) /\ tool[i].at = "claim" /\ tool'[i].at \notin {"release", "forget"}
    BY <1>3, ClaimDoes DEF Base, Granted, Goes, Ends
  <2> QED
    BY <1>3, <2>1, EngagedTool DEF Claim
<1>4. CASE ClaimAnswered(i)
  BY <1>4, EngagedAnswered
<1>5. CASE Truncate(i)
  <2>1. harness = "cursor" /\ UNCHANGED harness
    BY <1>5 DEF Truncate, Base, Place
  <2> QED
    BY <2>1, EngagedCursor
<1>6. CASE SaveCursorState(i)
  <2>1. harness = "cursor" /\ UNCHANGED harness
    BY <1>6 DEF SaveCursorState, Writing, Base, Place
  <2> QED
    BY <2>1, EngagedCursor
<1>7. CASE CursorPostToolUse(i)
  BY <1>7, EngagedCursor DEF CursorPostToolUse
<1>8. CASE PostToolUse(i)
  <2>1. UNCHANGED <<harness, book>> /\ harness # "cursor"
    BY <1>8 DEF PostToolUse
  <2>2. /\ Others(i) /\ tool[i].at = "running"
        /\ \/ book[tool[i].key] = NoClaim /\ Ends(i)
           \/ Goes(i, "release") /\ tool'[i].claim = book[tool[i].key]
    BY <1>8, <2>1, PostDoes DEF Base
  <2> QED
    BY <2>1, <2>2, EngagedTool DEF Goes, Ends
<1>9. CASE Release(i)
  <2>1. UNCHANGED <<harness, book>>
    BY <1>9 DEF Release
  <2>2. CASE harness = "cursor"
    BY <2>1, <2>2, EngagedCursor
  <2>3. CASE harness # "cursor"
    <3>1. /\ Others(i) /\ tool[i].at = "release" /\ tool'[i].claim = tool[i].claim
          /\ Goes(i, "forget")
      BY <1>9, <2>3, ReleaseDoes DEF Base
    <3>2. shared \/ book[tool[i].key] \in {NoClaim, tool[i].claim}
      BY <2>3, <3>1 DEF Engaged
    <3>3. CASE shared
      BY <3>3, HistoryTold DEF Engaged
    <3>4. CASE book[tool[i].key] \in {NoClaim, tool[i].claim}
      BY <2>1, <3>1, <3>4, EngagedTool DEF Goes
    <3> QED
      BY <3>2, <3>3, <3>4
  <2> QED
    BY <2>2, <2>3
<1>10. CASE Forget(i)
  BY <1>10, EngagedForget
<1>11. CASE Killed(i)
  BY <1>11, EngagedCursor DEF Killed
<1> QED
  BY <1>1, <1>2, <1>3, <1>4, <1>5, <1>6, <1>7, <1>8, <1>9, <1>10, <1>11 DEF ToolStep

LEMMA EngagedEnd ==
  ASSUME Base, Base', Engaged, Observe, EndBegin \/ EndStep \/ EndKilled
  PROVE  Engaged'
<1>1. CASE EndBegin \/ EndKilled \/ \E k \in Tools : EndRelease(k)
  <2>1. UNCHANGED <<harness, book, tool>>
    BY <1>1 DEF EndBegin, EndKilled, EndRelease
  <2> QED
    BY <2>1, HistoryTold DEF Engaged
<1>2. CASE EndFinish
  <2>1. \A k \in Tools : book'[k] = NoClaim
    BY <1>2, EndFinishDoes
  <2>2. \A i \in Tools : tool'[i].key \in Tools
    BY ToolFields DEF Base, TypeOK, Tool
  <2> QED
    BY <2>1, <2>2 DEF Engaged
<1> QED
  BY <1>1, <1>2 DEF EndStep

\* A step of a call: no claim comes back, and no entry of an open claim is lost.
LEMMA DueTool ==
  ASSUME Base, Due, Observe, UNCHANGED harness, ender' = ender \/ EnderForgets,
         Len(status') \in Nat, Len(status) <= Len(status'),
         \A c \in Max : Open(c)' => Open(c),
         \A k \in Tools : harness # "cursor" /\ ~shared =>
             book'[k] = book[k] \/ ~Open(book[k])
  PROVE  Due'
<1> SUFFICES ASSUME ender.at = "releasing", ~shared', NEW c \in ender.due
             PROVE  /\ c \in 1..Len(status')
                    /\ Open(c)' => \E k \in Tools \ ender'.seen : EndBook'[k] = c
  BY EnderSees DEF Due, Max, Base
<1>1. ~shared
  BY HistoryTold
<1>2. c \in Max /\ (Open(c) => \E k \in Tools \ ender.seen : EndBook[k] = c)
  BY <1>1 DEF Due
<1>3. c \in 1..Len(status')
  <2>1. Len(status) \in Nat
    BY DEF Base, TypeOK
  <2> QED
    BY <1>2, <2>1 DEF Max
<1>4. ASSUME Open(c)' PROVE \E k \in Tools \ ender'.seen : EndBook'[k] = c
  <2>1. PICK k \in Tools \ ender.seen : EndBook[k] = c
    BY <1>2, <1>4
  <2>2. Open(c)
    BY <1>2, <1>4
  <2>3. ender'.copy = ender.copy /\ ender'.seen \subseteq ender.seen
    BY EnderSees DEF Base
  <2>4. EndBook'[k] = c
    BY <1>1, <2>1, <2>2, <2>3 DEF EndBook
  <2> QED
    BY <2>1, <2>3, <2>4
<1> QED
  BY <1>3, <1>4

\* A claim in the table is one that can be named.
LEMMA MaxIsClaim == ASSUME TypeOK, NEW c \in Max PROVE c \in ClaimId
<1>1. Len(status) \in Nat /\ Len(status) <= MaxClaims /\ MaxClaims \in Nat
  BY HookConstants DEF TypeOK
<1> QED
  BY <1>1 DEF ClaimId, Max

LEMMA DueQuiet ==
  ASSUME Base, Due, Observe, UNCHANGED harness, NoneComes,
         ender' = ender \/ EnderForgets,
         \A k \in Tools : harness # "cursor" /\ ~shared =>
             book'[k] = book[k] \/ ~Open(book[k])
  PROVE  Due'
<1>1. Len(status') = Len(status) /\ Len(status) \in Nat
  BY DEF NoneComes, Base, TypeOK
<1>2. \A c \in Max : Open(c)' => Open(c)
  BY MaxIsClaim DEF NoneComes, Base
<1> QED
  BY <1>1, <1>2, DueTool

LEMMA DueClaim ==
  ASSUME Base, Due, Observe, NEW i \in Tools, Claim(i)
  PROVE  Due'
<1>1. UNCHANGED <<harness, ender, book>>
  BY DEF Claim
<1>2. CASE UNCHANGED <<status, stray>>
  BY <1>1, <1>2, NoneChanges, DueQuiet DEF Base, TypeOK
<1>3. CASE /\ Len(status) < MaxClaims /\ status' = Append(status, "held")
           /\ stray' \in {stray, stray \cup {Len(status) + 1}}
  <2>1. /\ Len(status') = Len(status) + 1 /\ Len(status) \in Nat
        /\ \A c \in ClaimId : Open(c)' => Open(c) \/ c = Len(status) + 1
    BY <1>3, GrantDoesClaims DEF Base, TypeOK
  <2>2. \A c \in Max : Open(c)' => Open(c)
    BY <2>1, MaxIsClaim DEF Base, Max
  <2> QED
    BY <1>1, <2>1, <2>2, DueTool
<1>4. \/ UNCHANGED <<status, stray>>
      \/ /\ Len(status) < MaxClaims /\ status' = Append(status, "held")
         /\ stray' \in {stray, stray \cup {Len(status) + 1}}
  BY ClaimDoes DEF Base, Granted
<1> QED
  BY <1>2, <1>3, <1>4

LEMMA DueStep ==
  ASSUME Base, Engaged, Due, Observe, NEW i \in Tools, ToolStep(i)
  PROVE  Due'
<1>1. ASSUME UNCHANGED <<harness, status>>, stray' = stray, ender' = ender \/ EnderForgets,
             \A k \in Tools : harness # "cursor" /\ ~shared =>
                 book'[k] = book[k] \/ ~Open(book[k])
      PROVE  Due'
  <2>1. NoneComes
    BY <1>1, NoneChanges DEF Base, TypeOK
  <2> QED
    BY <1>1, <2>1, DueQuiet
<1>2. ASSUME NEW key \in Tools, PreToolUse(i, key) \/ CursorPreToolUse(i, key)
      PROVE  Due'
  BY <1>1, <1>2 DEF PreToolUse, CursorPreToolUse
<1>3. CASE CheckCriticalMailbox(i)
  BY <1>1, <1>3 DEF CheckCriticalMailbox
<1>4. CASE Claim(i)
  BY <1>4, DueClaim
<1>5. CASE ClaimAnswered(i)
  <2>1. UNCHANGED <<harness, ender, status, stray>> /\ tool[i].at = "answer"
        /\ book' = [book EXCEPT ![tool[i].key] = tool[i].claim]
    BY <1>5 DEF ClaimAnswered
  <2>2. ASSUME NEW k \in Tools, harness # "cursor", ~shared, book'[k] # book[k]
        PROVE  ~Open(book[k])
    <3>1. k = tool[i].key
      BY <2>1, <2>2 DEF Base, TypeOK, Book
    <3>2. ASSUME book[k] # NoClaim PROVE FALSE
      <4>1. PICK j \in Tools : tool[j].at \in {"running", "release", "forget"} /\ tool[j].key = k
        BY <2>2, <3>2 DEF Engaged
      <4>2. ~Sharing
        BY <2>2 DEF Base, History
      <4> QED
        BY <2>1, <3>1, <4>1, <4>2, KeysApart
    <3> QED
      BY <3>2 DEF Open, Held, NoClaim, Base, TypeOK
  <2> QED
    BY <1>1, <2>1, <2>2
<1>6. CASE Truncate(i)
  BY <1>1, <1>6 DEF Truncate
<1>7. CASE SaveCursorState(i)
  <2>1. harness = "cursor"
    BY <1>7 DEF SaveCursorState, Writing, Base, Place
  <2> QED
    BY <1>1, <1>7, <2>1 DEF SaveCursorState
<1>8. CASE PostToolUse(i) \/ CursorPostToolUse(i)
  BY <1>1, <1>8 DEF PostToolUse, CursorPostToolUse
<1>9. CASE Release(i)
  <2>1. UNCHANGED <<harness, ender, book>> /\ tool[i].at = "release"
        /\ ReleaseClaim(tool[i].claim)
    BY <1>9 DEF Release
  <2>2. tool[i].claim \in ClaimId
    BY <2>1, ToolFields DEF Base, Place, PostHook
  <2>3. NoneComes
    BY <2>1, <2>2, ReleaseDoesClaims DEF Base
  <2> QED
    BY <2>1, <2>3, DueQuiet
<1>10. CASE Forget(i)
  <2>1. UNCHANGED <<harness, status, stray>> /\ tool[i].at = "forget"
        /\ book' = [book EXCEPT ![tool[i].key] = NoClaim]
        /\ ender' = [ender EXCEPT !.seen = @ \ {tool[i].key}]
    BY <1>10 DEF Forget
  <2>2. ASSUME NEW k \in Tools, harness # "cursor", ~shared, book'[k] # book[k]
        PROVE  ~Open(book[k])
    <3>1. k = tool[i].key
      BY <2>1, <2>2 DEF Base, TypeOK, Book
    <3>2. book[k] \in {NoClaim, tool[i].claim}
      BY <2>1, <2>2, <3>1 DEF Engaged
    <3>3. ~Open(NoClaim)
      BY DEF Open, Held, NoClaim, Base, TypeOK
    <3>4. book[k] \in ClaimId => ~Open(book[k])
      BY <2>1, <3>2 DEF Base, Through, ClaimId, NoClaim
    <3>5. book[k] \in ClaimId \cup {NoClaim}
      BY DEF Base, TypeOK, Book
    <3> QED
      BY <3>3, <3>4, <3>5
  <2>3. EnderForgets
    BY <2>1, ToolFields DEF EnderForgets, Base
  <2> QED
    BY <1>1, <2>1, <2>2, <2>3
<1>11. CASE Killed(i)
  <2>1. UNCHANGED <<harness, ender, book, status>> /\ stray' = stray \cup ({tool[i].claim} \cap Held)
    BY <1>11 DEF Killed
  <2>2. NoneComes
    BY <2>1, NoneChanges DEF Base, TypeOK
  <2> QED
    BY <2>1, <2>2, DueQuiet
<1> QED
  BY <1>2, <1>3, <1>4, <1>5, <1>6, <1>7, <1>8, <1>9, <1>10, <1>11 DEF ToolStep

LEMMA DueEnd ==
  ASSUME Base, Due, Observe, EndBegin \/ EndStep \/ EndKilled
  PROVE  Due'
<1>1. CASE EndBegin
  <2>1. /\ ender'.due = Recorded(book) /\ ender'.seen = {} /\ UNCHANGED <<harness, book, status>>
        /\ harness = "cursor" => ender'.copy = book
    BY <1>1 DEF EndBegin
  <2>2. Recorded(book) \subseteq 1..Len(status)
    BY DEF Base, TypeOK
  <2>3. \A k \in Tools : EndBook'[k] = book[k]
    BY <2>1 DEF EndBook
  <2>4. \A c \in Recorded(book) : \E k \in Tools : book[k] = c
    BY DEF Recorded
  <2> QED
    BY <2>1, <2>2, <2>3, <2>4 DEF Due, Max
<1>2. ASSUME NEW k \in Tools, EndRelease(k) PROVE Due'
  <2>1. /\ UNCHANGED <<harness, book>> /\ ReleaseClaim(EndBook[k]) /\ EndBook[k] # NoClaim
        /\ ender.at = "releasing"
    BY <1>2 DEF EndRelease
  <2>2. EndBook \in Book /\ ender \in Ender
    BY DEF EndBook, Base, TypeOK, Ender
  <2>3. /\ ender'.seen = ender.seen \cup {k} /\ ender'.due = ender.due
        /\ ender'.copy = ender.copy
    BY <1>2, <2>2 DEF EndRelease, Ender
  <2>4. PICK r \in ClaimId : r = EndBook[k]
    BY <2>1, <2>2 DEF Book
  <2>5. NoneComes /\ ~Open(r)'
    BY <2>1, <2>4, ReleaseDoesClaims DEF Base
  <2>6. EndBook' = EndBook
    BY <2>1, <2>3 DEF EndBook
  <2> SUFFICES ASSUME ~shared', NEW c \in ender.due
               PROVE  /\ c \in 1..Len(status')
                      /\ Open(c)' => \E l \in Tools \ ender'.seen : EndBook[l] = c
    BY <2>3, <2>6 DEF Due, Max
  <2>7. c \in Max /\ (Open(c) => \E l \in Tools \ ender.seen : EndBook[l] = c)
    BY <2>1, HistoryTold DEF Due
  <2>8. Len(status') = Len(status) /\ (Open(c)' => Open(c))
    BY <2>5, <2>7, MaxIsClaim DEF NoneComes, Base
  <2>9. ASSUME Open(c)' PROVE \E l \in Tools \ ender'.seen : EndBook[l] = c
    <3>1. PICK l \in Tools \ ender.seen : EndBook[l] = c
      BY <2>7, <2>8, <2>9
    <3>2. c # r
      BY <2>5, <2>9
    <3> QED
      BY <2>3, <2>4, <3>1, <3>2
  <2> QED
    BY <2>7, <2>8, <2>9 DEF Max
<1>3. CASE EndFinish
  BY <1>3, EndFinishDoes DEF Due
<1>4. CASE EndKilled
  BY <1>4 DEF EndKilled, IdleEnder, Due
<1> QED
  BY <1>1, <1>2, <1>3, <1>4 DEF EndStep

LEMMA EndInvariant == Spec => []EInv
<1>1. Init => EInv
  <2> SUFFICES ASSUME Init PROVE EInv
    OBVIOUS
  <2>1. HInv
    BY Initially
  <2>2. Engaged /\ Due
    BY AtFirst DEF Engaged, Due
  <2> QED
    BY <2>1, <2>2 DEF EInv
<1>2. EInv /\ [Next]_vars => EInv'
  <2> SUFFICES ASSUME EInv, [Next]_vars PROVE EInv'
    OBVIOUS
  <2>1. HInv' /\ Base /\ Base' /\ Engaged /\ Due
    BY Inductive DEF EInv, HInv
  <2>2. CASE Next
    <3>1. Observe
      BY <2>2 DEF Next
    <3>2. Engaged' /\ Due'
      BY <2>1, <2>2, <3>1, EngagedStep, EngagedEnd, DueStep, DueEnd DEF Next
    <3> QED
      BY <2>1, <3>2 DEF EInv
  <2>3. CASE UNCHANGED vars
    BY <2>1, <2>3 DEF vars, EInv, Engaged, Due, Open, Held, EndBook, Max
  <2> QED
    BY <2>2, <2>3
<1> QED
  BY <1>1, <1>2, PTL DEF Spec

\* The end of a session releases what was in the book when it began, or has tried in
\* vain, although tool calls go on adding and deleting entries meanwhile, unless two
\* calls had one key or Cursor killed the hook: what it has not seen yet is all that it
\* still has to release (hooks.ts:193-200, cursor.go:314-322).
THEOREM EndReleasesAll == Spec => EndReleasesBook
<1> DEFINE Done == EndFinish /\ ~shared
                       => \A c \in ender.due : status[c] # "held" \/ c \in stray
<1>1. EInv /\ [Next]_vars => [Done]_vars
  <2> SUFFICES ASSUME EInv, EndFinish, ~shared, NEW c \in ender.due
               PROVE  status[c] # "held" \/ c \in stray
    BY DEF Done
  <2>1. ender.at = "releasing" /\ \A k \in Tools \ ender.seen : EndBook[k] = NoClaim
    BY DEF EndFinish
  <2>2. c \in Max /\ (Open(c) => \E k \in Tools \ ender.seen : EndBook[k] = c)
    BY <2>1 DEF EInv, Due
  <2>3. c # NoClaim
    BY <2>2 DEF NoClaim, EInv, HInv, Base, TypeOK, Max
  <2>4. ~Open(c)
    BY <2>1, <2>2, <2>3
  <2> QED
    BY <2>2, <2>4 DEF Open, Held, EInv, HInv, Base, TypeOK, Max
<1> QED
  BY <1>1, EndInvariant, PTL DEF Spec, EndReleasesBook, Done
=============================================================================
