----------------------------- MODULE ToolHooks -----------------------------
(***************************************************************************)
(* The hooks that claim a resource before an agent uses a tool and release it  *)
(* afterwards: the Cursor hooks, each a process that reads, changes and        *)
(* rewrites the session's state file; the hooks of the TypeScript SDK, async   *)
(* functions over one map, with heartbeat timers; and the opencode and pi      *)
(* extensions, the same without timers and with a key per tool call.           *)
(*                                                                           *)
(* The book is the map from tool call to claim: the state file of Cursor, the  *)
(* map activeClaims of the others.  What the server does is one step: it       *)
(* grants or refuses the claim, is out of reach, or its answer is lost.        *)
(*                                                                           *)
(* A definition whose name ends in an underscored word is a faulty variant of *)
(* the one it precedes.                                                      *)
(*                                                                           *)
(* Sources: cmd/hearsay/cursor.go, sdk/typescript/src/hooks.ts and client.ts,  *)
(* sdk/opencode-extension, sdk/pi-extension.                                 *)
(***************************************************************************)
EXTENDS Naturals, Sequences, FiniteSets

CONSTANTS
  Harnesses,  \* the integrations considered
  Modes,      \* what is to happen on a conflict
  Tools,      \* tool calls that can be in progress at once
  MaxClaims,  \* bound: claims ever granted
  NamesAgree  \* whether the server reads the fields of a claim as the clients write
              \* them; that of this repository does not

ASSUME HookConstants ==
    /\ Harnesses \subseteq {"cursor", "sdk", "extension"}
    /\ Modes \subseteq {"block", "warn", "locked"}
    /\ MaxClaims \in Nat /\ NamesAgree \in BOOLEAN

VARIABLES
  harness,     \* the integration; no action changes it
  mode,        \* its conflict mode; "locked" is "warn" with a locking server
  book,        \* tool call key -> claim
  file,        \* whether the state file can be parsed
  timers,      \* the claims with a heartbeat timer
  status,      \* of each claim that was granted: held, until the hooks release it
  stray,       \* history: held claims whose grant or release the hooks did not learn of
  tool,        \* what each tool call is doing
  ender,       \* the session-end hook
  shared,      \* history: two tool calls had one key at once
  ended,       \* history: a session ended while a tool call was in progress
  overlapped,  \* history: two Cursor processes ran at once, or one was killed writing
  late         \* history: the timers that were started while a session ended

vars == <<harness, mode, book, file, timers, status, stray, tool, ender, shared, ended,
          overlapped, late>>

NoClaim == 0
ClaimId == 1..MaxClaims
Book == [Tools -> ClaimId \cup {NoClaim}]
NoBook == [k \in Tools |-> NoClaim]
Recorded(b) == {b[k] : k \in Tools} \ {NoClaim}
Held == {c \in DOMAIN status : status[c] = "held"}

\* A tool call: before the tool, the tool itself, and after it; in Cursor a copy
\* of the book.
PreHook == {"mail", "claim", "answer", "save", "write"}
PostHook == {"release", "forget", "unsave", "unwrite"}
Tool == [at : {"idle", "running"} \cup PreHook \cup PostHook, key : Tools,
         claim : ClaimId \cup {NoClaim}, copy : Book, refused : BOOLEAN]

Ender == [at : {"idle", "releasing"}, seen : SUBSET Tools, copy : Book, due : SUBSET ClaimId]

IdleEnder == [at |-> "idle", seen |-> {}, copy |-> NoBook, due |-> {}]

\* Types; only the SDK has timers, and a torn state file is Cursor's.
TypeOK ==
    /\ harness \in Harnesses /\ mode \in Modes
    /\ book \in Book
    /\ file \in {"ok", "torn"} /\ (file = "torn" => harness = "cursor")
    /\ status \in Seq({"held", "released"}) /\ Len(status) <= MaxClaims
    /\ timers \subseteq DOMAIN status /\ (timers # {} => harness = "sdk")
    /\ stray \subseteq Held
    /\ Recorded(book) \subseteq DOMAIN status
    /\ tool \in [Tools -> Tool]
    /\ ender \in Ender
    /\ shared \in BOOLEAN /\ ended \in BOOLEAN /\ overlapped \in BOOLEAN
    /\ late \subseteq timers

----------------------------------------------------------------------------
IdleTool(i) == [at |-> "idle", key |-> i, claim |-> NoClaim, copy |-> NoBook,
                refused |-> FALSE]

Alive(i) == tool[i].at # "idle"
InHook(i) == tool[i].at \notin {"idle", "running"}
Writing(i) == tool[i].at \in {"write", "unwrite"}

Set(i, record) == tool' = [tool EXCEPT ![i] = record]
Step(i, at) == Set(i, [tool[i] EXCEPT !.at = at])
Return(i) == Set(i, IdleTool(i))

\* stableCallId hashes the tool and its input; the extensions are given a unique id.
KeysOf(i) == IF harness \in {"sdk", "cursor"} THEN Tools ELSE {i}

\* The tool is about to run: the mailbox is asked.
PreToolUse(i, key) ==
    /\ tool[i].at = "idle" /\ harness # "cursor"
    /\ key \in KeysOf(i)
    /\ Set(i, [IdleTool(i) EXCEPT !.key = key, !.at = "mail"])
    /\ UNCHANGED <<harness, mode, book, file, timers, status, stray, ender>>

\* A critical message stops the tool; a mailbox that cannot be read does not.
CheckCriticalMailbox(i) ==
    /\ tool[i].at = "mail"
    /\ Step(i, "claim") \/ Return(i)
    /\ UNCHANGED <<harness, mode, book, file, timers, status, stray, ender>>

\* loadCursorState: a file that is not there is an empty book, and one that cannot
\* be read lets the tool run.
CursorPreToolUse(i, key) ==
    /\ tool[i].at = "idle" /\ harness = "cursor"
    /\ key \in KeysOf(i)
    /\ Set(i, IF file = "ok"
              THEN [IdleTool(i) EXCEPT !.key = key, !.at = "claim", !.copy = book]
              ELSE [IdleTool(i) EXCEPT !.key = key, !.at = "running"])
    /\ UNCHANGED <<harness, mode, book, file, timers, status, stray, ender>>

\* Whether a tool goes on after a conflict.  In the SDK the server's lock decides first.
SdkAllows == mode = "warn"
ExtensionAllows == mode # "block"

\* Client.Claim returns a conflict as an error, and the hook takes every error for
\* an outage: the branch on onConflict is not reached.
CursorAllows == TRUE

Allows == CASE harness = "sdk" -> SdkAllows
            [] harness = "extension" -> ExtensionAllows
            [] OTHER -> CursorAllows

\* Variant: the answer of a refusal is used as if it named a claim.
Claim_unchecked(i) ==
    /\ tool[i].at = "claim"
    /\ Len(status) < MaxClaims
    /\ Set(i, IF harness = "cursor" THEN [tool[i] EXCEPT !.at = "running"]
              ELSE [tool[i] EXCEPT !.at = "answer", !.claim = Len(status) + 1])
    /\ UNCHANGED <<harness, mode, book, file, timers, status, stray, ender>>

\* The SDK and the extensions write agent_id and resource_uri (client.ts:47-54), the
\* server decodes into ClaimRequest, whose fields AgentID and ResourceURI have no json
\* tags (client.go:15-23), and answers 400 to a claim of no agent (server.go:69-78):
\* over HTTP none is granted or refused.  Cursor's hooks call Client.Claim themselves.
IsRead == harness = "cursor" \/ NamesAgree

\* POST /claim, or Client.Claim in the process of the hook.
Claim(i) ==
    /\ tool[i].at = "claim"
    /\ \/ /\ IsRead /\ Len(status) < MaxClaims
          /\ status' = Append(status, "held")
          /\ LET new == Len(status) + 1
             IN \/ /\ Set(i, IF harness = "cursor"
                             THEN [tool[i] EXCEPT !.claim = new, !.at = "save",
                                                  !.copy[tool[i].key] = new]
                             ELSE [tool[i] EXCEPT !.claim = new, !.at = "answer"])
                   /\ UNCHANGED stray
                \/ /\ stray' = stray \cup {new}
                   /\ Step(i, "running")
       \/ Step(i, "running") /\ UNCHANGED <<status, stray>>
       \/ /\ IsRead
          /\ IF Allows THEN Set(i, [tool[i] EXCEPT !.at = "running", !.refused = TRUE])
                       ELSE Return(i)
          /\ UNCHANGED <<status, stray>>
    /\ UNCHANGED <<harness, mode, book, file, timers, ender>>

\* The answer is there: it is recorded under the key, and the SDK starts a timer.
ClaimAnswered(i) ==
    /\ tool[i].at = "answer"
    /\ book' = [book EXCEPT ![tool[i].key] = tool[i].claim]
    /\ timers' = IF harness = "sdk" THEN timers \cup {tool[i].claim} ELSE timers
    /\ Set(i, [tool[i] EXCEPT !.at = "running"])
    /\ UNCHANGED <<harness, mode, file, status, stray, ender>>

\* saveCursorState: os.WriteFile truncates the file, and writes it; two that write
\* at once may leave a mixture.
Truncate(i) ==
    /\ tool[i].at \in {"save", "unsave"}
    /\ file' = "torn"
    /\ Step(i, IF tool[i].at = "save" THEN "write" ELSE "unwrite")
    /\ UNCHANGED <<harness, mode, book, timers, status, stray, ender>>

SaveCursorState(i) ==
    /\ Writing(i)
    /\ book' = tool[i].copy
    /\ file' \in IF \E j \in Tools \ {i} : Writing(j) THEN {"ok", "torn"} ELSE {"ok"}
    /\ IF tool[i].at = "write"
       THEN Set(i, [tool[i] EXCEPT !.at = "running", !.copy = NoBook])
       ELSE Return(i)
    /\ UNCHANGED <<harness, mode, timers, status, stray, ender>>

\* The claim that the call's key leads to in a book, which is to be released.
ReleaseNext(i, b) ==
    IF b[tool[i].key] = NoClaim THEN Return(i)
    ELSE Set(i, [tool[i] EXCEPT !.at = "release", !.claim = b[tool[i].key],
                                !.copy = IF harness = "cursor" THEN b ELSE NoBook])

\* Variants: the timer goes on until the session ends; any claim of the session is
\* taken for the call's own.
PostToolUse_timerStays(i) ==
    /\ tool[i].at = "running" /\ harness # "cursor"
    /\ ReleaseNext(i, book)
    /\ UNCHANGED <<harness, mode, book, file, timers, status, stray, ender>>

PostToolUse_anyClaim(i) ==
    /\ tool[i].at = "running" /\ harness # "cursor"
    /\ \E c \in Recorded(book) : /\ timers' = timers \ {c}
                                 /\ Set(i, [tool[i] EXCEPT !.at = "release", !.claim = c])
    /\ UNCHANGED <<harness, mode, book, file, status, stray, ender>>

\* The tool is done: the timer is stopped before the claim is released.
PostToolUse(i) ==
    /\ tool[i].at = "running" /\ harness # "cursor"
    /\ timers' = timers \ {book[tool[i].key]}
    /\ ReleaseNext(i, book)
    /\ UNCHANGED <<harness, mode, book, file, status, stray, ender>>

\* A file that cannot be read ends the hook: the claim stays.
CursorPostToolUse(i) ==
    /\ tool[i].at = "running" /\ harness = "cursor"
    /\ IF file = "ok" THEN ReleaseNext(i, book) ELSE Return(i)
    /\ UNCHANGED <<harness, mode, book, file, timers, status, stray, ender>>

\* POST /release, whose failure is ignored: such a claim is held until it lapses,
\* which is the subject of ClaimLog and not represented here.
ReleaseClaim(c) ==
    \/ status' = [status EXCEPT ![c] = "released"] /\ stray' = stray \ {c}
    \/ stray' = stray \cup ({c} \cap Held) /\ UNCHANGED status

\* Cursor deletes the key from its copy, which it is to save.
Released(i) == IF harness = "cursor"
               THEN [tool[i] EXCEPT !.at = "unsave", !.copy[tool[i].key] = NoClaim]
               ELSE [tool[i] EXCEPT !.at = "forget"]

\* Variant: the claim is forgotten and not released.
Release_forgotten(i) ==
    /\ tool[i].at = "release"
    /\ Set(i, Released(i))
    /\ UNCHANGED <<harness, mode, book, file, timers, status, stray, ender>>

Release(i) ==
    /\ tool[i].at = "release"
    /\ ReleaseClaim(tool[i].claim)
    /\ Set(i, Released(i))
    /\ UNCHANGED <<harness, mode, book, file, timers, ender>>

\* The key is deleted, whatever it leads to by now.  If it is set again it comes last
\* in the map, and the session-end hook meets it again.
Forget(i) ==
    /\ tool[i].at = "forget"
    /\ book' = [book EXCEPT ![tool[i].key] = NoClaim]
    /\ ender' = [ender EXCEPT !.seen = @ \ {tool[i].key}]
    /\ Return(i)
    /\ UNCHANGED <<harness, mode, file, timers, status, stray>>

\* Cursor gives a hook 5 seconds, and goes on without it.
Killed(i) ==
    /\ harness = "cursor"
    /\ InHook(i)
    /\ stray' = stray \cup ({tool[i].claim} \cap Held)
    /\ IF tool[i].at \in PreHook THEN Set(i, [IdleTool(i) EXCEPT !.key = tool[i].key,
                                                                 !.at = "running"])
                                 ELSE Return(i)
    /\ UNCHANGED <<harness, mode, book, file, timers, status, ender>>

----------------------------------------------------------------------------
\* The session ends, or the agent is idle (opencode).

\* The book the session-end hook goes through: Cursor's copy, or the live map.
EndBook == IF harness = "cursor" THEN ender.copy ELSE book

EndBegin ==
    /\ ender.at = "idle"
    /\ file = "ok"
    /\ ender' = [at |-> "releasing", seen |-> {}, due |-> Recorded(book),
                 copy |-> IF harness = "cursor" THEN book ELSE NoBook]
    /\ timers' = {}
    /\ UNCHANGED <<harness, mode, book, file, status, stray, tool>>

\* Variant: the same entry is released again and again.
EndRelease_again(k) ==
    /\ ender.at = "releasing"
    /\ k \notin ender.seen /\ EndBook[k] # NoClaim
    /\ ReleaseClaim(EndBook[k])
    /\ UNCHANGED <<harness, mode, book, file, timers, tool, ender>>

\* A map that is iterated shows the entries that come while the release is awaited;
\* an entry that is set anew keeps its place.
EndRelease(k) ==
    /\ ender.at = "releasing"
    /\ k \notin ender.seen /\ EndBook[k] # NoClaim
    /\ ReleaseClaim(EndBook[k])
    /\ ender' = [ender EXCEPT !.seen = @ \cup {k}]
    /\ UNCHANGED <<harness, mode, book, file, timers, tool>>

\* What is still being written goes with the file that is removed.
AfterRemove(i) == CASE tool[i].at = "write" -> [tool[i] EXCEPT !.at = "running", !.copy = NoBook]
                    [] tool[i].at = "unwrite" -> IdleTool(i)
                    [] OTHER -> tool[i]

\* Variant: the book is cleared while releases are still to come.
EndFinish_early ==
    /\ ender.at = "releasing"
    /\ book' = NoBook
    /\ file' = "ok"
    /\ ender' = IdleEnder
    /\ tool' = [i \in Tools |-> AfterRemove(i)]
    /\ UNCHANGED <<harness, mode, timers, status, stray>>

\* The file is removed, or the map cleared.
EndFinish ==
    /\ ender.at = "releasing"
    /\ \A k \in Tools : k \in ender.seen \/ EndBook[k] = NoClaim
    /\ book' = NoBook
    /\ file' = "ok"
    /\ ender' = IdleEnder
    /\ tool' = [i \in Tools |-> AfterRemove(i)]
    /\ UNCHANGED <<harness, mode, timers, status, stray>>

\* Cursor gives the session-end hook 5 seconds too (sdk/cursor/hooks.json:24-28): the
\* claims it has not come to stay in the file.
EndKilled ==
    /\ harness = "cursor"
    /\ ender.at = "releasing"
    /\ ender' = IdleEnder
    /\ UNCHANGED <<harness, mode, book, file, timers, status, stray, tool>>

----------------------------------------------------------------------------
Init ==
    /\ harness \in Harnesses /\ mode \in Modes
    /\ (harness = "cursor" => mode # "locked")
    /\ book = NoBook /\ file = "ok" /\ timers = {}
    /\ status = <<>> /\ stray = {}
    /\ tool = [i \in Tools |-> IdleTool(i)]
    /\ ender = IdleEnder
    /\ shared = FALSE /\ ended = FALSE /\ overlapped = FALSE /\ late = {}

Sharing == \E i, j \in Tools : i # j /\ Alive(i) /\ Alive(j) /\ tool[i].key = tool[j].key
Ending == ender.at # "idle" /\ \E i \in Tools : Alive(i)

Overlapping ==
    /\ harness = "cursor"
    /\ \/ \E i, j \in Tools : i # j /\ InHook(i) /\ InHook(j)
       \/ ender.at # "idle" /\ \E i \in Tools : InHook(i)
       \/ file = "torn" /\ ~\E i \in Tools : Writing(i)

\* A process begins, meets a state file that it cannot read, and ends or goes on.
MeetsTornFile == file = "torn" /\ \E i \in Tools : ~InHook(i) /\ tool'[i] # tool[i]

\* The history variables.
Observe == /\ shared' = (shared \/ Sharing')
           /\ ended' = (ended \/ Ending')
           /\ overlapped' = (overlapped \/ MeetsTornFile \/ Overlapping')
           /\ late' = timers' \cap (late \cup IF ender.at = "releasing"
                                              THEN timers' \ timers ELSE {})

ToolStep(i) ==
    \/ \E key \in Tools : PreToolUse(i, key) \/ CursorPreToolUse(i, key)
    \/ CheckCriticalMailbox(i) \/ Claim(i) \/ ClaimAnswered(i)
    \/ Truncate(i) \/ SaveCursorState(i)
    \/ PostToolUse(i) \/ CursorPostToolUse(i)
    \/ Release(i) \/ Forget(i) \/ Killed(i)

EndStep == (\E k \in Tools : EndRelease(k)) \/ EndFinish

Next ==
    /\ \/ \E i \in Tools : ToolStep(i)
       \/ EndBegin \/ EndStep \/ EndKilled
    /\ Observe

Spec == Init /\ [][Next]_vars

\* A session-end hook that can go on goes on; requests are answered or fail.
FairSpec == Spec /\ WF_vars(EndStep /\ Observe)

----------------------------------------------------------------------------
\* Properties.

\* As long as no two tool calls share a key and no session ends under a tool, a
\* tool that was granted its claim keeps it while it runs: no
\* other hook releases it, even when Cursor's processes overwrite each other's book
\* or are killed (hooks.ts:134-180, cursor.go:245-291).
ClaimCoversTool ==
    \A i \in Tools : tool[i].at = "running" /\ tool[i].claim # NoClaim
                        /\ ~shared /\ ~ended
        => status[tool[i].claim] # "released"

\* A claim in force is in the book or belongs to a tool call in progress, unless an
\* answer was lost, a key was shared, or Cursor's processes overlapped: a hook that
\* runs to its end leaves nothing behind (hooks.ts:164-201, cursor.go:245-324).
Tracked ==
    \A c \in DOMAIN status :
        status[c] = "held" => \/ c \in Recorded(book) \cup stray
                              \/ \E i \in Tools : Alive(i) /\ tool[i].claim = c
                              \/ shared \/ ended \/ overlapped

\* No heartbeat for a claim that the hooks released, also when keys are shared and
\* sessions end under tools: "stop BEFORE releasing" (hooks.ts:173-179,187-196).  The
\* one exception is a claim whose answer comes while the session-end hook awaits its
\* releases: the timers are cleared by then, and the one that starts now outlives the
\* release of the claim, which hooks.ts:187 means to avoid.
TimersStopBeforeRelease ==
    \A c \in timers : status[c] # "released" \/ c \in late

\* What hooks.ts:187 says, "Stop all heartbeats before releasing to avoid stale
\* heartbeats firing", of every claim.
NoStaleHeartbeat == \A c \in timers : status[c] # "released"

\* When the session-end hook is done, every claim that was in the book when it began
\* is out of force or could not be released, unless its key was shared or Cursor killed
\* the hook (hooks.ts:193-200, cursor.go:314-322).
EndReleasesBook ==
    [][EndFinish /\ ~shared
          => \A c \in ender.due : status[c] # "held" \/ c \in stray]_vars

\* The session-end hook comes to its end although tool calls delete the entries of the
\* map it goes through and set them again, unless they do so for ever: with each new
\* entry it has one more to release (hooks.ts:193-200, opencode-extension/hearsay.ts:259,
\* pi-extension/hearsay.ts:254).
EndFinishes ==
    <>[][~\E i \in Tools : ClaimAnswered(i)]_vars
        => ((ender.at = "releasing") ~> (ender.at = "idle"))

\* What the server of this repository makes of the SDK and the extensions: they are
\* never granted a claim and never told of a conflict.
NothingOverHTTP ==
    harness # "cursor" => status = <<>> /\ \A i \in Tools : ~tool[i].refused

\* What sdk/INTEGRATION_GUIDE.md:242-247 says of all integrations in mode "block":
\* "Tool is rejected".
BlockRejects == \A i \in Tools : tool[i].refused => mode # "block"
=============================================================================
