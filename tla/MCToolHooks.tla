---------------------------- MODULE MCToolHooks ----------------------------
(***************************************************************************)
(* Hooks with more claims than tool calls, so that a key is used again after   *)
(* every way in which a tool call can end.                                    *)
(***************************************************************************)
EXTENDS ToolHooks

CONSTANT Disturbed  \* bound: claims up to which keys are shared and sessions end under tools

\* With more claims than that no key was shared and no session ended under a tool: both
\* history variables stay true once they are, ClaimCoversTool and Tracked then say
\* nothing, and TimersStopBeforeRelease and EndReleasesBook are checked up to the bound.
LaterClaimsApart == Len(status) <= Disturbed \/ (~shared /\ ~ended)

\* Of Cursor's states in which a key was shared and a session ended under a tool, only
\* EndFinishes says anything, and there it goes through a copy that nobody changes.
CursorOneDisturbance == harness = "cursor" => ~(shared /\ ended)
=============================================================================
