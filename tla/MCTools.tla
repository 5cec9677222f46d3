------------------------------ MODULE MCTools ------------------------------
(***************************************************************************)
(* The tools that work outside the process and keep state between calls:   *)
(* the file tools, the browser and the phone; and the pure parts of the    *)
(* system on their inputs (MCAlgorithms).  They share nothing, so each     *)
(* behaviour is about one of them, the subject, and the others rest.       *)
(*                                                                         *)
(* Files: two calls on a directory with one file, and one file beside it.  *)
(* Browser: two calls and two sessions under a limit of one.  Phone: two   *)
(* calls that dial twice, hang up each other's calls, and look.            *)
(***************************************************************************)
EXTENDS Browser

CONSTANTS Calls, Tree, Targets, Edited, MaxDepth, Users, Lists, SIPAddr, HasDevice,
          DefaultLimit, MaxLimit, MaxGlobResults, MaxGrepFiles, MaxGrepMatches

VARIABLES subject,                          \* the tool a behaviour is about
          disk, data, call, clean,          \* of Files
          dialog, agent, calls, seq, user,  \* of Phone
          input                             \* of MCAlgorithms

F == INSTANCE Files
P == INSTANCE Phone
G == INSTANCE MCAlgorithms

filesVars == <<disk, data, call, clean>>
phoneVars == <<dialog, agent, calls, seq, user>>
allVars == <<subject, vars, filesVars, phoneVars, input>>

ToolsInit == /\ subject \in {"files", "browser", "phone", "input"}
             /\ Init /\ F!Init /\ P!Init /\ G!Init

ToolsNext ==
  /\ UNCHANGED subject
  /\ \/ subject = "browser" /\ Next /\ UNCHANGED <<filesVars, phoneVars, input>>
     \/ subject = "files" /\ F!Next /\ UNCHANGED <<vars, phoneVars, input>>
     \/ subject = "phone" /\ P!Next /\ UNCHANGED <<vars, filesVars, input>>
     \/ subject = "input" /\ G!Next /\ UNCHANGED <<vars, filesVars, phoneVars>>

ToolsSpec == ToolsInit /\ [][ToolsNext]_allVars /\ Fairness /\ P!Fairness

-----------------------------------------------------------------------------
MCTargets == {<<"d">>, <<"d", "x">>, <<"y">>}
MCTree == [p \in MCTargets |-> p = <<"d">>]
MCEdited == {<<<<"d", "x">>>>, <<<<"d", "x">>, <<"y">>>>, <<<<"d">>, <<"y">>>>}

Page(do, with) == [do |-> do, with |-> with]
Open == Page("open", {})
Close == Page("close", {})

MCScripts == {<<Open, Page("navigate", {"url"})>>, <<Open, Open, Close>>, <<Close>>,
              <<Page("select", {"selector"}), Close>>, <<Page("type", {"selector", "clear"})>>,
              <<Page("malformed", {})>>}

DialTo(number, audio) == [do |-> "dial", number |-> number, endpoint |-> "", audio |-> audio,
                          credentials |-> <<"user", "secret">>,
                          headers |-> {[name |-> "x-trace", value |-> "1"], [name |-> "to", value |-> ""]}]
HangUp(id) == [do |-> "hangup", id |-> id]
Look == [do |-> "status"]

MCLists == {<<DialTo("111", ""), DialTo("222", "echo"), HangUp(1)>>,
            <<DialTo("111", "device"), HangUp(2), HangUp(1), DialTo("333", "none")>>,
            <<HangUp(1), Look, [do |-> "malformed"]>>}

ASSUME G!FileViewsAssumption

-----------------------------------------------------------------------------
(* A rename of file_edit replaces exactly the content the call verified by   *)
(* exactly the text it computed from it, where nobody else touched the file  *)
(* in between (editRename).                                                  *)
EditsInstallWhatTheyVerified == F!EditsInstallWhatTheyVerified

(* Once file_copy has removed the destination it was told to replace, it     *)
(* takes no path away and writes only into files that it created itself      *)
(* (copyFile, copyDir).                                                      *)
CopiesOnlyAdd == F!CopiesOnlyAdd

(* A call of the phone tool that is up has its user agent open, and the      *)
(* registry names every call that can still be ended by it; a call whose BYE *)
(* failed is up without either (add, remove, sipCall.Hangup).                *)
CallsAccountedFor == P!CallsAccountedFor

(* A call that the far end has ended is shown as ended (add's goroutine).    *)
EndedIsShown == P!EndedIsShown

(* Edits that do not conflict compose, a patch made from a content changes   *)
(* it as the diff says, a read shows exactly the requested lines, a listing  *)
(* is complete or says that it is cut, and glob and grep, which are cut      *)
(* silently, are complete below their limits (edit_impl.go, patches,         *)
(* file_read, dir_tree, glob and grep).                                      *)
FileToolsAreExact == G!FileToolsAreExact

(* A command line is read as it was said, a structured call and a command    *)
(* line reach the same handler with the same values, and what conforms to    *)
(* the schema shown to a model runs, but for empty values and numbers of a   *)
(* million or more (command/parse.go, tree.go, typed.go, schema.go).         *)
CommandsAreRead == G!CommandsAreRead

(* Registering contributions loses none silently; each tool has exactly the  *)
(* middlewares of the places that are applied to it, once and in order,      *)
(* which are not all that WithToolMiddlewares and ToolMiddlewarePlugin say;  *)
(* and a resolution does not depend on what the resolver has cached (app.go, *)
(* resource/resolver.go).                                                    *)
AssemblyLosesNothing == G!AssemblyLosesNothing


(* The agent, model, limits and session that a command line asked for are    *)
(* the ones that start, one inference flag replacing the whole inference of  *)
(* the agent's file, and an approved-only policy is kept on every route      *)
(* (terminal/cli/load.go, harness/load.go, agent/model_route.go).            *)
LaunchedAsAsked == G!LaunchedAsAsked

(* Tool calls end at the tightest timeout around them, unless the call asked *)
(* for zero, which switches the outermost one off with its cap; they run     *)
(* only past every gate, where a decision that a gate does not know also     *)
(* lets them pass; and the audit tells what happened, ending in that case    *)
(* with the bare assessment (toolmw, actionmw, safety).                      *)
ToolCallsAreGuarded == G!ToolCallsAreGuarded

(* Text and block results survive being written and read, but for the data   *)
(* and the media type of images, and a tool's own type of result is refused; *)
(* activation reports, todo lists and usage totals agree with the calls made *)
(* (tool/result.go, toolactivation, tools/toolmgmt, tools/todo, usage).      *)
ToolBooksAgree == G!ToolBooksAgree
=============================================================================
