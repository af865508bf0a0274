---------------------------- MODULE CentralAuth ----------------------------
(***************************************************************************)
(* services/LinkedInBrowser/scripts/central_auth.py: somebody runs the     *)
(* helper, which looks at a page of its own in the browser and, when the   *)
(* account is signed in, exports the session to a file: into a temporary   *)
(* file of a fixed name, which is then renamed.                            *)
(*                                                                         *)
(* A file here is an inode, named after the helper that created it: a      *)
(* helper goes on writing to the inode it opened, whatever its name is by  *)
(* then.  Playwright opens the path it is given for writing and writes.    *)
(***************************************************************************)
EXTENDS FiniteSets

CONSTANTS
  Helpers,     \* runs of the helper, one process each
  Nothing      \* no file of that name

ASSUME NothingAssumption == Nothing \notin Helpers /\ IsFiniteSet(Helpers)

VARIABLES
  account,  \* what LinkedIn shows: "in", "out" or "blocked"
  pc,       \* where each helper is
  code,     \* its exit code
  opened,   \* the inode each helper writes to
  page,     \* its page in the shared browser: "stuck" is one that nobody closes
  tmp,      \* the inode of ".linkedin_session.json.tmp"
  backup,   \* the inode of linkedin_session.json
  content,  \* what is in each inode
  met,      \* history: the helpers that started while another one ran
  turned,   \* history: those the account changed for between check and export
  hidden    \* history: those whose page showed nothing of the wall that it was

vars == <<account, pc, code, opened, page, tmp, backup, content, met, turned, hidden>>

----------------------------------------------------------------------------
States == {"in", "out", "blocked"}
Names == Helpers \cup {Nothing}
Points == {"idle", "check", "unlink", "open", "write", "chmod", "replace", "close", "gone", "dead"}

\* The session of a file: text is whole, cut off, or of two writers at once.
Content == [text : {"none", "partial", "whole", "mixed"}, session : States \cup {"none"}]
Blank == [text |-> "none", session |-> "none"]

\* EXIT_SUCCESS, EXIT_LOGIN_REQUIRED, EXIT_SECURITY_BLOCKER.
Codes == {"none", "success", "login", "security"}

\* Types; a file that has a name has been created.
TypeOK ==
  /\ account \in States
  /\ pc \in [Helpers -> Points] /\ code \in [Helpers -> Codes]
  /\ opened \in [Helpers -> Names] /\ page \in [Helpers -> {"none", "open", "stuck"}]
  /\ tmp \in Names /\ backup \in Names /\ content \in [Helpers -> Content]
  /\ met \subseteq Helpers /\ turned \subseteq Helpers /\ hidden \subseteq Helpers
  /\ \A f \in {tmp, backup} \ {Nothing} : content[f].text # "none"

Init ==
  /\ account = "in"
  /\ pc = [h \in Helpers |-> "idle"] /\ code = [h \in Helpers |-> "none"]
  /\ opened = [h \in Helpers |-> Nothing] /\ page = [h \in Helpers |-> "none"]
  /\ tmp = Nothing /\ backup = Nothing /\ content = [h \in Helpers |-> Blank]
  /\ met = {} /\ turned = {} /\ hidden = {}

Running(h) == pc[h] \notin {"idle", "gone", "dead"}

Go(h, point) == pc' = [pc EXCEPT ![h] = point]

\* return, with the page still to be closed.
Return(h, exit) == Go(h, "close") /\ code' = [code EXCEPT ![h] = exit]

----------------------------------------------------------------------------
(* The check of the account.                                               *)

\* connect_over_cdp, one context, new_page; without them it is a "security" exit, also
\* when new_page fails with the tab already there.
Start(h) ==
  /\ pc[h] = "idle" /\ met' = met \cup {g \in {h} : \E other \in Helpers : Running(other)}
  /\ \/ Go(h, "check") /\ page' = [page EXCEPT ![h] = "open"] /\ UNCHANGED code
     \/ Return(h, "security") /\ \E left \in {"none", "stuck"} : page' = [page EXCEPT ![h] = left]
  /\ UNCHANGED <<account, opened, tmp, backup, content, turned, hidden>>

\* Mutant: what is no security page is taken for the feed.
CodeOfPageLoose(url, text) == IF "blocked" \in {url, text} THEN "security" ELSE "success"

\* classify_page: what the URL and the text each show, where "in" is the feed for a URL
\* and nothing of the kind for a text.
CodeOfPage(url, text) ==
  IF "blocked" \in {url, text} THEN "security"
  ELSE IF "out" \in {url, text} THEN "login" ELSE "success"

\* A wall shows by its URL or only by its text, if that is there to be read: page_text
\* gives "" when it fails, and the page need not have loaded.  On the feed, somebody's
\* post may read like a wall.  page.goto may fail; that is taken for a security page.
Check(h) ==
  /\ pc[h] = "check"
  /\ \/ \E url \in {account, "in"}, text \in States :
          /\ IF CodeOfPage(url, text) = "success" THEN Go(h, "unlink") /\ UNCHANGED code
             ELSE Return(h, CodeOfPage(url, text))
          /\ hidden' = hidden \cup {g \in {h} : account # "in" /\ url = "in" /\ text = "in"}
     \/ Return(h, "security") /\ UNCHANGED hidden
  /\ UNCHANGED <<account, opened, page, tmp, backup, content, met, turned>>

----------------------------------------------------------------------------
(* atomic_export_storage_state.                                            *)

Unlink(h) ==
  /\ pc[h] = "unlink" /\ Go(h, "open") /\ tmp' = Nothing
  /\ UNCHANGED <<account, code, opened, page, backup, content, met, turned, hidden>>

\* Mutant: the session is written to the file itself.
OpensBackup(h) ==
  IF backup = Nothing THEN backup' = h /\ opened' = [opened EXCEPT ![h] = h] /\ UNCHANGED tmp
  ELSE opened' = [opened EXCEPT ![h] = backup] /\ UNCHANGED <<tmp, backup>>

\* open(tmp, "w"): a new inode, or the one another helper has created since.
Opens(h) ==
  IF tmp = Nothing THEN tmp' = h /\ opened' = [opened EXCEPT ![h] = h] /\ UNCHANGED backup
  ELSE opened' = [opened EXCEPT ![h] = tmp] /\ UNCHANGED <<tmp, backup>>

\* context.storage_state(path): the browser's state is read, the file truncated
\* and its first part written; the browser may also fail.
Open(h) ==
  /\ pc[h] = "open"
  /\ \/ /\ Opens(h) /\ Go(h, "write")
        /\ LET f == opened'[h]
               writers == {g \in Helpers : pc[g] = "write" /\ opened[g] = f}
           IN content' = [content EXCEPT ![f] =
                            [text |-> IF writers = {} THEN "partial" ELSE "mixed",
                             session |-> account]]
        /\ UNCHANGED code
     \/ Return(h, "security") /\ UNCHANGED <<opened, tmp, backup, content>>
  /\ UNCHANGED <<account, page, met, turned, hidden>>

\* The rest of the file; or the disk is full.
Write(h) ==
  /\ pc[h] = "write"
  /\ \/ /\ Go(h, "chmod") /\ UNCHANGED code
        /\ content' = [content EXCEPT ![opened[h]].text = IF @ = "partial" THEN "whole" ELSE @]
     \/ Return(h, "security") /\ UNCHANGED content
  /\ UNCHANGED <<account, opened, page, tmp, backup, met, turned, hidden>>

\* tmp.chmod: it must be there.
Chmod(h) ==
  /\ pc[h] = "chmod"
  /\ IF tmp = Nothing THEN Return(h, "security") ELSE Go(h, "replace") /\ UNCHANGED code
  /\ UNCHANGED <<account, opened, page, tmp, backup, content, met, turned, hidden>>

\* os.replace(tmp, destination), and chmod, which may fail after it.
Replace(h) ==
  /\ pc[h] = "replace"
  /\ IF tmp = Nothing THEN Return(h, "security") /\ UNCHANGED <<tmp, backup>>
     ELSE /\ backup' = tmp /\ tmp' = Nothing
          /\ \E exit \in {"success", "security"} : Return(h, exit)
  /\ UNCHANGED <<account, opened, page, content, met, turned, hidden>>

\* finally: page.close(), whose failure is swallowed.
Close(h) ==
  /\ pc[h] = "close" /\ Go(h, "gone")
  /\ \E left \in {"none", "stuck"} :
       page' = [page EXCEPT ![h] = IF @ = "open" THEN left ELSE @]
  /\ UNCHANGED <<account, code, opened, tmp, backup, content, met, turned, hidden>>

----------------------------------------------------------------------------
(* The world.                                                              *)

\* The process is killed, or the container stopped; Playwright's pages go with the
\* connection or stay.
Crash(h) ==
  /\ Running(h) /\ Go(h, "dead")
  /\ UNCHANGED <<account, code, opened, page, tmp, backup, content, met, turned, hidden>>

\* The account's state changes.
AccountTurns(state) ==
  /\ state # account /\ account' = state
  /\ turned' = turned \cup {h \in Helpers : pc[h] \in {"unlink", "open"}}
  /\ UNCHANGED <<pc, code, opened, page, tmp, backup, content, met, hidden>>

----------------------------------------------------------------------------
Next ==
  \/ \E h \in Helpers :
       \/ Start(h) \/ Check(h) \/ Unlink(h) \/ Open(h) \/ Write(h) \/ Chmod(h) \/ Replace(h)
       \/ Close(h) \/ Crash(h)
  \/ \E state \in States : AccountTurns(state)

Spec == Init /\ [][Next]_vars

----------------------------------------------------------------------------
(* Properties.                                                             *)

\* "exports a secondary storage-state snapshot atomically" (line 7): at every
\* moment, also after a crash or a full disk, the backup is one whole snapshot, as
\* long as no two helpers have run at once: they share the temporary name.
WholeSnapshot == met = {} /\ backup # Nothing => content[backup].text = "whole"

\* A run that was turned away or failed leaves the last good snapshot in place, and
\* none is of an account that is signed out or stopped (lines 49-60, 104-112), unless
\* the account changed between the check and the export, or a page showed neither in
\* its URL nor in the text that could be read that it was a wall.
SignedInSnapshot ==
  turned \cup hidden = {} /\ backup # Nothing => content[backup].session = "in"

\* "central_auth.py ... fails closed with exit 11 for login/authwall and exit 12 for
\* captcha/checkpoint/..." (README.md:116): whoever looked at a wall does not end
\* with success, also when nothing of the page could be read.
FailsClosed == \A h \in hidden : code[h] # "success"

\* A helper that ends has closed its page in the browser everybody shares, whichever
\* way it ended, unless new_page or page.close failed (lines 117-125).
OwnPageClosed == \A h \in Helpers : pc[h] = "gone" => page[h] # "open"
=============================================================================
