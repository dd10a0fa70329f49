----------------------------- MODULE SessionStore -----------------------------
(***************************************************************************)
(* A session of the terminal program: minicode/session.py with the edits    *)
(* of file_review.py and the loop of tty_app.py.  Every edit of a file is   *)
(* preceded by a checkpoint of what the file held, which is appended to the *)
(* session and saved; a rewind restores the newest checkpoints and replaces *)
(* them by checkpoints of what it is about to overwrite, so that it can be  *)
(* undone.                                                                 *)
(*                                                                         *)
(* Two threads of a process share the session: the agent's, which edits and *)
(* saves, and the main loop, which autosaves while the agent works, rewinds *)
(* when it does not, and saves when the program is left, whatever the agent *)
(* is doing.  A save serializes the session, opens its file (which empties  *)
(* it) and writes.  Delta saves are absent: a save is a delta only when     *)
(* there have been deltas before, so there never is a first one.  A process *)
(* that resumes the session, or rewinds it from the command line, starts    *)
(* from the file.                                                          *)
(*                                                                         *)
(* Texts are compared and copied, never looked into: every edit writes a    *)
(* text of its own, numbered like its checkpoint, which tells them all      *)
(* apart.  An edit that changes nothing returns at once and is left out; an  *)
(* edit by a shortcut (/write) is a turn with nothing beside it.            *)
(* The checkpoints of one rewind share a number, which is their group.      *)
(***************************************************************************)
EXTENDS Integers, Sequences, FiniteSets

CONSTANTS
    Files,          \* paths of the workspace
    Present,        \* those that exist at the start
    Absent,         \* in place of a text: there is no such file
    MaxEvents       \* bound: edits, rewinds, autosaves, restarts, failures and
                    \* changes by somebody else, together

ASSUME SessionStoreAssumption ==
    /\ MaxEvents \in Nat
    /\ Absent \notin Nat /\ Absent \notin Files
    /\ Present \subseteq Files

VARIABLES
    files,   \* the workspace
    disk,    \* the session file: readable or not (missing, cut off, garbled), and its list
    up,      \* whether a process has the session open
    mem,     \* session.checkpoints of that process
    busy,    \* state.is_busy: a turn of the agent is running
    dirty,   \* autosave._dirty
    agent,   \* the edit of the agent's thread
    main,    \* what the main loop does
    save,    \* the save of each thread
    extras,
    base,    \* history: the workspace when each checkpoint was made
    applied, \* history: the edits done and not rewound
    strayed, \* history: files changed other than by an edit or a finished rewind
    behind   \* history: saves have overlapped and none alone has ended since

process == <<up, mem, busy, dirty, agent, main, save>>
history == <<base, applied, strayed, behind>>
vars    == <<files, disk, process, extras, history>>

Threads     == {"agent", "main"}
Blank       == 0                    \* the empty text
Foreign     == MaxEvents + 1   \* a text no edit wrote
Texts       == 0..Foreign
Workspace   == [Files -> Texts \cup {Absent}]
Checkpoints == [id : 1..MaxEvents, kind : {"edit", "rewind"}, file : Files, existed : BOOLEAN,
                text : Texts]

Other(t)   == IF t = "agent" THEN "main" ELSE "agent"
Ids(s)     == {s[i].id : i \in DOMAIN s}
FilesOf(s) == {s[i].file : i \in DOMAIN s}
Text(c)    == IF c = Absent THEN Blank ELSE c

NoEdit  == [at |-> "idle", file |-> Absent, before |-> Blank]
InLoop  == [at |-> "loop", selected |-> <<>>, left |-> 0, reverse |-> <<>>]
NoSave  == [at |-> "none", list |-> <<>>, alone |-> TRUE, clean |-> TRUE]

Readable(s) == [readable |-> TRUE, list |-> s]
Unreadable  == [readable |-> FALSE, list |-> <<>>]

DiskType  == [readable : BOOLEAN, list : Seq(Checkpoints)]
AgentType == [at : {"idle", "reviewing", "saving", "saved"}, file : Files \cup {Absent},
              before : Texts]
MainType  == [at : {"loop", "autosaving", "restoring", "rewound", "exiting", "over"},
              selected : Seq(Checkpoints), left : Nat, reverse : Seq(Checkpoints)]
SaveType  == [at : {"none", "serialized", "open"}, list : Seq(Checkpoints),
              alone : BOOLEAN, clean : BOOLEAN]

TypeOK ==
    /\ files \in Workspace
    /\ disk \in DiskType
    /\ up \in BOOLEAN /\ busy \in BOOLEAN /\ dirty \in BOOLEAN
    /\ mem \in Seq(Checkpoints)
    /\ agent \in AgentType /\ main \in MainType
    /\ save \in [Threads -> SaveType]
    /\ extras \in 0..MaxEvents
    /\ base \in Seq(Workspace) /\ Len(base) + extras <= MaxEvents
    /\ applied \subseteq 1..MaxEvents
    /\ strayed \subseteq Files
    /\ behind \in BOOLEAN

\* load_or_create_session made a new session.
Init ==
    /\ files = [f \in Files |-> IF f \in Present THEN Blank ELSE Absent]
    /\ disk = Unreadable
    /\ up = TRUE
    /\ mem = <<>>
    /\ busy = FALSE /\ dirty = FALSE
    /\ agent = NoEdit
    /\ main = InLoop
    /\ save = [t \in Threads |-> NoSave]
    /\ extras = 0
    /\ base = <<>> /\ applied = {} /\ strayed = {} /\ behind = FALSE

(***************************************************************************)
(* save_session                                                            *)
(***************************************************************************)

Saves(t) == IF t = "agent" THEN agent.at = "saving"
            ELSE main.at \in {"autosaving", "rewound", "exiting"}

\* The session is turned into text.
Serialize(t) ==
    /\ Saves(t)
    /\ save[t].at = "none"
    /\ LET free == save[Other(t)].at = "none" IN
       /\ save' = [save EXCEPT ![t] = [at |-> "serialized", list |-> mem,
                                       alone |-> free, clean |-> TRUE],
                               ![Other(t)].alone = free]
       /\ behind' = (behind \/ ~free)
    /\ UNCHANGED <<files, disk, up, mem, busy, dirty, agent, main, base, applied, strayed, extras>>

\* A save that has the file open is disturbed by another that opens or writes it.
Disturb(t) == save[Other(t)].at # "open"

\* write_text opens the file, which empties it.
Open(t) ==
    /\ save[t].at = "serialized"
    /\ disk' = Unreadable
    /\ save' = [save EXCEPT ![t].at = "open", ![Other(t)].clean = Disturb(t)]
    /\ UNCHANGED <<files, up, mem, busy, dirty, agent, main, history, extras>>

\* What the file holds after the text is written: of two saves that have it
\* open at once, parts of both may be in it.
Written(t) == {Readable(save[t].list)} \cup (IF save[t].clean THEN {} ELSE {Unreadable})

\* The text is written, and the caller goes on.
Write(t) ==
    /\ save[t].at = "open"
    /\ disk' \in Written(t)
    /\ save' = [save EXCEPT ![t] = NoSave, ![Other(t)].clean = Disturb(t)]
    /\ behind' = (behind /\ ~save[t].alone)
    /\ agent' = IF t = "agent" THEN [agent EXCEPT !.at = "saved"] ELSE agent
    /\ main' = IF t = "agent" THEN main
               ELSE IF main.at = "exiting" THEN [main EXCEPT !.at = "over"] ELSE InLoop
    /\ dirty' = (dirty /\ ~(t = "main" /\ main.at = "autosaving"))
    /\ UNCHANGED <<files, up, mem, busy, base, applied, strayed, extras>>

\* Opening, writing, or the index of all sessions afterwards, raises.  The
\* edit then fails, a rewind is over as far as it is, and a failed autosave
\* leaves the program by way of its finally.
SaveFails(t) ==
    /\ Len(base) + extras < MaxEvents /\ extras' = extras + 1
    /\ save[t].at \in {"serialized", "open"}
    /\ disk' \in {disk} \cup (IF save[t].at = "open" THEN {Unreadable} \cup Written(t) ELSE {})
    /\ save' = [save EXCEPT ![t] = NoSave,
                   ![Other(t)].clean = IF save[t].at = "open" THEN Disturb(t) ELSE @]
    /\ agent' = IF t = "agent" THEN NoEdit ELSE agent
    /\ main' = IF t = "agent" THEN main
               ELSE CASE main.at = "autosaving" -> [main EXCEPT !.at = "exiting"]
                      [] main.at = "exiting"    -> [main EXCEPT !.at = "over"]
                      [] OTHER                  -> InLoop
    /\ UNCHANGED <<files, up, mem, busy, dirty, history>>

(***************************************************************************)
(* The thread of the agent: apply_reviewed_file_change                     *)
(***************************************************************************)

\* A line of input starts a turn.
BeginTurn ==
    /\ up /\ main.at = "loop" /\ ~busy
    /\ busy' = TRUE /\ dirty' = TRUE
    /\ UNCHANGED <<files, disk, up, mem, agent, main, save, history, extras>>

EndTurn ==
    /\ busy /\ agent.at = "idle"
    /\ busy' = FALSE
    /\ UNCHANGED <<files, disk, up, mem, dirty, agent, main, save, history, extras>>

\* load_existing_file: what the edit is shown to change.
ReadPrevious(f) ==
    /\ busy /\ agent.at = "idle"
    /\ agent' = [at |-> "reviewing", file |-> f, before |-> Text(files[f])]
    /\ UNCHANGED <<files, disk, up, mem, busy, dirty, main, save, history, extras>>

\* ensure_edit raises.
Refuse ==
    /\ agent.at = "reviewing"
    /\ agent' = NoEdit
    /\ UNCHANGED <<files, disk, up, mem, busy, dirty, main, save, history, extras>>

\* Mutant of CreateCheckpoint: the save is left to the autosave.
MutCreateCheckpointUnsaved ==
    /\ agent.at = "reviewing"
    /\ Len(base) + extras < MaxEvents
    /\ mem' = Append(mem, [id |-> Len(base) + 1, kind |-> "edit", file |-> agent.file,
                           existed |-> files[agent.file] # Absent, text |-> agent.before])
    /\ base' = Append(base, files)
    /\ agent' = [agent EXCEPT !.at = "saved"]
    /\ UNCHANGED <<files, disk, up, busy, dirty, main, save, applied, strayed, behind, extras>>

\* create_file_checkpoint, up to its save.
CreateCheckpoint ==
    /\ agent.at = "reviewing"
    /\ Len(base) + extras < MaxEvents
    /\ mem' = Append(mem, [id |-> Len(base) + 1, kind |-> "edit", file |-> agent.file,
                           existed |-> files[agent.file] # Absent, text |-> agent.before])
    /\ base' = Append(base, files)
    /\ agent' = [agent EXCEPT !.at = "saving"]
    /\ UNCHANGED <<files, disk, up, busy, dirty, main, save, applied, strayed, behind, extras>>

\* The new content is written, or an error comes before the file is opened, or
\* after that, which empties it.  Failed or not, the checkpoint counts as an
\* edit that was done.
WriteFile ==
    /\ agent.at = "saved"
    /\ \/ /\ files' = [files EXCEPT ![agent.file] = mem[Len(mem)].id]
          /\ UNCHANGED extras
       \/ /\ Len(base) + extras < MaxEvents /\ extras' = extras + 1
          /\ files' \in {files, [files EXCEPT ![agent.file] = Blank]}
    /\ applied' = applied \cup {mem[Len(mem)].id}
    /\ agent' = NoEdit
    /\ UNCHANGED <<disk, up, mem, busy, dirty, main, save, base, strayed, behind>>

(***************************************************************************)
(* The main loop                                                           *)
(***************************************************************************)

Autosave ==
    /\ up /\ main.at = "loop" /\ dirty
    /\ Len(base) + extras < MaxEvents /\ extras' = extras + 1
    /\ main' = [main EXCEPT !.at = "autosaving"]
    /\ UNCHANGED <<files, disk, up, mem, busy, dirty, agent, save, history>>

\* The first checkpoint of the group that s[i] is in.
GroupStart(s, i) == CHOOSE j \in 1..i :
                       /\ \A k \in j..i : s[k].id = s[i].id
                       /\ j > 1 => s[j - 1].id # s[i].id

\* _select_checkpoints_to_rewind: by the number of steps, or by checkpoint.
BySteps(s, n) ==
    LET plain == IF n >= Len(s) THEN 1 ELSE Len(s) - n + 1
        tail  == GroupStart(s, Len(s))
    IN IF tail < plain THEN tail ELSE plain

Starts(s) == {i \in DOMAIN s : \E n \in DOMAIN s : i \in {BySteps(s, n), GroupStart(s, n)}}

\* A number of steps may begin within the group of an earlier rewind.
Cuts(s, i) == i > 1 /\ s[i - 1].id = s[i].id

\* The paths to capture, each once, the one checkpointed last first.
LastOf(s, f) == CHOOSE i \in DOMAIN s : /\ s[i].file = f
                                       /\ \A j \in i + 1..Len(s) : s[j].file # f
Captures(s) == {p \in UNION {[1..n -> FilesOf(s)] : n \in DOMAIN s} :
                  /\ FilesOf(s) = {p[k] : k \in DOMAIN p}
                  /\ \A k, l \in DOMAIN p : k < l => LastOf(s, p[k]) > LastOf(s, p[l])}

\* rewind_session_data: what is about to be overwritten is captured.
BeginRewind(start) ==
    /\ up /\ main.at = "loop" /\ ~busy
    /\ Len(base) + extras < MaxEvents
    /\ LET selected == SubSeq(mem, start, Len(mem)) IN
       \E paths \in Captures(selected) :
          main' = [at |-> "restoring", selected |-> selected, left |-> Len(selected),
                   reverse |-> [k \in DOMAIN paths |->
                      [id |-> Len(base) + 1, kind |-> "rewind", file |-> paths[k],
                       existed |-> files[paths[k]] # Absent,
                       text |-> Text(files[paths[k]])]]]
    /\ base' = Append(base, files)
    /\ dirty' = TRUE
    /\ strayed' = IF ~Cuts(mem, start) THEN strayed
                  ELSE strayed \cup {mem[i].file : i \in
                                      {j \in DOMAIN mem : mem[j].id = mem[start].id}}
    /\ UNCHANGED <<files, disk, up, mem, busy, agent, save, applied, behind, extras>>

\* Mutant of Restore: the oldest first.
MutRestoreOldestFirst ==
    /\ main.at = "restoring" /\ main.left > 0
    /\ LET c == main.selected[Len(main.selected) + 1 - main.left] IN
       files' = [files EXCEPT ![c.file] = IF c.existed THEN c.text ELSE Absent]
    /\ main' = [main EXCEPT !.left = @ - 1]
    /\ UNCHANGED <<disk, up, mem, busy, dirty, agent, save, history, extras>>

\* One checkpoint is restored, the newest first.
Restore ==
    /\ main.at = "restoring" /\ main.left > 0
    /\ LET c == main.selected[main.left] IN
       files' = [files EXCEPT ![c.file] = IF c.existed THEN c.text ELSE Absent]
    /\ main' = [main EXCEPT !.left = @ - 1]
    /\ UNCHANGED <<disk, up, mem, busy, dirty, agent, save, history, extras>>

\* A write or an unlink raises; the loop goes on with the session as it was.
RestoreFails ==
    /\ Len(base) + extras < MaxEvents /\ extras' = extras + 1
    /\ main.at = "restoring" /\ main.left > 0
    /\ LET f == main.selected[main.left].file IN
       \E c \in {files[f], Blank} : files' = [files EXCEPT ![f] = c]
    /\ strayed' = strayed \cup FilesOf(main.selected)
    /\ main' = InLoop
    /\ UNCHANGED <<disk, up, mem, busy, dirty, agent, save, base, applied, behind>>

\* The restored checkpoints are replaced by those of the rewind, then saved.
ReplaceSelected ==
    /\ main.at = "restoring" /\ main.left = 0
    /\ mem' = SubSeq(mem, 1, Len(mem) - Len(main.selected)) \o main.reverse
    /\ applied' = applied \ Ids(main.selected)
    /\ main' = [main EXCEPT !.at = "rewound"]
    /\ UNCHANGED <<files, disk, up, busy, dirty, agent, save, base, strayed, behind, extras>>

(***************************************************************************)
(* The end of a process, and the next                                      *)
(***************************************************************************)

\* The end of input, /exit or Ctrl-C, at any time: finalize_tty_session.
Exit ==
    /\ up /\ main.at = "loop"
    /\ main' = [main EXCEPT !.at = "exiting"]
    /\ UNCHANGED <<files, disk, up, mem, busy, dirty, agent, save, history, extras>>

\* Files that the session file does not account for: edits and rewinds whose
\* checkpoint is not in it, checkpoints in it that are already restored, and a
\* rewind that is under way.
Unaccounted ==
    {c.file : c \in {mem[i] : i \in {j \in DOMAIN mem : mem[j].kind = "rewind"
                                                        \/ mem[j].id \in applied}}
                    \ {disk.list[i] : i \in DOMAIN disk.list}}
    \cup {c.file : c \in {disk.list[i] : i \in DOMAIN disk.list}
                         \ {mem[i] : i \in DOMAIN mem}}
    \cup (IF main.at = "restoring" THEN FilesOf(main.selected) ELSE {})

\* The process ends, after finalize_tty_session or by a crash or a kill; the
\* agent's thread is a daemon and ends with it.  The command line's --rewind
\* ends after its save in the same way.
End ==
    /\ up
    /\ up' = FALSE /\ mem' = <<>> /\ busy' = FALSE /\ dirty' = FALSE
    /\ agent' = NoEdit
    /\ main' = InLoop
    /\ save' = [t \in Threads |-> NoSave]
    /\ strayed' = strayed \cup Unaccounted
    /\ UNCHANGED <<files, disk, base, applied, behind, extras>>

\* load_session; a file that cannot be read is a session that is lost.
Resume ==
    /\ ~up /\ disk.readable
    /\ Len(base) + extras < MaxEvents /\ extras' = extras + 1
    /\ up' = TRUE
    /\ mem' = disk.list
    /\ applied' = applied \cap Ids(disk.list)
    /\ UNCHANGED <<files, disk, busy, dirty, agent, main, save, base, strayed, behind>>

\* Somebody else, or a command the agent runs, changes a file.
Outside(f) ==
    /\ Len(base) + extras < MaxEvents /\ extras' = extras + 1
    /\ \E c \in {Foreign, Absent} \ {files[f]} : files' = [files EXCEPT ![f] = c]
    /\ strayed' = strayed \cup {f}
    /\ UNCHANGED <<disk, process, base, applied, behind>>

Next ==
    \/ \E t \in Threads : Serialize(t) \/ Open(t) \/ Write(t) \/ SaveFails(t)
    \/ BeginTurn \/ EndTurn
    \/ \E f \in Files : ReadPrevious(f) \/ Outside(f)
    \/ Refuse \/ CreateCheckpoint \/ WriteFile
    \/ Autosave
    \/ \E start \in Starts(mem) : BeginRewind(start)
    \/ Restore \/ RestoreFails \/ ReplaceSelected
    \/ Exit \/ End \/ Resume

Spec == Init /\ [][Next]_vars

(***************************************************************************)
(* Properties                                                              *)
(***************************************************************************)

\* A session file that can be read has the checkpoint of every edit that was
\* done and not rewound, whatever was saved in between, except after saves
\* that overlapped (create_file_checkpoint: "a durable rewind snapshot
\* before a file mutation").
EditIsCovered == disk.readable /\ ~behind => applied \subseteq Ids(disk.list)

\* A rewind brings the workspace back to where it was when the oldest
\* checkpoint it restores was made, over any number of edits, rewinds and
\* rewinds of rewinds, and after a restart too; apart from files that were
\* changed in other ways, and from those of an earlier rewind that it goes
\* back behind: the checkpoints that one restored are gone, and its own bring
\* back what it had removed.
RewindIsExact ==
    LET selected == main.selected
        behindit == {selected[i].file : i \in {j \in DOMAIN selected :
                        selected[j].kind = "rewind" /\ selected[j].id # selected[1].id}}
    IN main.at = "restoring" /\ main.left = 0 =>
          \A f \in Files \ (strayed \cup behindit) : files[f] = base[selected[1].id][f]
=============================================================================
