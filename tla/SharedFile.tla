----------------------------- MODULE SharedFile -----------------------------
(***************************************************************************)
(* A file of lines under ~/.rigor.  Some processes append to it, by        *)
(* writeln! on an unbuffered file: the text of the line in one write, its  *)
(* newline in another.  Others replace it: they write a temporary file of  *)
(* one fixed name and rename it over the file (rewrite_log for             *)
(* violations.jsonl, write_rules for alerts.json).  A name refers to an    *)
(* inode; whoever has opened an inode writes to it, whatever the name      *)
(* refers to by then.                                                      *)
(***************************************************************************)
EXTENDS Naturals, Sequences, SequencesExt, Functions

CONSTANTS
  Processes,
  Inodes,    \* numbered from 1: two more than processes, so one is free
  Torn,      \* a line that no reader can parse
  None

VARIABLES
  content,   \* the lines of each inode
  unended,   \* the inodes whose last line has no newline yet
  name,      \* the inode under the file's name
  temp,      \* the inode under the temporary name
  held       \* the inode each process has open for writing

fileVars == <<content, unended, name, temp, held>>

Referenced(n, t, h) == ({n, t} \cup Range(h)) \ {None}
FreeInode == CHOOSE i \in Inodes: i \notin Referenced(name, temp, held)

\* An inode that nothing refers to is gone.
Collect(c, n, t, h) ==
  [i \in Inodes |-> IF i \in Referenced(n, t, h) THEN c[i] ELSE <<>>]
\* Files are written, named or closed, and what nothing refers to goes.
Settle(c, u, n, t, h) ==
  /\ name' = n /\ temp' = t /\ held' = h
  /\ content' = Collect(c, n, t, h)
  /\ unended' = u \cap Referenced(n, t, h)

FileTypeOK(Line) ==
  /\ content \in [Inodes -> Seq(Line)]
  /\ unended \subseteq Inodes
  /\ name \in Inodes
  /\ temp \in Inodes \cup {None}
  /\ held \in [Processes -> Inodes \cup {None}]

FileInit(lines) ==
  /\ name = 1
  /\ temp = None
  /\ unended = {}
  /\ content = [i \in Inodes |-> IF i = 1 THEN lines ELSE <<>>]
  /\ held = [p \in Processes |-> None]

\* What a reader gets: lines that do not parse are skipped.
Parsed(lines) ==
  LET kept[i \in 0 .. Len(lines)] ==
        IF i = 0 THEN <<>>
        ELSE IF lines[i] = Torn THEN kept[i - 1] ELSE Append(kept[i - 1], lines[i])
  IN kept[Len(lines)]
Readable == Parsed(content[name])

OpenToAppend(p) ==
  /\ held' = [held EXCEPT ![p] = name]
  /\ UNCHANGED <<content, unended, name, temp>>

\* The last line of lines, if a reader can parse it.
LastOf(lines) == {lines[i]: i \in DOMAIN lines \cap {Len(lines)}} \ {Torn}

\* What comes behind a text without newline makes a line of both, which
\* nobody can parse.
AppendText(p, line) ==
  /\ content' = [content EXCEPT ![held[p]] =
                    IF held[p] \in unended THEN Append(Front(@), Torn)
                    ELSE Append(@, line)]
  /\ unended' = unended \cup {held[p]}
  /\ UNCHANGED <<name, temp, held>>

\* A newline ends the last line, whosever it is; a second one makes an empty
\* line, which readers skip.
EndLine(p) ==
  Settle(content, unended \ {held[p]}, name, temp, [held EXCEPT ![p] = None])

\* create + truncate: a temporary file that another process has not renamed
\* yet is emptied and shared with it.
OpenTemp(p) ==
  LET i == IF temp = None THEN FreeInode ELSE temp IN
  /\ temp' = i
  /\ held' = [held EXCEPT ![p] = i]
  /\ content' = [content EXCEPT ![i] = <<>>]
  /\ unended' = unended \ {i}
  /\ UNCHANGED name

\* Writing starts at offset 0 of a file that another process may have filled
\* since: what is longer shows behind, its first line cut somewhere.  The
\* lines are written in one step, as nobody sees the temporary file but a
\* process that replaces the file at the same time.
Overlays(new, old) ==
  LET rest == SubSeq(old, Len(new) + 2, Len(old)) IN
  IF Len(old) < Len(new) THEN {new}
  ELSE IF Len(old) > Len(new) THEN {new \o <<Torn>> \o rest}
  ELSE {new} \cup (IF old = <<>> THEN {} ELSE {new \o <<Torn>>})

WriteTemp(p, lines) ==
  \E result \in Overlays(lines, content[held[p]]):
    Settle([content EXCEPT ![held[p]] = result],
           IF result = lines THEN unended \ {held[p]} ELSE unended,
           name, temp, [held EXCEPT ![p] = None])

\* (mutation) a rename whose failure nobody notices.
RenameBlindly ==
  /\ name' = temp
  /\ temp' = None
  /\ UNCHANGED <<content, unended, held>>
Rename ==
  /\ temp # None
  /\ Settle(content, unended, temp, None, held)

\* Another process has renamed the temporary file.
RenameFails == temp = None /\ UNCHANGED fileVars
=============================================================================
