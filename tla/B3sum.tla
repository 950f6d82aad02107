-------------------------------- MODULE B3sum --------------------------------
(***************************************************************************)
(* b3sum hashes the files it is given and prints a line for each; later    *)
(* b3sum --check reads the lines back, works out the file names, and       *)
(* hashes the files again.  Between any two steps a file may be changed or *)
(* removed.                                                                *)
(*                                                                         *)
(* A name is a sequence of characters; "bad" stands for a piece that is no *)
(* Unicode, "fffd" for the replacement character that becomes of it, "bs"  *)
(* for a backslash, and a hash in hex counts as one character.  The name   *)
(* "-", standard input, and --raw output, which has no lines, are left     *)
(* out, and so are --keyed and --derive-key, which --check does not take.  *)
(* A file is hashed in one step: what a reader of a file that is being     *)
(* written gets is for the operating system to say.                        *)
(***************************************************************************)
EXTENDS Naturals, Sequences, SequencesExt

CONSTANTS
  Names,        (* the names of files                                      *)
  MaxChanges    (* bound: how often a file changes                         *)

NamesAssumption == Names \subseteq Seq(STRING) \ {<<>>}

VARIABLES
  windows,      (* the platform, fixed                                     *)
  format,       (* of the lines: "plain", "tag", "no names" or "short"     *)
  seeks,        (* --seek, of the hashing and of the checking command      *)
  pc,           (* "hash", "check", or "exited" for good                   *)
  file_args,    (* the names of the files                                  *)
  hashed,       (* how many of them have been seen to                      *)
  content,      (* of each file, "none" when there is no such file         *)
  checkfile,    (* the lines printed, what is left of them in a check      *)
  files_failed, (* of the command that runs                                *)
  statuses,     (* the exit statuses of the commands that have ended       *)
  printed,      (* history: for each line its name and the content hashed  *)
  checked,      (* history: for each line its verdict, and of which file   *)
  changes       (* how often a file has changed                            *)

history == <<printed, checked>>
vars == <<windows, format, seeks, pc, file_args, hashed, content, checkfile, files_failed,
          statuses, history, changes>>

Contents == {"one", "two"}

(* On Windows both slashes separate directories.                           *)
Replaced(s, old, new) == [i \in DOMAIN s |-> IF s[i] = old THEN new ELSE s[i]]

FileOf(name) == IF windows THEN Replaced(name, "bs", "/") ELSE name

(* 32 bytes of output from a position on; the hash of one content at one   *)
(* position is no other's.                                                 *)
Digest(c, seek) ==
  CASE seek = 0 -> c
    [] seek # 0 /\ c = "one" -> "one from there"
    [] seek # 0 /\ c = "two" -> "two from there"

Digests == {Digest(c, s) : c \in Contents, s \in {0, 1}}

Has(s, chars) == \E i \in DOMAIN s : s[i] \in chars

Init ==
  /\ windows \in BOOLEAN
  /\ format \in {"plain", "tag", "no names", "short"}
  /\ seeks \in {<<0, 0>>, <<1, 1>>, <<1, 0>>}
  /\ \E x, y \in Names : file_args = IF x = y THEN <<x>> ELSE <<x, y>>
  /\ windows => \A i \in DOMAIN file_args : ~Has(file_args[i], {"nl", "cr"})
  /\ content = [f \in {FileOf(n) : n \in Names} |-> "one"]
  /\ pc = "hash"
  /\ hashed = 0
  /\ checkfile = <<>>
  /\ files_failed = 0
  /\ statuses = <<>>
  /\ printed = <<>>
  /\ checked = <<>>
  /\ changes = 0

-----------------------------------------------------------------------------
(* Printing.                                                               *)

Lossy(name) == Replaced(name, "bad", "fffd")

EscapeChar(c) ==
  CASE c = "bs" -> <<"bs", "bs">>
    [] c = "nl" -> <<"bs", "n">>
    [] c = "cr" -> <<"bs", "r">>
    [] OTHER -> <<c>>

filepath_to_string(name) ==
  LET text == FileOf(Lossy(name))
      escaped == Has(text, {"bs", "nl", "cr"})
  IN  [text |-> IF escaped THEN FlattenSeq([i \in DOMAIN text |-> EscapeChar(text[i])]) ELSE text,
       escaped |-> escaped]

write_hex_output(c) == <<IF format = "short" THEN "short" ELSE Digest(c, seeks[1])>>

Line(name, c) ==
  LET path == filepath_to_string(name)
      slash == IF path.escaped THEN <<"bs">> ELSE <<>>
  IN  CASE format = "no names" -> write_hex_output(c)
        [] format = "tag" -> slash \o <<"BLAKE3", "sp", "(">> \o path.text
                               \o <<")", "sp", "=", "sp">> \o write_hex_output(c)
        [] OTHER -> slash \o write_hex_output(c) \o <<"sp", "sp">> \o path.text

(* A file that cannot be opened is reported, and the next one is taken.    *)
hash_one_input ==
  /\ pc = "hash"
  /\ hashed < Len(file_args)
  /\ LET name == file_args[hashed + 1]
         c == content[FileOf(name)]
     IN  \/ /\ c = "none"
            /\ files_failed' = files_failed + 1
            /\ UNCHANGED <<checkfile, printed>>
         \/ /\ c # "none"
            /\ checkfile' = checkfile \o Line(name, c) \o <<"nl">>
            /\ printed' = Append(printed, [name |-> name, content |-> c])
            /\ UNCHANGED files_failed
  /\ hashed' = hashed + 1
  /\ UNCHANGED <<windows, format, seeks, pc, file_args, content, statuses, checked, changes>>

ExitStatus == IF files_failed > 0 THEN 1 ELSE 0

(* The lines are kept, and the check is started.                           *)
ExitAndCheck ==
  /\ pc = "hash"
  /\ hashed = Len(file_args)
  /\ statuses' = <<ExitStatus>>
  /\ files_failed' = 0
  /\ pc' = "check"
  /\ UNCHANGED <<windows, format, seeks, file_args, hashed, content, checkfile, history, changes>>

-----------------------------------------------------------------------------
(* Reading back.                                                           *)

Places(line, mark) ==
  {i \in 1 .. Len(line) - Len(mark) + 1 : SubSeq(line, i, i + Len(mark) - 1) = mark}

SplitAt(line, i, mark) ==
  [left |-> SubSeq(line, 1, i - 1), right |-> SubSeq(line, i + Len(mark), Len(line))]

Untagged == <<"sp", "sp">>
Prefix == <<"BLAKE3", "sp", "(">>
Tagged == <<")", "sp", "=", "sp">>

NoLine == [ok |-> FALSE, hash |-> <<>>, file |-> <<>>]

(* From the left, for the name may contain the mark.                       *)
split_untagged_check_line(line) ==
  LET at == SplitAt(line, Min(Places(line, Untagged)), Untagged)
  IN  [ok |-> TRUE, hash |-> at.left, file |-> at.right]

(* Mutant: from the left.                                                  *)
SplitFromLeft(line) ==
  LET rest == SubSeq(line, Len(Prefix) + 1, Len(line))
      at == SplitAt(rest, Min(Places(rest, Tagged)), Tagged)
  IN  IF IsPrefix(Prefix, line) /\ Places(rest, Tagged) # {}
      THEN [ok |-> TRUE, hash |-> at.right, file |-> at.left]
      ELSE NoLine

(* From the right.                                                         *)
split_tagged_check_line(line) ==
  LET rest == SubSeq(line, Len(Prefix) + 1, Len(line))
      at == SplitAt(rest, Max(Places(rest, Tagged)), Tagged)
  IN  IF IsPrefix(Prefix, line) /\ Places(rest, Tagged) # {}
      THEN [ok |-> TRUE, hash |-> at.right, file |-> at.left]
      ELSE NoLine

Split(line) ==
  IF Places(line, Untagged) # {} THEN split_untagged_check_line(line)
                                 ELSE split_tagged_check_line(line)

(* <<>> when an escape is none of the three.                               *)
unescape(path) ==
  LET char == [e \in {"n", "r", "bs"} |-> IF e = "n" THEN "nl" ELSE IF e = "r" THEN "cr" ELSE "bs"]
      ends == Len(path) + 1
      from[i \in 1 .. ends] ==
        IF i = ends THEN [ok |-> TRUE, text |-> <<>>]
        ELSE IF path[i] # "bs"
        THEN [from[i + 1] EXCEPT !.text = <<path[i]>> \o @]
        ELSE IF i = Len(path) \/ path[i + 1] \notin DOMAIN char
        THEN [ok |-> FALSE, text |-> <<>>]
        ELSE [from[i + 2] EXCEPT !.text = <<char[path[i + 1]]>> \o @]
  IN  IF from[1].ok THEN from[1].text ELSE <<>>

(* Mutant: any name will do.                                               *)
AnyCharacters(path) == TRUE

check_for_invalid_characters(path) ==
  ~Has(path, IF windows THEN {"fffd", "bs"} ELSE {"fffd"})

(* The file a line names and the hash it expects, if it is well formed.    *)
parse_check_line(line) ==
  LET escaped == line # <<>> /\ line[1] = "bs"
      split == Split(IF escaped THEN Tail(line) ELSE line)
      path == IF escaped THEN unescape(split.file) ELSE split.file
  IN  [ok |-> /\ split.ok
              /\ Len(split.hash) = 1 /\ split.hash[1] \in Digests
              /\ path # <<>>
              /\ check_for_invalid_characters(path),
       path |-> path,
       expected |-> split.hash]

(* The outcome of a line: of which file, with what content, and whether OK *)
(* was printed.                                                            *)
check_one_line(line) ==
  LET Found(file) == IF file \in DOMAIN content THEN content[file] ELSE "none"
      Outcome(file, c, expected) ==
        [ok |-> c # "none" /\ <<Digest(c, seeks[2])>> = expected, file |-> file, content |-> c]
      Judged(parsed) ==
        IF parsed.ok
        THEN Outcome(FileOf(parsed.path), Found(FileOf(parsed.path)), parsed.expected)
        ELSE [ok |-> FALSE, file |-> <<>>, content |-> "none"]
  IN  Judged(parse_check_line(line))

check_one_checkfile ==
  /\ pc = "check"
  /\ checkfile # <<>>
  /\ LET ends == Min(Places(checkfile, <<"nl">>))
         outcome == check_one_line(SubSeq(checkfile, 1, ends - 1))
     IN  /\ checked' = Append(checked, outcome)
         /\ files_failed' = IF outcome.ok THEN files_failed ELSE files_failed + 1
         /\ checkfile' = SubSeq(checkfile, ends + 1, Len(checkfile))
  /\ UNCHANGED <<windows, format, seeks, pc, file_args, hashed, content, statuses, printed,
                 changes>>

Exit ==
  /\ pc = "check"
  /\ checkfile = <<>>
  /\ statuses' = Append(statuses, ExitStatus)
  /\ pc' = "exited"
  /\ UNCHANGED <<windows, format, seeks, file_args, hashed, content, checkfile, files_failed,
                 history, changes>>

-----------------------------------------------------------------------------
(* Someone else rewrites a file, or removes it.                            *)
ChangeFile ==
  /\ pc # "exited"
  /\ changes < MaxChanges
  /\ \E f \in DOMAIN content, c \in {"two", "none"} : content' = [content EXCEPT ![f] = c]
  /\ changes' = changes + 1
  /\ UNCHANGED <<windows, format, seeks, pc, file_args, hashed, checkfile, files_failed,
                 statuses, history>>

(* The check is over; only deadlock checking needs this.                   *)
Terminating == pc = "exited" /\ UNCHANGED vars

Next ==
  \/ hash_one_input \/ ExitAndCheck
  \/ check_one_checkfile \/ Exit
  \/ ChangeFile
  \/ Terminating

Spec == Init /\ [][Next]_vars

-----------------------------------------------------------------------------
(* Properties.                                                             *)

(* A check never succeeds when it should not (main.rs:282-286): OK is said *)
(* of the very file the line was printed for, never of another whose name  *)
(* comes out the same, and only when it is what it was.  When the hashing  *)
(* and the check both succeed, it has been said of every file given.       *)
CheckVouches ==
  /\ \A k \in DOMAIN checked :
       checked[k].ok =>
         /\ checked[k].file = FileOf(printed[k].name)
         /\ checked[k].content = printed[k].content
  /\ statuses = <<0, 0>> =>
       Len(checked) = Len(file_args) /\ \A k \in DOMAIN checked : checked[k].ok

(* Lines with a whole hash, read back with the position they were made     *)
(* with, and names that are Unicode throughout.                            *)
Checkable ==
  /\ format \in {"plain", "tag"}
  /\ seeks[1] = seeks[2]
  /\ \A k \in DOMAIN printed : ~Has(printed[k].name, {"bad", "fffd"})

(* While no file changes, every line with such a name checks, whatever it  *)
(* is made of: but for tagged lines whose name has two spaces in a row.    *)
ListedFilesPass ==
  /\ pc = "exited" /\ changes = 0 /\ Checkable
  /\ format = "tag" => \A k \in DOMAIN printed : Places(printed[k].name, Untagged) = {}
  => statuses = <<0, 0>>

(* b3sum/what_does_check_do.md:153: "Any file with a valid Unicode name    *)
(* not containing the replacement character can be checked."  A tagged     *)
(* line is split at two spaces in its name before it is tried as tagged.   *)
EveryNameCanBeChecked == pc = "exited" /\ changes = 0 /\ Checkable => statuses = <<0, 0>>
=============================================================================
