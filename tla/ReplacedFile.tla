----------------------------- MODULE ReplacedFile -----------------------------
(***************************************************************************)
(* A JSON file that is rewritten whole: the new text goes into a temporary *)
(* file whose name every writer shares, which then takes the place of the  *)
(* saved one. No lock is held. The temporary file is a set of at most one  *)
(* content; a crash leaves it where it is.                                 *)
(***************************************************************************)

NewFile(content) == [saved |-> content, temp |-> {}]

(* write_text on the temporary file                                        *)
Written(file, content) == [file EXCEPT !.temp = {content}]

(* replace raises when another writer has already moved the file.          *)
CanReplace(file) == file.temp # {}

Replaced(file) == [saved |-> CHOOSE content \in file.temp : TRUE, temp |-> {}]
=============================================================================
