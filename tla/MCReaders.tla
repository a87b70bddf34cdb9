----------------------------- MODULE MCReaders -----------------------------
(* A small instance of Readers: three paths, windows of a day.               *)
EXTENDS Readers

Undated == {[from |-> None, until |-> None]}
Unread == {[from |-> Unparsed, until |-> 1]}
Dated == {[from |-> 0, until |-> 1], [from |-> 1, until |-> 2], [from |-> 2, until |-> None]}

\* A current document is dated, one with a pointer is superseded, and one whose
\* pointer is spelt as a link is undated.  A superseded one may begin on what is no date.
Few ==
  [status : {"canonical"}, by : {None}, exact : {TRUE}, window : Dated]
  \cup [status : {"superseded"}, by : {None}, exact : {TRUE}, window : Undated]
  \cup [status : {"superseded"}, by : Docs, exact : {TRUE}, window : Dated \cup Undated \cup Unread]
  \cup [status : {"superseded"}, by : Docs, exact : {FALSE}, window : Undated]
==============================================================================
