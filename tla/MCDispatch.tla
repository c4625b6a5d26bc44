----------------------------- MODULE MCDispatch -----------------------------
(***************************************************************************)
(* Dispatch with three connections named by model values.                  *)
(***************************************************************************)
EXTENDS Dispatch

CONSTANTS s1, s2, s3

MCSockets == {s1, s2, s3}

\* list.c against its sequence meaning: every run of up to three calls of
\* list_prepend(), list_append() (with list_last()) and list_delete_link()
\* at any position, from an empty list, keeps the list well linked and its
\* payloads those of the reference.  list_append() and list_last() are not
\* called by the program, so only this check reaches them.
ASSUME \A calls \in SeqOf(L!Calls({s1, s2}, 3), 3) :
         L!AgreesWithSeq(calls, L!EmptyHeap, NULL, <<>>)

=============================================================================
