----------------------------- MODULE Semaphore -----------------------------
(***************************************************************************)
(* miniss's Semaphore: a count of tokens and a list of waiting clients,    *)
(* each with the number of tokens it wants.  A semaphore is a value here;  *)
(* who waits is whatever the client of the module puts on record.          *)
(***************************************************************************)
EXTENDS Integers, Sequences

NewSemaphore(n) == [tokens |-> n, waiting |-> <<>>]

\* A semaphore that lets in whoever comes.
AdmitsAll(sem, n) == sem.waiting = <<>>

\* wait() lets a client in at once only if a token remains after it.
Admits(sem, n) == n < sem.tokens /\ sem.waiting = <<>>

AfterWait(sem, n, who) ==
  IF Admits(sem, n)
    THEN [sem EXCEPT !.tokens = @ - n]
    ELSE [sem EXCEPT !.waiting = Append(@, [tokens |-> n, who |-> who])]

\* release() lets in the client at the front if it can, and no other.
Grants(sem, n) == sem.waiting # <<>> /\ Head(sem.waiting).tokens <= sem.tokens + n

\* A release that lets a client in without taking its tokens.
GrantForFree(sem, n) ==
  IF Grants(sem, n)
    THEN [tokens |-> sem.tokens + n, waiting |-> Tail(sem.waiting)]
    ELSE [sem EXCEPT !.tokens = @ + n]

AfterRelease(sem, n) ==
  IF Grants(sem, n)
    THEN [tokens |-> sem.tokens + n - Head(sem.waiting).tokens, waiting |-> Tail(sem.waiting)]
    ELSE [sem EXCEPT !.tokens = @ + n]
=============================================================================
