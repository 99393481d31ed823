---------------------------- MODULE Semaphores ----------------------------
(***************************************************************************)
(* The semaphore of asyncio: a counter of free permits and a queue of      *)
(* waiters.  release() hands the permit to the first waiter, who has it    *)
(* from then on but resumes later: until then it is "granted".             *)
(***************************************************************************)
EXTENDS Naturals, Sequences

Semaphore(n) == [free |-> n, waiting |-> <<>>, granted |-> {}]

\* An acquire that finds the semaphore locked waits, even if a permit is free.
Locked(s) == s.free = 0 \/ s.waiting # <<>> \/ s.granted # {}

Acquired(s) == [s EXCEPT !.free = @ - 1]

Queued(s, c) == [s EXCEPT !.waiting = Append(@, c)]

Released(s) ==
  IF s.waiting = <<>>
    THEN [s EXCEPT !.free = @ + 1]
    ELSE [s EXCEPT !.waiting = Tail(@), !.granted = @ \cup {Head(s.waiting)}]

\* Free permits go to the first waiters, as far as they reach: to those that
\* came while the permits of a waiter before them were not taken up.
HandedOn(s) ==
  LET w == s.waiting
      n == IF s.free < Len(w) THEN s.free ELSE Len(w)
  IN  [free |-> s.free - n, waiting |-> SubSeq(w, n + 1, Len(w)),
       granted |-> s.granted \cup {w[i] : i \in 1 .. n}]

\* Mutant of Resumed: whoever wakes up looks after nobody else.
ResumedAlone(s, c) == [s EXCEPT !.granted = @ \ {c}]

\* c resumes with the permit it was granted.
Resumed(s, c) == HandedOn([s EXCEPT !.granted = @ \ {c}])

\* The queue without c, who waits in it.
Others(s, c) ==
  LET w == s.waiting
      p == CHOOSE i \in DOMAIN w : w[i] = c
  IN  SubSeq(w, 1, p - 1) \o SubSeq(w, p + 1, Len(w))

\* c is cancelled where it waits; a permit it was granted is free again.
Abandoned(s, c) ==
  HandedOn(IF c \in s.granted
             THEN [free |-> s.free + 1, waiting |-> s.waiting,
                   granted |-> s.granted \ {c}]
             ELSE [s EXCEPT !.waiting = Others(s, c)])

\* No permit lies free while calls wait for one, unless a call was granted
\* one: it hands on what is free when it resumes.
HandsOn(s) == s.free > 0 /\ s.waiting # <<>> => s.granted # {}

=============================================================================
