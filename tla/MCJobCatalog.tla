---------------------------- MODULE MCJobCatalog ----------------------------
(* JobCatalog on two jobs, with documents that differ in one respect each.  *)
EXTENDS JobCatalog

MCUnit == [ms |-> 1, s |-> 7, m |-> 28]
MCUnitOrder == <<"m", "s", "ms">>

Dur(digits, unit) == <<[digits |-> digits, fraction |-> NULL, unit |-> unit]>>

StepDoc(name, needs, retry) ==
    [name |-> name, run |-> <<"absolute">>, shell |-> FALSE, timeout |-> NULL,
     retry |-> retry, needs |-> needs]
JobDoc(name, steps) ==
    [name |-> name, timeout |-> NULL, maxConcurrent |-> NULL, inherit |-> NULL,
     steps |-> steps]
Retry(max) == [max |-> max, initial |-> NULL, maxDelay |-> NULL]

One   == JobDoc(1, <<StepDoc(1, NULL, NULL), StepDoc(2, <<1>>, Retry(1))>>)
Wide  == [JobDoc(1, <<StepDoc(1, NULL, NULL)>>) EXCEPT !.maxConcurrent = 2]
Other == JobDoc(2, <<StepDoc(1, NULL, NULL)>>)
Twice == JobDoc(2, <<StepDoc(1, NULL, NULL), StepDoc(2, <<1, 1>>, NULL)>>)
Broken == JobDoc(2, <<>>)
MCWritten == {Wide}
MCInitial == <<One, Twice>>

\* The documents of the laws: every field takes every kind of value it has.
StepDocs(name) ==
    [name : {name}, run : {NULL, Text, <<>>, <<"absolute">>, <<"relative">>},
     shell : BOOLEAN, timeout : {NULL, Dur(<<9>>, "ms"), Dur(<<0>>, "s")},
     retry : {NULL, Retry(NULL), Retry(2), [Retry(2) EXCEPT !.maxDelay = Dur(<<1>>, "ms")],
              [Retry(2) EXCEPT !.initial = Dur(<<2>>, "ms")]},
     needs : {NULL, <<2>>}]
JobDocs(steps) ==
    [name : {1, Text}, timeout : {NULL, Dur(<<2>>, "s"), Dur(<<9, 9>>, "m")},
     maxConcurrent : {NULL, 0, 1, 2}, inherit : {NULL, <<1, 2>>, <<2, 1>>}, steps : {steps}]
Plain(name, needs) == StepDoc(name, needs, NULL)
MCDocs ==
    MCWritten \union {One, Twice, Other, Broken}
      \union {JobDoc(1, <<s, Plain(2, NULL)>>) : s \in StepDocs(1) \union StepDocs(2)}
      \union JobDocs(<<Plain(1, NULL)>>)
      \union {JobDoc(1, <<Plain(1, NULL), Plain(2, NULL), Plain(a, n)>>) :
                 a \in {1, 3, NULL}, n \in {NULL, <<1, 2>>, <<2, 1>>, <<2>>, <<1, 1>>, <<4>>}}
      \union {JobDoc(1, NULL), JobDoc(1, <<Plain(1, NULL), Plain(2, NULL), Plain(3, NULL),
                                           Plain(4, NULL)>>)}
=============================================================================
