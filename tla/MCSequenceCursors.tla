--------------------------- MODULE MCSequenceCursors ---------------------------
(* Small instances of SequenceCursors for TLC. *)
EXTENDS SequenceCursors, TLC

CONSTANTS get, post, ra, rb, rc

Sequence(responses, policy) == [responses |-> responses, on_exhaustion |-> policy]
Rule(matches, priority, sequence, proxied) ==
    [matches |-> matches, priority |-> priority, timestamp |-> 0, sequence |-> sequence,
     proxied |-> proxied, delayed |-> FALSE]
Mock(sequence, rules, delayed) == [sequence |-> sequence, rules |-> rules, delayed |-> delayed]

Short == Sequence(<<ra>>, "error")
Single == Sequence(<<rc>>, "repeat_last")
Long == Sequence(<<ra, rb>>, "repeat_last")
Other == Sequence(<<rb, rc>>, "error")

Rules == <<Rule({post}, 0, Other, FALSE)>>

\* Racing requests: the two mocks have their rules in common, so that a PATCH of
\* the default sequence hands the cursor of the rule on; the third has none.
RacingMocks ==
    LET rules == <<Rule({post}, 0, Single, FALSE)>>
    IN  {Mock(Long, rules, FALSE), Mock(Short, rules, TRUE), Mock(NoSequence, << >>, FALSE)}

\* The choice of a sequence: the same default beside other rules, of which both
\* may match and the later one wins by its priority; a proxied rule.
ChoiceMocks ==
    {Mock(Long, Rules, TRUE),
     Mock(Short, Rules, FALSE),
     Mock(Long, <<Rule({get, post}, 0, Short, FALSE), Rule({post}, 1, Other, FALSE)>>, FALSE),
     Mock(NoSequence, <<Rule({get}, 0, NoSequence, TRUE)>>, FALSE)}

RequestSymmetry == Permutations(Requests)
===============================================================================
