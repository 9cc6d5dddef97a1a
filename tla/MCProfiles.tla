---- MODULE MCProfiles ----
EXTENDS Profiles

P(k, a, b, s) == [kind |-> k, rps0 |-> a, rps1 |-> b, secs |-> s]

\* A rising line that does not divide evenly, then a constant; a falling line,
\* then a sine; a part without length, after a constant and after a sine; a Sum
\* of the first two, and of the first and a much shorter one; and a Sum and a Seq
\* of nothing.
Up   == <<P("line", 0, 5, 2), P("const", 3, 3, 1), P("line", 2, 0, 1)>>
Down == <<P("line", 7, 0, 3), P("sin", 1, 2, 1)>>
Bad  == <<P("const", 1, 1, 1), P("line", 0, 1, 0)>>

Late == <<P("sin", 1, 2, 1), P("line", 0, 1, 0)>>
Short == <<P("const", 1, 1, 1)>>

MCProfs == {<<Up>>, <<Down>>, <<Bad>>, <<Late>>, <<Up, Down>>, <<Up, Short>>,
            <<>>, <<Down, <<>>>>}
==============================
