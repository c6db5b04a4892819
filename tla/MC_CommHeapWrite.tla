-------------------------- MODULE MC_CommHeapWrite --------------------------
EXTENDS CommHeapWrite

\* Payload lengths up to what fits in hal_raw_buffer after the 12 bytes of
\* framing (244), with spaces near the front, in the middle or absent.
Lens == {0, 1, 40, 100, 126, 127, 200, 244}
Spaces(n) == {-1} \cup ({0, 1, 2, 20, 60} \cap 0..(n - 1))

\* The payloads of length n: a first space, and a second one after it.
WithLen(n) ==
    UNION {{[len |-> n, s1 |-> a, s2 |-> b] : b \in {-1} \cup {x \in Spaces(n) : x > a}} :
           a \in Spaces(n)}

MCPayloads == UNION {WithLen(n) : n \in Lens}
=============================================================================
