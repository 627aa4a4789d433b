----------------------------- MODULE MC_GcmGfMult -----------------------------
EXTENDS GcmGfMult

\* Four-byte field elements.
Vec(b0, b1, b2, b3) == [i \in 0..3 |-> <<b0, b1, b2, b3>>[i + 1]]
\* x^k for every k: a product with each of them is a shift that crosses
\* every byte and word boundary and reaches every reduction.
Monomials == {[i \in 0..3 |-> IF i = k \div 8 THEN 2^(7 - (k % 8)) ELSE 0] : k \in 0..31}
\* Zero, one, x^31, all ones, and dense patterns that fill every nibble.
Dense == {Vec(0, 0, 0, 0), Vec(\h80, 0, 0, 0), Vec(0, 0, 0, \h01),
          Vec(\hFF, \hFF, \hFF, \hFF), Vec(\h12, \h34, \h56, \h78),
          Vec(\hE1, \h0F, \hA5, \h3C)}
MC_InputsA == Monomials \cup Dense
MC_InputsB == Monomials \cup Dense
====
