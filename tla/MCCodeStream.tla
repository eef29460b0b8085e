------------------------------ MODULE MCCodeStream ------------------------------
EXTENDS CodeStream, TLC

CONSTANTS r1, r2

\* A parser that ends at [DONE] and the SDK, which raises where the other skips.
TwoProviders == r1 :> "deepseek" @@ r2 :> "gemini"

\* Two pieces that are kept, to lose, repeat or swap, one past the limit of an
\* entry, and one of another request to mix with them.
FewTexts == r1 :> 3 @@ r2 :> 1
=================================================================================
