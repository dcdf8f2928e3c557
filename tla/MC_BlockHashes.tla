--------------------------- MODULE MC_BlockHashes ---------------------------
EXTENDS BlockHashes
CONSTANTS a, b, lora, salt

(* 0 is the placeholder of an image; a prompt has up to two images, beside *)
(* each other or one of two tokens, and ends inside a block                  *)
Feature(id, at, n) == [identifier |-> id, offset |-> at, length |-> n]
Images == {<<>>} \cup {<<Feature(x, 2, 2)>> : x \in {a, b}}
          \cup {<<Feature(x, 3, 1), Feature(a, 4, 1)>> : x \in {a, b}}
          \cup {<<Feature(x, 2, 1), Feature(y, 3, 1)>> : x, y \in {a, b}}
Prompt(n, fs) == [i \in 1..n |-> IF \E f \in ToSet(fs) : f.offset < i /\ i <= End(f) THEN 0 ELSE 1]
MCInputs == {[prompt |-> Prompt(n, fs), mm_features |-> fs, lora |-> l, salt |-> s] :
             n \in {5, 7}, fs \in Images, l \in {<<>>, <<lora>>}, s \in {<<>>}}
            \cup {[prompt |-> Prompt(7, <<>>), mm_features |-> <<>>, lora |-> l, salt |-> <<s>>] :
                   l \in {<<>>, <<lora>>}, s \in {lora, salt}}
MCSampled == {<<1>>, <<1, 1>>}
=============================================================================
