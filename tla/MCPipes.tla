------------------------------ MODULE MCPipes ------------------------------
(* An instance of Pipes for TLC: two programs, two pipes of two bytes,    *)
(* and file names of which two share their first eight characters.          *)
EXTENDS Pipes

MCFilenames == {"kayitlar1", "kayitlar2", "mesaj", "gunluk"}
MCNames == {"kayitlar", "mesaj", "gunluk"}
MCFirstEight == [f \in MCFilenames |->
                    IF f \in {"kayitlar1", "kayitlar2"} THEN "kayitlar" ELSE f]
MCOffers == {<<1>>, <<0, 1, 0>>}
=============================================================================
