-------------------------- MODULE MCMessageFraming ---------------------------
(* Lengths of two ternary bytes, up to 8; messages of one to five bytes of     *)
(* which the largest is too large to be sent.                                  *)
EXTENDS MessageFraming

Short == <<2>>
Lengthlike == <<0, 1, 1>>            \* its beginning looks like a length
Longest == <<1, 0, 2, 1>>
TooLarge == <<2, 2, 2, 2, 2>>

AllMessages == {Short, Lengthlike, Longest, TooLarge}

\* offer and final of the server, the response of the client.
OwnPrograms == {<<Longest, Short, Lengthlike>>, <<Lengthlike, Longest>>, <<Short, TooLarge>>}

\* No length, too great a length, a length that is not reached, and a message
\* that is none.
OtherStreams ==
    {<<0, 0, 1>>, <<2, 2, 1, 1, 1, 1, 1, 1, 1, 1>>, <<1, 1, 1>>, <<0, 1, 0>>, <<0, 2, 0, 0>>}
==============================================================================
