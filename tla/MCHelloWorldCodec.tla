-------------------------- MODULE MCHelloWorldCodec -------------------------
(* Messages around the sizes where padding and the bound of 255 matter. *)
EXTENDS HelloWorldCodec

MessageSizes == {0, 3, 254, 255, 256, 259, 260}

\* A message is told apart by its size.
SizeOf == [m \in MessageSizes |-> m]
=============================================================================
