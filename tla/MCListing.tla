----------------------------- MODULE MCListing -----------------------------
(***************************************************************************)
(* A TLC instance of Listing: the keys a/x, a/y, b and b/z.                *)
(***************************************************************************)
EXTENDS Listing

Slash == 47
MCKeys == {<<97, Slash, 120>>, <<97, Slash, 121>>, <<98>>, <<98, Slash, 122>>}
MCPrefixes == {<<>>, <<97>>}
MCDelimiters == {Slash, NoDelimiter}
MCAsked == {-1, 0, 1}
=============================================================================
