--------------------------- MODULE MCAuthSession ---------------------------
(* Small instance of AuthSession.                                          *)
EXTENDS AuthSession, TLC

URIOf(scheme, host, port, userinfo) ==
    [scheme |-> scheme, host |-> host, port |-> port, userinfo |-> userinfo]

MCAllowedURIs == {[scheme |-> "http", host |-> "localhost", port |-> "*"],
                  [scheme |-> "https", host |-> "vote", port |-> ""]}
MCURI == {URIOf("http", "localhost", "3000", FALSE),
          URIOf("https", "vote", "8443", FALSE)}

Symmetry == Permutations(Attempt) \cup Permutations(Eligible)

=============================================================================
