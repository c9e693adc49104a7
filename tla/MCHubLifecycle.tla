--------------------------- MODULE MCHubLifecycle ---------------------------
(* Three profiles that between them have every kind of endpoint, so that a *)
(* failing third one rolls two back, and selectors that collide or do not. *)
EXTENDS HubLifecycle

CONSTANTS s1, s2, s3

MCCatalog == << <<"api", "tcp">>, <<"pty", "rfc2217">>, <<"api">> >>
MCSelections ==
  { <<s1, s2, s3>>, <<s1, AnySerial, s2>>, <<AnySerial, s1, s2>>, <<s1, s2, s1>> }

=============================================================================
