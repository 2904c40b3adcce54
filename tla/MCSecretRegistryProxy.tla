------------------------ MODULE MCSecretRegistryProxy ------------------------
(* Instances of SecretRegistryProxy for TLC.                               *)
EXTENDS SecretRegistryProxy

CONSTANTS s1, s2

Mixed == {<<s1>>, <<s1, s1>>, <<s2, s1>>}
=============================================================================
