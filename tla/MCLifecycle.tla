----------------------------- MODULE MCLifecycle -----------------------------
(***************************************************************************)
(* The programs of the repository, for TLC.                                *)
(***************************************************************************)
EXTENDS LifecycleInvariant

AllPrograms ==
    {"secure_server", "secure_client", "generate_dsa_keypair",
     "kem_demo", "sig_demo", "aes_demo", "hkdf_demo"}
==============================================================================
