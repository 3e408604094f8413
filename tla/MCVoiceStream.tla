---------------------------- MODULE MCVoiceStream ----------------------------
(***************************************************************************)
(* Instances of VoiceStream.                                               *)
(***************************************************************************)
EXTENDS VoiceStream

Datagrams == Datagram
Sequences == 0..MaxFrames - 1

=============================================================================
