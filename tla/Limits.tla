------------------------------- MODULE Limits -------------------------------
(* The limits of the dashboard's lists, declared once for the modules of the
   program that main() runs. *)
EXTENDS Integers

CONSTANTS
    MaxEvents,      \* events a PacketMap keeps (100)
    MaxSamples      \* max_samples_ of a TelemetryStream (1000)

ASSUME MaxEventsAssumption == MaxEvents \in Nat \ {0}

ASSUME MaxSamplesAssumption == MaxSamples \in Nat \ {0}
=============================================================================
