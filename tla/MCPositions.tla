------------------------------- MODULE MCPositions -------------------------------
(* StreamPositions for TLC, with the codecs of what it delivers: the constants are *)
(* given in the configurations.                                                    *)
EXTENDS StreamPositions, PayloadCodecs

\* A publication is given to the application with the payload the server meant
\* (_process_publication(), apply_delta()).
DeltaMeetsReference == log # <<>> => DeltasAgree

\* A message on the way arrives as it was sent, whatever else is in its frame
\* (_process_incoming_data(), decode_replies()).
FrameMeetsReference == messages # <<>> => FramesAgree
=============================================================================
