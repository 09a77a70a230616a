----------------------------- MODULE MCConnect -----------------------------
(***************************************************************************)
(* One token of PAIRING_TOKEN_BYTES.  Requests and displays such that a    *)
(* mode fits, has to be replaced by one of the same shape, by one of       *)
(* another shape, or none fits; one display is just below 60 Hz.  The      *)
(* small display streams; the decoders of those with larger modes refuse   *)
(* after the configuration was chosen.  Dimensions in tens of pixels.      *)
(***************************************************************************)
EXTENDS Connect

MCTokens == {<<255, 0, 129, 7, 64, 1, 2, 254, 16, 33>>}

MCModes == << <<256, 160>>, <<256, 144>>, <<192, 120>>, <<192, 108>>, <<160, 120>>,
              <<128, 80>>, <<128, 72>>, <<96, 60>>, <<96, 54>> >>

Req(w, h, hz) == [width |-> w, height |-> h, hz |-> hz]
Dev(w, h, refresh, bitrate, picky) ==
    [limits |-> [width |-> w, height |-> h, refresh |-> refresh, bitrate |-> bitrate],
     codecs |-> {"H264"}, picky |-> picky]

MCRequests == {Req(192, 108, 60), Req(256, 160, 30), Req(90, 50, 60)}
MCDisplays == {Dev(90, 50, 60000, 3000, FALSE), Dev(256, 256, 60000, 20000, TRUE),
               Dev(140, 100, 59940, 3000, TRUE), Dev(192, 110, 60000, 40000, TRUE),
               Dev(256, 160, 24000, 40000, FALSE)}

=============================================================================
