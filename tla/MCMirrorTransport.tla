------------------------- MODULE MCMirrorTransport --------------------------
(* MirrorTransport on a small instance: one request of the client itself,  *)
(* one of its retrying view, and the answers the code tells apart.         *)
EXTENDS MirrorTransport

CONSTANTS r1, r2

MCRequests == {r1, r2}
MCViaView  == {r2}

Answer(s, ra) == [status |-> s, retryAfter |-> ra]

MCResponses == {Answer(200, "none"), Answer(400, "none"), Answer(404, "none"),
                Answer(429, "short"), Answer(429, "long"), Answer(501, "none"),
                Answer(503, "none")}

=============================================================================
