------------------------- MODULE MCRouteEvaluation -------------------------
EXTENDS RouteEvaluation

\* One sample survives the clamping of the first route, two of the second.
MCTopK == <<1, 2>>
=============================================================================
