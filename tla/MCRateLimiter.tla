---------------------------- MODULE MCRateLimiter ----------------------------
EXTENDS RateLimiter

\* A minute of two ticks and a day of three. A round uses two tokens: one
\* leaves no room for the estimate in the minute, two use up its requests.
MCWindowLength == [minute |-> 2, day |-> 3]
MCRequestLimit == [minute |-> 2, day |-> 3]
MCTokenLimit   == [minute |-> 2, day |-> 6]
===============================================================================
