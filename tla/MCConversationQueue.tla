-------------------------- MODULE MCConversationQueue --------------------------
(* ConversationQueue with one job that shows the captcha and two silent ones. *)
EXTENDS ConversationQueue, TLC

CONSTANTS message, reaction, key

MCArrivals == <<reaction, message, key>>
MCCaptcha == {message}
MCProfileKeys == {key}

MCSilentJob == <<reaction>>
===============================================================================
