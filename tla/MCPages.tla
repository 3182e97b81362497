--------------------------- MODULE MCPages ---------------------------
(* A workspace's webhooks and weekly pages, the single-organization server and the
   server's upkeep on small instances, one after the other, as in MCStores.            *)
EXTENDS TLC, WebhookSettings, InboundHooks, PublicFeed, Upkeep, Weekly, PulsePages,
        GitHubListings, HealthPage, Startup, WebhookConsole, Outbound, HookForm

VARIABLE part   \* which of them runs

Parts == {"webhooks", "inbound", "public", "limits", "retention", "digests",
          "sends", "recaps", "pulse", "sums", "listings", "health", "startup", "legacy",
          "console", "outbound", "form"}

PagesInit ==
  /\ part \in Parts
  /\ SettingsInit
  /\ part # "webhooks" => readable = [m \in Member |-> {}]
  /\ InboundInit
  /\ PublicInit
  /\ part # "public" => setup = [secret |-> FALSE, key |-> FALSE] /\ ~protection
  /\ RateInit
  /\ RetentionInit
  /\ DigestInit
  /\ part # "digests" => schedule = (CHOOSE s \in Schedules : TRUE) /\ listening = NotListening
  /\ DigestSendInit
  /\ part # "sends" => pinned.repos = {} /\ sources = (CHOOSE key \in SourceKey : TRUE)
  /\ RecapInit
  /\ scope = [q \in Query |-> CHOOSE s \in Answers : TRUE]   \* every answer is like any other
       /\ week = (CHOOSE w \in RecapWeek : TRUE)              \* and so is every week
  /\ PulseInit
  /\ part # "pulse" => onFile = {} /\ view = "history" /\ board.key = (CHOOSE k \in BoardKey : TRUE)
  /\ part # "sums" => period = (CHOOSE p \in Period : TRUE)
       /\ today = (CHOOSE d \in SumDays : \A e \in SumDays : e <= d) /\ input = <<>>
  /\ SumInit
  /\ input # <<>> => input[1].id = 1 /\ input[1].org = 1
  /\ ListingInit
  /\ part # "listings" => there = {} /\ ~suspended /\ listing.by = "user"
  /\ HealthPageInit
  /\ part # "health" => services.order = {}
  /\ StartupInit
  /\ LegacyInit
  /\ ConsoleInit
  /\ OutboundInit
  /\ part # "outbound" => target = [is |-> "webhook", url |-> "name"] /\ names = {}
  /\ HookFormInit

PagesNext ==
  \/ /\ part = "webhooks" /\ SettingsNext
     /\ UNCHANGED <<part, inboundVars, publicVars, rateVars, retentionVars, digestVars,
                    sendVars, recapVars, pulseVars, sumVars, listingVars,
                    healthPageVars, startupVars, legacyVars, consoleVars, outboundVars,
                    formVars>>
  \/ /\ part = "inbound" /\ InboundNext
     /\ UNCHANGED <<part, settingsVars, publicVars, rateVars, retentionVars, digestVars,
                    sendVars, recapVars, pulseVars, sumVars, listingVars,
                    healthPageVars, startupVars, legacyVars, consoleVars, outboundVars,
                    formVars>>
  \/ /\ part = "public" /\ PublicNext
     /\ UNCHANGED <<part, settingsVars, inboundVars, rateVars, retentionVars,
                    digestVars, sendVars, recapVars, pulseVars, sumVars, listingVars,
                    healthPageVars, startupVars, legacyVars, consoleVars, outboundVars,
                    formVars>>
  \/ /\ part = "limits" /\ RateNext
     /\ UNCHANGED <<part, settingsVars, inboundVars, publicVars, retentionVars,
                    digestVars, sendVars, recapVars, pulseVars, sumVars, listingVars,
                    healthPageVars, startupVars, legacyVars, consoleVars, outboundVars,
                    formVars>>
  \/ /\ part = "retention" /\ RetentionNext
     /\ UNCHANGED <<part, settingsVars, inboundVars, publicVars, rateVars, digestVars,
                    sendVars, recapVars, pulseVars, sumVars, listingVars,
                    healthPageVars, startupVars, legacyVars, consoleVars, outboundVars,
                    formVars>>
  \/ /\ part = "digests" /\ DigestNext
     /\ UNCHANGED <<part, settingsVars, inboundVars, publicVars, rateVars,
                    retentionVars, sendVars, recapVars, pulseVars, sumVars, listingVars,
                    healthPageVars, startupVars, legacyVars, consoleVars, outboundVars,
                    formVars>>
  \/ /\ part = "sends" /\ DigestSendNext
     /\ UNCHANGED <<part, settingsVars, inboundVars, publicVars, rateVars,
                    retentionVars, digestVars, recapVars, pulseVars, sumVars,
                    listingVars, healthPageVars, startupVars, legacyVars, consoleVars,
                    outboundVars, formVars>>
  \/ /\ part = "recaps" /\ RecapNext
     /\ UNCHANGED <<part, settingsVars, inboundVars, publicVars, rateVars,
                    retentionVars, digestVars, sendVars, pulseVars, sumVars,
                    listingVars, healthPageVars, startupVars, legacyVars, consoleVars,
                    outboundVars, formVars>>
  \/ /\ part = "pulse" /\ PulseNext
     /\ UNCHANGED <<part, settingsVars, inboundVars, publicVars, rateVars,
                    retentionVars, digestVars, sendVars, recapVars, sumVars,
                    listingVars, healthPageVars, startupVars, legacyVars, consoleVars,
                    outboundVars, formVars>>
  \/ /\ part = "sums" /\ SumNext
     /\ UNCHANGED <<part, settingsVars, inboundVars, publicVars, rateVars,
                    retentionVars, digestVars, sendVars, recapVars, pulseVars,
                    listingVars, healthPageVars, startupVars, legacyVars, consoleVars,
                    outboundVars, formVars>>
  \/ /\ part = "listings" /\ ListingNext
     /\ UNCHANGED <<part, settingsVars, inboundVars, publicVars, rateVars,
                    retentionVars, digestVars, sendVars, recapVars, pulseVars, sumVars,
                    healthPageVars, startupVars, legacyVars, consoleVars, outboundVars,
                    formVars>>
  \/ /\ part = "health" /\ HealthPageNext
     /\ UNCHANGED <<part, settingsVars, inboundVars, publicVars, rateVars,
                    retentionVars, digestVars, sendVars, recapVars, pulseVars, sumVars,
                    listingVars, startupVars, legacyVars, consoleVars, outboundVars,
                    formVars>>
  \/ /\ part = "startup" /\ StartupNext
     /\ UNCHANGED <<part, settingsVars, inboundVars, publicVars, rateVars,
                    retentionVars, digestVars, sendVars, recapVars, pulseVars, sumVars,
                    listingVars, healthPageVars, legacyVars, consoleVars, outboundVars,
                    formVars>>
  \/ /\ part = "legacy" /\ LegacyNext
     /\ UNCHANGED <<part, settingsVars, inboundVars, publicVars, rateVars,
                    retentionVars, digestVars, sendVars, recapVars, pulseVars, sumVars,
                    listingVars, healthPageVars, startupVars, consoleVars, outboundVars,
                    formVars>>
  \/ /\ part = "console" /\ ConsoleNext
     /\ UNCHANGED <<part, settingsVars, inboundVars, publicVars, rateVars,
                    retentionVars, digestVars, sendVars, recapVars, pulseVars, sumVars,
                    listingVars, healthPageVars, startupVars, legacyVars, outboundVars,
                    formVars>>
  \/ /\ part = "outbound" /\ OutboundNext
     /\ UNCHANGED <<part, settingsVars, inboundVars, publicVars, rateVars,
                    retentionVars, digestVars, sendVars, recapVars, pulseVars, sumVars,
                    listingVars, healthPageVars, startupVars, legacyVars, consoleVars,
                    formVars>>
  \/ /\ part = "form" /\ HookFormNext
     /\ UNCHANGED <<part, settingsVars, inboundVars, publicVars, rateVars,
                    retentionVars, digestVars, sendVars, recapVars, pulseVars, sumVars,
                    listingVars, healthPageVars, startupVars, legacyVars, consoleVars,
                    outboundVars>>

pagesVars ==
  <<part, settingsVars, inboundVars, publicVars, rateVars, retentionVars, digestVars,
    sendVars, recapVars, pulseVars, sumVars, listingVars, healthPageVars, startupVars,
    legacyVars, consoleVars, outboundVars, formVars>>

PagesSpec == PagesInit /\ [][PagesNext]_pagesVars

\* Every variable of the part that runs has its type.
PagesTypeOK ==
  /\ part = "webhooks" => SettingsTypeOK
  /\ part = "inbound" => InboundTypeOK
  /\ part = "public" => PublicTypeOK
  /\ part = "limits" => RateTypeOK
  /\ part = "retention" => RetentionTypeOK
  /\ part = "digests" => DigestTypeOK
  /\ part = "sends" => DigestSendTypeOK
  /\ part = "recaps" => RecapTypeOK
  /\ part = "pulse" => PulseTypeOK
  /\ part = "sums" => SumTypeOK
  /\ part = "listings" => ListingTypeOK
  /\ part = "health" => HealthPageTypeOK
  /\ part = "startup" => StartupTypeOK
  /\ part = "legacy" => LegacyTypeOK
  /\ part = "console" => ConsoleTypeOK
  /\ part = "outbound" => OutboundTypeOK
  /\ part = "form" => HookFormTypeOK

\* Webhooks tell of their owner's repositories, an alert is announced once, the page reveals
\* and tests what is stored, a form gives back what it was given, and a request goes only to addresses that were checked.
WebhooksSafe ==
  /\ SettingsSafe /\ InboundSafe /\ ConsoleSafe /\ OutboundSafe
  /\ part = "form" => FormSafe

\* The public feed, the limits, the upkeep of the tables, GitHub's listings, the Service
\* Health page, the start of processes, and the import of old files.
ServerSafe ==
  /\ PublicFeedSafe /\ RateSafe /\ RetentionSafe /\ ListingsSafe /\ HealthPageSafe
  /\ StartupSafe /\ LegacySafe

\* Digests, recaps and the activity of a period.
PeriodsSafe == DigestsSafe /\ DigestSendsSafe /\ RecapsSafe /\ PulseSafe /\ SumsSafe

OffWest == {-1, 1}

PastTimes == (1 :> 1) @@ (2 :> 1) @@ (3 :> 2)
PastRepos == (1 :> "a") @@ (2 :> "b") @@ (3 :> "a")

\* Saving, Making, Client, Service, Process and Copier have the same members.
Interchangeable == Permutations(Saving)

=============================================================================
